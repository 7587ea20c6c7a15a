----------------------------- MODULE MCMetrics ------------------------------
(* Metrics on sampled measurements. *)
EXTENDS Metrics

Zero == [shot_type |-> 55, speed |-> 0, launch_angle |-> 0, direction |-> 0,
         total_spin |-> 0, spin_axis |-> 0, back_spin |-> 0, side_spin |-> 0]

\* Every field distinct, one of them (-113) a word that its hundredth, times 100, falls
\* short of, a putt without spin, and the ends of the range.
Balls ==
    {Zero,
     [Zero EXCEPT !.speed = 4000, !.launch_angle = 1500, !.direction = -113,
                  !.total_spin = 5000, !.spin_axis = -200, !.back_spin = 4990,
                  !.side_spin = -300],
     [Zero EXCEPT !.total_spin = -1, !.spin_axis = 32767, !.side_spin = 32767],
     [Zero EXCEPT !.total_spin = 1, !.spin_axis = -32768, !.side_spin = -32768]}

\* A different value, with two different bytes, in every field.
Distinct == [i \in Fields |-> 259 + 512 * i]
Answer == [valid |-> Fields, raw |-> Distinct, len |-> 19]

\* Words that are the sentinel, half of it, or at the ends of the range, and words
\* that their hundredths, times 100, fall short of (29, -57) or go beyond (55).
Edges == {-32768, -256, -57, -1, 0, 29, 55, 255, 32767}

\* Masks: at most one field valid, or at most one invalid, or every other.
Masks == {{}, Fields, {0, 2, 4, 6}} \cup {{i} : i \in Fields} \cup {Fields \ {i} : i \in Fields}

Clubs ==
    {[Answer EXCEPT !.valid = valid] : valid \in Masks}
    \cup {[Answer EXCEPT !.len = len] : len \in 0..19}
    \cup {[Answer EXCEPT !.raw[i] = v] : i \in Fields, v \in Edges}

\* The default, none at all, and a putter that has been measured.
Tables == {Default, Empty, SetOffset(Default, "Putter", 1200)}

\* Every state, query payloads, sensor and charge bytes; truncated and unknown frames.
Others ==
    {<<\h11, \h03, \h85, v>> : v \in Byte}
    \cup {<<\h91, 50, v>> : v \in 0..6}
    \cup {<<\h11, \h06>>, <<\h11, \h06, \h17, 1, 0>>, <<\h11, \h04, 0, 0, 0, 156, 255>>}
    \cup {<<\h11, \h01, 0, r, d>> \o [i \in 1..12 |-> 255] : r \in 0..3, d \in 0..1}
    \cup {<<\h71, 1, 2, 3, 4, 5, 6, 7, 8>>, <<\h71, 1>>, <<\h91>>, <<\h11>>, <<>>, <<0>>}
    \cup {<<\h11, \h01, 0>>, <<\h11, \h02, 0>>, <<\h11, \h03>>, <<\h11, \h04>>, <<\h11, \h09>>}
=============================================================================
