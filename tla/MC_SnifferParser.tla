-------------------------- MODULE MC_SnifferParser --------------------------
(* Lines for SnifferParser of telegrams of every kind and of corrupted ones,
   among them SD2 with too few, just enough and too many bytes of data.     *)
EXTENDS SnifferParser

Ack == <<SC>>
Token == <<SD4, 2, 1>>
Sd1 == <<SD1, 2, 1, 73, 76, ED>>
Sd3 == <<SD3, 2, 1, 8, ED, SC, SD1, SD2, 0, 0, 0, 0, 118, ED>>

(* A telegram SD2 with l bytes of data, all of them b. *)
Sd2(l, b) == <<SD2, l, l, SD2>> \o [i \in 1..l |-> b] \o <<(l * b) % 256, ED>>

Bad(s, i) == [s EXCEPT ![i] = (@ + 1) % 256]

Pieces == {
    Ack, Token, Sd1, Sd3, Sd2(4, ED), Sd2(9, SC), Sd2(10, SC), Sd2(3, SD1),
    <<0>>, Bad(Sd1, 6), Bad(Sd3, 13), Bad(Sd2(5, SD4), 3), Bad(Sd2(6, 9), 12)
}

(* Any three of them in a row. *)
MCStreams == {a \o b \o c : a, b, c \in Pieces}

=============================================================================
