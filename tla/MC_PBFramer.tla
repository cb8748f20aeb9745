---------------------------- MODULE MC_PBFramer ----------------------------
(* Lines of telegrams and of their corrupted forms for PBFramer.            *)
EXTENDS PBFramer

Ack == <<SC>>
Token == <<SD4, 2, 1>>
Sd1 == <<SD1, 2, 1, 73, 76, ED>>
Sd2 == <<SD2, 4, 4, SD2, 2, 1, 250, ED, 19, ED>>
Sd2Empty == <<SD2, 0, 0, SD2, 0, ED>>
Sd3 == <<SD3, 2, 1, 8, ED, SC, SD1, SD2, 0, 0, 0, 0, 118, ED>>

Sd1BadSum == <<SD1, 2, 1, 73, SC, ED>>
Sd3BadEnd == <<SD3, 2, 1, 8, 0, SC, SD1, 0, 0, 0, 0, 0, 0, SC>>
LengthsDiffer == <<SD2, SC, 4>>
SecondMissing == <<SD2, 3, 3>>

MCStreams == {
    Token \o Sd2,
    <<0>> \o LengthsDiffer \o Ack \o Sd1BadSum \o Sd2Empty,
    SecondMissing \o Sd1 \o Ack,
    Sd3BadEnd \o Sd3,
    Sd2Empty \o Ack \o Ack \o Ack \o Ack \o Token \o Ack
}

=============================================================================
