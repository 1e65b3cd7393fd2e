-------------------------- MODULE MCTaskStreaming --------------------------
(* Every kind of channel the code of the task is written for, of one task:  *)
(* video and sound are read, sound first, while planar frames are written,  *)
(* from buffers of which one is too small.  And the channels that the       *)
(* constructors of the repository make, of two tasks: each has a YUV-in     *)
(* channel of packed frames, and one has a PCM-in channel, which no buffer  *)
(* is ever taken from.                                                      *)
EXTENDS TaskStreaming, TLC

CONSTANTS a1, a2, u1, u2

Video == <<0, 0>>
Yuv == <<0, 1>>
Pcm == <<0, 2>>

All == {Video, Yuv, Pcm}
AllDirections == [c \in Channels |-> IF c = Yuv THEN "write" ELSE "read"]
AllKinds == [c \in Channels |-> IF c = Video THEN {"more", "last"} ELSE {"end"}]
YuvOnly == {Yuv}
AllPlanes == <<8, 4, 0>>
MixedArmBufs == [c \in Channels |-> IF c = Yuv THEN {a1, a2} ELSE {a1}]
MixedUserBufs == [c \in Channels |-> IF c = Yuv THEN {u1, u2} ELSE {u1}]
TooSmall == {u2}

PcmIn == <<0, 0>>
YuvIn == <<0, 1>>
OtherYuvIn == <<1, 1>>

Made == {PcmIn, YuvIn, OtherYuvIn}
MadeDirections == [c \in Channels |-> "write"]
MadeKinds == [c \in Channels |-> {"end"}]
MadeFrames == {YuvIn, OtherYuvIn}
NoPlanes == <<0, 0, 0>>
MadeArmBufs == [c \in Channels |-> IF c = YuvIn THEN {a1, a2} ELSE {a1}]
OneUserBuf == [c \in Channels |-> {u1}]
=============================================================================
