---------------------------- MODULE MCHackRfTcp -----------------------------
(* Instances of HackRfTcp for TLC.                                         *)
EXTENDS HackRfTcp

C(name, arg) == [command |-> name, argument |-> arg]

(* What a client may do to a session.                                     *)
SomeCommands ==
    {C("TCP_ANDROID_EXIT", 0), C("TCP_SET_FREQ", 100000000)}

(* The ends of every range, and arguments that overflow an int.            *)
AllCommands ==
    SomeCommands \cup
    {C("TCP_SET_GAIN", n) : n \in {-10, 490, 2147483647}} \cup
    {C("TCP_SET_IF_TUNER_GAIN", n) : n \in {-11, 240, 1000000000}} \cup
    {C("TCP_ANDROID_GAIN_BY_PERCENTAGE", n) : n \in {-1, 101}} \cup
    {C("TCP_SET_SAMPLE_RATE", 2400000), C("TCP_SET_SAMPLE_RATE", 1),
     C("TCP_SET_AGC_MODE", 1), C("TCP_SET_TEST_MODE", 0)}
=============================================================================
