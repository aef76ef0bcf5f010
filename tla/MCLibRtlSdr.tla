----------------------------- MODULE MCLibRtlSdr ----------------------------
(* Small instances of LibRtlSdr: one dongle of each kind, and some that fail. *)
EXTENDS LibRtlSdr

Dongle(t) == [tuner |-> t, model |-> "generic", force |-> FALSE, faults |-> {}]
V4 == [Dongle(CHIP_R828D) EXCEPT !.model = "V4", !.force = TRUE]
V4L == [Dongle(CHIP_R820T) EXCEPT !.model = "V4L"]
Faulty(d, at) == [d EXCEPT !.faults = at]
MCDongles ==
    {Dongle(t) : t \in {"E4000", "FC0012", "FC0013", "FC2580", CHIP_R820T, CHIP_R828D, Unknown}}
    \cup {V4, V4L} \cup {Faulty(d, {1, 8, 14}) : d \in {V4, Dongle("FC0013")}}

MCOpenArgs == {[bias |-> FALSE, ppm |-> 100, rate |-> 2400, freq |-> 100000, gain |-> 140]}
\* What the tuner answers as a rule, and otherwise: no lock, or a VCO that is too high.
Ok == [lock |-> 1, vco |-> 2, cal |-> 7]
MCAnswers ==
    [t \in {d.tuner : d \in MCDongles} |->
        {Ok} \cup (CASE t \in {"FC0012", "FC0013"} -> {[Ok EXCEPT !.vco = 3]}
                     [] t \in {"E4000", CHIP_R820T, CHIP_R828D} -> {[Ok EXCEPT !.lock = 0, !.cal = 15]}
                     [] OTHER -> {})]
MCJunks == {[pins |-> {}, model |-> "generic", force |-> FALSE]}
Switches == {"TCP_SET_GAIN_MODE", "TCP_SET_TEST_MODE", "TCP_SET_AGC_MODE", "TCP_SET_OFFSET_TUNING"}
MCCommands ==
    {"TCP_SET_FREQ"} \X {7100, 200000, 868000}
    \cup {"TCP_SET_SAMPLE_RATE"} \X {250, 500, 1024}
    \cup {"TCP_SET_GAIN"} \X {140}
    \cup Switches \X {0, 1}
    \cup {"TCP_SET_FREQ_CORRECTION"} \X {0, 100}
    \cup {<<"TCP_SET_IF_TUNER_GAIN", <<2, 30>>>>}
    \cup {"TCP_SET_DIRECT_SAMPLING"} \X {0, 1, 2}
    \cup {<<"TCP_SET_RTL_XTAL", 28801>>, <<"TCP_SET_TUNER_XTAL", 16000>>}
    \cup {"TCP_SET_TUNER_GAIN_BY_ID"} \X {3, 40}
    \cup {"TCP_ANDROID_GAIN_BY_PERCENTAGE"} \X {-1, 0, 50, 150}
=============================================================================
