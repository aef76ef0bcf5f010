------------------------------ MODULE LibRtlSdr -----------------------------
(***************************************************************************)
(* librtlsdr.c: the operations on an open dongle, and the commands of      *)
(* rtlsdrdevice.c that call them. One operation at a time is carried out,  *)
(* by the thread that opens the device and then by the one that serves the *)
(* client, so that each is one action here; what makes it hard is what the *)
(* library, the RTL2832 and the tuner remember of the operations before,   *)
(* in which any transfer may have failed. The registers, and the machine m *)
(* that the operations work on, are those of RtlBus.                       *)
(***************************************************************************)
EXTENDS TunerR82xx, TunerE4k, TunerFc001x, TunerFc2580, FiniteSets

CONSTANTS
    Dongles,    \* what may be plugged in: [tuner, model, force, faults], where model and
                \* force are in its EEPROM, and faults are the transfers, counted in each
                \* operation, of which one may fail in a session
    OpenArgs,   \* what openAsync is given: [bias, ppm, rate, freq, gain]
    Commands,   \* the commands a client sends: <<name, parameter>>
    Answers,    \* what each tuner may answer: [lock, vco, cal]
    Junks,      \* what an uninitialised variable may hold: [pins, model, force]
    MaxCommands \* how many commands a client sends before it leaves

VARIABLES
    dongle,     \* what is plugged in
    phase,      \* what openAsync does next, "serving" while the client's commands are taken
    args,       \* what openAsync was given
    dev, priv, chip, demod,
    stray,      \* the operation before has sent a message past the closed repeater
    faulted,    \* a transfer has failed
    last,       \* the operation before, its result, and whether it met a fault
    sent        \* how many commands have been sent
vars == <<dongle, phase, args, dev, priv, chip, demod, stray, faulted, last, sent>>

R82xx(m) == m.dev.tuner \in {CHIP_R820T, CHIP_R828D}
TunerIs(m, t) == m.dev.tuner = t
Unknown == "UNKNOWN"
Done(m) == [m EXCEPT !.rc = 0]
NoDev == [rate |-> 0, rtl_xtal |-> 28800, tun_xtal |-> 28800, direct_sampling |-> 0,
          tuner |-> Unknown, freq |-> 0, bw |-> 0, offs_freq |-> 0, corr |-> 0, gain |-> 0,
          model |-> "generic", force_bt |-> FALSE]
NoPriv == [regs |-> [r \in 5 .. 31 |-> 0], int_freq |-> 0, fil_cal_code |-> 0, input |-> 0,
           has_lock |-> FALSE, init_done |-> FALSE, rafael_chip |-> CHIP_R820T, xtal |-> 0,
           fosc |-> 0, flo |-> 0, band |-> 0]
\* A tuner's registers, read as 0 when it has not been written to.
Registers(tuner) ==
    CASE tuner \in {CHIP_R820T, CHIP_R828D} -> 5 .. 31
      [] tuner = "E4000" -> E4kRegs
      [] tuner \in {"FC0012", "FC0013"} -> Fc001xRegs
      [] tuner = "FC2580" -> Fc2580Regs
      [] tuner = Unknown -> {}
NoChip(tuner) == [r \in Registers(tuner) |-> 0]
NoDemod == [ctl |-> \h10, spec |-> 0, fir |-> FALSE, mode |-> 0, adc |-> \hcd, iq |-> 0,
            zif |-> 0, ifh |-> 0, ifm |-> 0, ifl |-> 0, rsh |-> 0, rsl |-> 0, ppmh |-> 0,
            ppml |-> 0, sysctl |-> 0, epa |-> 0, pwr |-> 0, gpo |-> {}, gpd |-> 0 .. 7,
            gpoe |-> {}]

\* rtlsdr_init_baseband; the registers that nothing else writes are left out.
rtlsdr_init_baseband(m) ==
    DemodWritesIgnored(
        SysWrite(SysWrite(SysWrite(m, "sysctl", \h09), "epa", \h1002), "pwr", \he8),
        << <<"ctl", \h14>>, <<"ctl", \h10>>, <<"spec", 0>>, <<"ifh", 0>>, <<"ifm", 0>>,
           <<"ifl", 0>>, <<"fir", TRUE>>, <<"mode", \h05>>, <<"iq", \h80>>, <<"zif", \h1b>> >>)
rtlsdr_reset_buffer(m) == Done(SysWrite(SysWrite(m, "epa", \h1002), "epa", 0))

\* The tuners' interface. A tuner that is not known has none of the functions.
TunerInit(m) ==
    CASE R82xx(m) -> r82xx_init([m EXCEPT !.priv.rafael_chip = m.dev.tuner,
                                          !.priv.xtal = TunerXtal(m)])
      [] TunerIs(m, "E4000") -> e4k_init([m EXCEPT !.priv.fosc = TunerXtal(m)])
      [] TunerIs(m, "FC0012") -> Fc001xInit(m, fc0012_init_reg)
      [] TunerIs(m, "FC0013") -> Fc001xInit(m, fc0013_init_reg)
      [] TunerIs(m, "FC2580") -> fc2580_Initialize(m)
TunerExit(m) ==
    CASE R82xx(m) -> r82xx_standby(m)
      [] TunerIs(m, "E4000") -> e4k_standby(m)
      [] OTHER -> m
TunerFreq(m, freq) ==
    CASE R82xx(m) -> r82xx_set_freq(m, freq)
      [] TunerIs(m, "E4000") -> e4k_tune_freq(m, freq)
      [] TunerIs(m, "FC0012") ->
           fc0012_set_params(rtlsdr_set_gpio_bit(m, 6, freq > 300000), freq)
      [] TunerIs(m, "FC0013") -> fc0013_set_params(m, freq)
      [] TunerIs(m, "FC2580") -> fc2580_set_freq(m, freq)
TunerGain(m, gain) ==
    CASE R82xx(m) -> r82xx_set_gain(m, TRUE, gain)
      [] TunerIs(m, "E4000") -> e4000_set_gain(m, gain)
      [] TunerIs(m, "FC0012") -> fc0012_set_gain(m, gain)
      [] TunerIs(m, "FC0013") -> fc0013_set_lna_gain(m, gain)
      [] OTHER -> m
TunerGainMode(m, manual) ==
    CASE R82xx(m) -> r82xx_set_gain(m, manual, 0)
      [] TunerIs(m, "E4000") -> e4k_enable_manual_gain(m, manual)
      [] TunerIs(m, "FC0013") -> fc0013_set_gain_mode(m, manual)
      [] OTHER -> m
HasTuner(m) == ~TunerIs(m, Unknown)
\* A tuner's function, between the repeater's on and off.
Through(m, op(_)) == IF HasTuner(m) THEN WithRepeater(Done(m), op) ELSE Done(m)

\* rtlsdr_deinit_baseband, all that rtlsdr_close does to the registers.
rtlsdr_deinit_baseband(m) == SysWrite(Through(m, TunerExit), "pwr", \h20)

\* The tuner is offset by a frequency the subtraction of which wraps.
rtlsdr_set_center_freq(m, freq) ==
    From(IF m.dev.direct_sampling # 0 THEN rtlsdr_set_if_freq(m, freq)
         ELSE IF HasTuner(m)
              THEN Through(m, LAMBDA n : TunerFreq(n, (freq - n.dev.offs_freq) % 4294967))
              ELSE [m EXCEPT !.rc = -1],
         LAMBDA n : [n EXCEPT !.dev.freq = IF n.rc = 0 THEN freq ELSE 0])

\* r820t_set_bw sets the centre frequency in turn, so that the repeater is off after it.
r820t_set_bw(m, bw) ==
    Then(Then(r82xx_set_bandwidth(m, bw), LAMBDA n : rtlsdr_set_if_freq(n, n.priv.int_freq)),
         LAMBDA n : rtlsdr_set_center_freq(n, n.dev.freq))
TunerBw(m, bw) ==
    CASE R82xx(m) -> r820t_set_bw(m, bw)
      [] TunerIs(m, "E4000") -> e4000_set_bw(m, bw)
      [] TunerIs(m, "FC2580") -> fc2580_SetBandwidthMode(m)
      [] OTHER -> m
rtlsdr_set_tuner_gain(m, gain) ==
    From(Through(m, LAMBDA n : TunerGain(n, gain)),
         LAMBDA n : [n EXCEPT !.dev.gain = IF n.rc = 0 THEN gain ELSE 0])
\* Mutant: the repeater is not switched on.
SetGainModeDirectly(m, manual) == TunerGainMode(m, manual)
rtlsdr_set_tuner_gain_mode(m, manual) == Through(m, LAMBDA n : TunerGainMode(n, manual))
\* Only the E4000 has gains of the intermediate frequency; they come in tenths of a dB.
rtlsdr_set_tuner_if_gain(m, stage, gain) ==
    IF TunerIs(m, "E4000")
    THEN Through(m, LAMBDA n : e4k_if_gain_set(n, <<stage, Quot(gain, 10)>>)) ELSE Done(m)

\* offs = -ppm * 2^24 / 10^6, of which 14 bits are written.
rtlsdr_set_sample_freq_correction(m, ppm) ==
    LET offs == Quot(-ppm * 2^18, 15625)
    IN DemodWrites(Done(m), << <<"ppml", offs % 256>>, <<"ppmh", (offs \div 256) % 64>> >>)

\* The registers hold the crystal over the rate with 22 bits of fraction, of which the
\* upper 12 are kept here, and 6 of its whole bits; the top one stands for the next too.
Ratio(m, rate) == ((m.dev.rtl_xtal * 2^12) \div rate) % 2^18
RealRate(xtal, ratio) ==
    (xtal * 2^12) \div (ratio + (IF ratio >= 2^17 THEN 2^18 ELSE 0))
Supported(rate) == rate \in 226 .. 300 \/ rate \in 901 .. 3200
\* Mutant: the offset is for the tuner alone.
OffsetOfTuner(m, on) ==
    IF R82xx(m) THEN [m EXCEPT !.rc = -2]
    ELSE IF m.dev.direct_sampling # 0 THEN [m EXCEPT !.rc = -3]
    ELSE rtlsdr_set_center_freq(
             [m EXCEPT !.dev.offs_freq = IF on THEN ((m.dev.rate \div 2) * 170) \div 100 ELSE 0],
             m.dev.freq)
\* What the recalculation of the offset returns is not used.
rtlsdr_set_offset_tuning(m, on) ==
    LET offs == IF on THEN ((m.dev.rate \div 2) * 170) \div 100 ELSE 0
        bw == IF on THEN 2 * offs ELSE IF m.dev.bw > 0 THEN m.dev.bw ELSE m.dev.rate
    IN IF R82xx(m) THEN [m EXCEPT !.rc = -2]
       ELSE IF m.dev.direct_sampling # 0 THEN [m EXCEPT !.rc = -3]
       ELSE Also(Ignoring(rtlsdr_set_if_freq([m EXCEPT !.dev.offs_freq = offs], offs),
                          LAMBDA n : Through(n, LAMBDA k : TunerBw(k, bw))),
                 LAMBDA n : IF m.dev.freq > offs THEN rtlsdr_set_center_freq(n, n.dev.freq) ELSE n)
FilterForRate(m) ==
    Ignoring(m, LAMBDA n : Through(n,
                    LAMBDA k : TunerBw(k, IF k.dev.bw > 0 THEN k.dev.bw ELSE k.dev.rate)))
Resample(m, ratio) ==
    Also(Also(DemodWrites(m, << <<"rsh", ratio \div 64>>, <<"rsl", ratio % 64>> >>),
              LAMBDA n : rtlsdr_set_sample_freq_correction(n, n.dev.corr)),
         LAMBDA n : DemodWrites(n, << <<"ctl", \h14>>, <<"ctl", \h10>> >>))
rtlsdr_set_sample_rate(m, rate) ==
    LET ratio == Ratio(m, rate)
    IN IF ~Supported(rate) THEN [m EXCEPT !.rc = -22]
       ELSE Ignoring(Resample(FilterForRate(
                         [Done(m) EXCEPT !.dev.rate = RealRate(m.dev.rtl_xtal, ratio)]), ratio),
                     LAMBDA n : IF n.dev.offs_freq # 0 THEN rtlsdr_set_offset_tuning(n, TRUE) ELSE n)

ClockTuner(m) == [m EXCEPT !.priv.fosc = TunerXtal(m), !.priv.xtal = TunerXtal(m)]
rtlsdr_set_freq_correction(m, ppm) ==
    IF m.dev.corr = ppm THEN [m EXCEPT !.rc = -2]
    ELSE Also(ClockTuner(rtlsdr_set_sample_freq_correction([m EXCEPT !.dev.corr = ppm], ppm)),
              LAMBDA n : IF n.dev.freq = 0 THEN n ELSE rtlsdr_set_center_freq(n, n.dev.freq))
SetTunerXtal(m, xtal) ==
    From(ClockTuner([m EXCEPT !.dev.tun_xtal = xtal]),
         LAMBDA n : IF n.dev.freq = 0 THEN n ELSE rtlsdr_set_center_freq(n, n.dev.freq))
\* A crystal of 0 is one that is not to be changed; for the tuner, the RTL2832's.
rtlsdr_set_xtal_freq(m, rtl, tuner) ==
    LET changed == rtl > 0 /\ m.dev.rtl_xtal # rtl
    IN IF rtl > 0 /\ rtl \notin 28799 .. 28801 THEN [m EXCEPT !.rc = -2]
       ELSE From(IF ~changed THEN Done(m)
                 ELSE IF m.dev.rate = 0 THEN [Done(m) EXCEPT !.dev.rtl_xtal = rtl]
                 ELSE rtlsdr_set_sample_rate([m EXCEPT !.dev.rtl_xtal = rtl], m.dev.rate),
                 LAMBDA n : IF n.dev.tun_xtal = tuner THEN n
                            ELSE SetTunerXtal(n, IF tuner = 0 THEN n.dev.rtl_xtal ELSE tuner))

rtlsdr_set_testmode(m, on) == DemodWrite(m, "mode", IF on THEN \h03 ELSE \h05)
rtlsdr_set_agc_mode(m, on) == DemodWrite(m, "mode", IF on THEN \h25 ELSE \h05)

R82XX_IF_FREQ == 3570
DirectSampling(m, on) ==
    [Also(Through(m, TunerExit), LAMBDA n : DemodWrites(n,
         << <<"zif", \h1a>>, <<"spec", 0>>, <<"adc", \h4d>>,
            <<"iq", IF on > 1 THEN \h90 ELSE \h80>> >>)) EXCEPT !.dev.direct_sampling = on]
ShiftForTuner(m) ==
    IF R82xx(m) THEN Also(rtlsdr_set_if_freq(m, R82XX_IF_FREQ),
                          LAMBDA n : DemodWrites(n, << <<"spec", 1>> >>))
    ELSE Also(rtlsdr_set_if_freq(m, 0),
              LAMBDA n : DemodWrites(n, << <<"adc", \hcd>>, <<"zif", \h1b>> >>))
\* Mutant: the two inputs of the ADC stay as direct sampling has them.
TunerSamplingSwapped(m) ==
    [Also(Through(m, TunerInit), ShiftForTuner) EXCEPT !.dev.direct_sampling = 0]
TunerSampling(m) ==
    [Also(Also(Through(m, TunerInit), ShiftForTuner), LAMBDA n : DemodWrites(n, << <<"iq", \h80>> >>))
        EXCEPT !.dev.direct_sampling = 0]
rtlsdr_set_direct_sampling(m, on) ==
    Also(IF on # 0 THEN DirectSampling(m, on) ELSE TunerSampling(m),
         LAMBDA n : rtlsdr_set_center_freq(n, n.dev.freq))

rtlsdr_set_bias_tee(m, on) == rtlsdr_set_bias_tee_gpio(m, 0, on)

\* rtlsdr_get_tuner_gains
rtlsdr_get_tuner_gains(m) ==
    CASE TunerIs(m, "E4000") ->
           <<-10, 15, 40, 65, 90, 115, 140, 165, 190, 215, 240, 290, 340, 420>>
      [] TunerIs(m, "FC0012") -> <<-99, -40, 71, 179, 192>>
      [] TunerIs(m, "FC0013") ->
           <<-99, -73, -65, -63, -60, -58, -54, 58, 61, 63, 65, 67, 68, 70, 71, 179, 181, 182,
             184, 186, 188, 191, 197>>
      [] R82xx(m) ->
           <<0, 9, 14, 27, 37, 77, 87, 125, 144, 157, 166, 197, 207, 229, 254, 280, 297, 328,
             338, 364, 372, 386, 402, 421, 434, 439, 445, 480, 496>>
      [] OTHER -> <<0>>

\* The tuners in the order in which they are asked for; before the FC2580 it is reset.
\* A tuner that does not answer, for a transfer has failed, is taken for absent.
Asked(m, tuner) == Tick(Tick(m))
Found(m, tuner) == dongle.tuner = tuner /\ m.left \notin {0, 1}
Probe(m, tuner) ==
    IF HasTuner(m) THEN m
    ELSE IF Found(m, tuner) THEN [Asked(m, tuner) EXCEPT !.dev.tuner = tuner]
    ELSE Asked(m, tuner)
ResetTuner(m) ==
    IF HasTuner(m) THEN m
    ELSE rtlsdr_set_gpio_bit(rtlsdr_set_gpio_bit(rtlsdr_set_gpio_output(m, 4), 4, TRUE), 4, FALSE)
ProbeTuners(m) ==
    From(InTurn(Probe, ResetTuner(InTurn(Probe, m, <<"E4000", "FC0013", CHIP_R820T, CHIP_R828D>>)),
                <<"FC2580", "FC0012">>),
         LAMBDA n : IF TunerIs(n, "FC0012") THEN rtlsdr_set_gpio_output(n, 6) ELSE n)

\* The model and the force of the bias tee, from the EEPROM; what is there when it could
\* not be read is arbitrary.
ReadEeprom(m) ==
    LET read == IF Fails(m) THEN m.junk ELSE dongle
    IN [Tick(m) EXCEPT !.dev.model = read.model, !.dev.force_bt = read.force]

\* rtlsdr_open2, from the dummy write on. The results of the set-up are not used.
SetUpDemod(m) ==
    CASE R82xx(m) ->
           DemodWritesIgnored(
               Ignoring(DemodWritesIgnored(m, << <<"zif", \h1a>>, <<"adc", \h4d>> >>),
                        LAMBDA n : rtlsdr_set_if_freq(n, R82XX_IF_FREQ)), << <<"spec", 1>> >>)
      [] ~HasTuner(m) -> rtlsdr_set_direct_sampling(m, 1)
      [] OTHER -> m
FindTuner(m) ==
    From(ProbeTuners(rtlsdr_set_i2c_repeater(m, TRUE)),
         LAMBDA n : IF TunerIs(n, CHIP_R828D) /\ n.dev.model # "V4"
                    THEN [n EXCEPT !.dev.tun_xtal = 16000] ELSE n)
ForceBias(m) == IF m.dev.force_bt THEN rtlsdr_set_bias_tee(m, TRUE) ELSE m
rtlsdr_open2(m) ==
    From(ForceBias(SetUpDemod(FindTuner(
             ReadEeprom(rtlsdr_init_baseband(SysWrite(m, "sysctl", \h09)))))),
         LAMBDA n : Done(rtlsdr_set_i2c_repeater(IF HasTuner(n) THEN TunerInit(Done(n)) ELSE n, FALSE)))

\* set_gain_by_index and set_gain_by_perc. A percentage is unsigned: one below 0 is one
\* near 2^32, and so is its product with the small number of gains.
set_gain_by_index(m, index) ==
    LET gains == rtlsdr_get_tuner_gains(m)
    IN IF index < Len(gains) THEN rtlsdr_set_tuner_gain(m, gains[index + 1]) ELSE Done(m)
PercentIndex(percent, count) ==
    LET index == (percent * count) \div 100
    IN IF percent < 0 \/ index >= count THEN count - 1 ELSE index
set_gain_by_perc(m, percent) ==
    LET gains == rtlsdr_get_tuner_gains(m)
    IN rtlsdr_set_tuner_gain(m, gains[PercentIndex(percent, Len(gains)) + 1])

\* tcpCommandCallback, but for the command to leave.
tcpCommandCallback(m, command, parameter) ==
    CASE command = "TCP_SET_FREQ" -> rtlsdr_set_center_freq(m, parameter)
      [] command = "TCP_SET_SAMPLE_RATE" -> rtlsdr_set_sample_rate(m, parameter)
      [] command = "TCP_SET_GAIN_MODE" -> rtlsdr_set_tuner_gain_mode(m, parameter # 0)
      [] command = "TCP_SET_GAIN" -> rtlsdr_set_tuner_gain(m, parameter)
      [] command = "TCP_SET_FREQ_CORRECTION" -> rtlsdr_set_freq_correction(m, parameter)
      [] command = "TCP_SET_IF_TUNER_GAIN" -> rtlsdr_set_tuner_if_gain(m, parameter[1], parameter[2])
      [] command = "TCP_SET_TEST_MODE" -> rtlsdr_set_testmode(m, parameter # 0)
      [] command = "TCP_SET_AGC_MODE" -> rtlsdr_set_agc_mode(m, parameter # 0)
      [] command = "TCP_SET_DIRECT_SAMPLING" -> rtlsdr_set_direct_sampling(m, parameter)
      [] command = "TCP_SET_OFFSET_TUNING" -> rtlsdr_set_offset_tuning(m, parameter # 0)
      [] command = "TCP_SET_RTL_XTAL" -> rtlsdr_set_xtal_freq(m, parameter, 0)
      [] command = "TCP_SET_TUNER_XTAL" -> rtlsdr_set_xtal_freq(m, 0, parameter)
      [] command = "TCP_SET_TUNER_GAIN_BY_ID" -> set_gain_by_index(m, parameter)
      [] command = "TCP_ANDROID_GAIN_BY_PERCENTAGE" -> set_gain_by_perc(m, parameter)

\* The machine that an operation starts with, and what it leaves behind. A fault is when
\* it happens and what is read then; at most one transfer of a session fails.
Machine(fault, ans) ==
    [dev |-> dev, priv |-> priv, chip |-> chip, demod |-> demod, rc |-> 0,
     left |-> fault.left, stray |-> FALSE, ans |-> ans, junk |-> fault.junk]
Faults ==
    {[left |-> NoFault, junk |-> dongle]}
    \cup (IF faulted THEN {} ELSE [left : dongle.faults, junk : Junks])
Met(m, fault) == fault.left # NoFault /\ m.left = NoFault
Becomes(m, fault, op) ==
    /\ dev' = m.dev /\ priv' = m.priv /\ chip' = m.chip /\ demod' = m.demod
    /\ stray' = m.stray
    /\ faulted' = (faulted \/ Met(m, fault))
    /\ last' = [op |-> op, rc |-> m.rc, fault |-> Met(m, fault)]
    /\ UNCHANGED dongle

Init ==
    /\ dongle \in Dongles /\ args \in OpenArgs
    /\ phase = "opening" /\ stray = FALSE /\ faulted = FALSE /\ sent = 0
    /\ dev = NoDev /\ priv = NoPriv /\ chip = NoChip(dongle.tuner) /\ demod = NoDemod
    /\ last = [op |-> <<"none", 0>>, rc |-> 0, fault |-> FALSE]

\* openAsync until the client is served: step by step, what it calls with its arguments.
Setup(m) ==
    CASE phase = "opening" -> rtlsdr_open2(m)
      [] phase = "bias" -> rtlsdr_set_bias_tee(m, args.bias)
      [] phase = "ppm" -> IF args.ppm = 0 THEN m ELSE rtlsdr_set_freq_correction(m, args.ppm)
      [] phase = "rate" -> rtlsdr_set_sample_rate(m, args.rate)
      [] phase = "freq" -> rtlsdr_set_center_freq(m, args.freq)
      [] phase = "mode" -> rtlsdr_set_tuner_gain_mode(m, args.gain # 0)
      [] phase = "gain" -> IF args.gain = 0 THEN m ELSE rtlsdr_set_tuner_gain(m, args.gain)
      [] phase = "reset" -> rtlsdr_reset_buffer(m)
Following ==
    [opening |-> "bias", bias |-> "ppm", ppm |-> "rate", rate |-> "freq", freq |-> "mode",
     mode |-> "gain", gain |-> "reset", reset |-> "serving"]
\* Only the rate and the frequency have to be taken; or else the device is closed.
Open ==
    /\ phase \in DOMAIN Following
    /\ \E ans \in Answers[dongle.tuner], fault \in Faults :
         /\ Becomes(Setup(Machine(fault, ans)), fault, <<phase, args>>)
         /\ phase' = IF phase \in {"rate", "freq"} /\ last'.rc < 0 THEN "closing" ELSE Following[phase]
    /\ UNCHANGED <<args, sent>>
Command ==
    /\ phase = "serving" /\ sent < MaxCommands
    /\ \E c \in Commands, ans \in Answers[dongle.tuner], fault \in Faults :
         Becomes(tcpCommandCallback(Machine(fault, ans), c[1], c[2]), fault, c)
    /\ sent' = sent + 1
    /\ UNCHANGED <<phase, args>>
\* rtlsdr_close, when the client has left.
Close ==
    /\ phase \in {"serving", "closing"}
    /\ \E fault \in Faults :
         Becomes(rtlsdr_deinit_baseband(Machine(fault, 0)), fault, <<"close", 0>>)
    /\ phase' = "closed"
    /\ UNCHANGED <<args, sent>>
Next == Open \/ Command \/ Close
Spec == Init /\ [][Next]_vars
-----------------------------------------------------------------------------
\* What the registers mean, as the tuners' data sheets and comments of the drivers have it.

\* The machine as the operators that only read it need it.
Now == [dev |-> dev, demod |-> demod]

\* The frequency of the tuner's local oscillator, with the crystal as it is now believed
\* to be.
Lo ==
    LET xtal == TunerXtal(Now)
    IN CASE dev.tuner \in {CHIP_R820T, CHIP_R828D} ->
           LET nint == 4 * (chip[\h14] % 64) + chip[\h14] \div 64 + 13
               sdm == IF 3 \in Bits[chip[\h12]] THEN 0 ELSE chip[\h16] * 256 + chip[\h15]
           IN (2 * xtal * nint + (xtal * (sdm \div 4)) \div 2^13)
              \div 2^(chip[\h10] \div 32 + 1)
      [] dev.tuner = "E4000" ->
           LET divides == {pll_vars[i][3] : i \in {k \in DOMAIN pll_vars : pll_vars[k][2] = chip[R.SYNTH7]}}
               r == IF chip[R.SYNTH7] = 0 THEN 2 ELSE CHOOSE d \in divides : TRUE
           IN (xtal * chip[R.SYNTH3]
               + (xtal * (chip[R.SYNTH5] * 256 + chip[R.SYNTH4])) \div 2^16) \div r
      [] dev.tuner \in {"FC0012", "FC0013"} ->
           LET half == xtal \div 2
               xin == chip[3] * 256 + chip[4]
               signed == IF xin >= 2^15 THEN xin - 2^16 ELSE xin
               table == IF dev.tuner = "FC0012" THEN Append(fc0012_multi, fc0012_last)
                        ELSE Append(fc0013_multi, fc0013_last)
               mine == {i \in DOMAIN table : table[i][3] \div 8 = chip[5] \div 8 /\ table[i][4] = 2 * ((chip[6] \div 2) % 2)}
           IN (half * (8 * chip[2] + chip[1]) + (signed * half) \div 2^15)
              \div table[CHOOSE i \in mine : TRUE][2]
      [] dev.tuner = "FC2580" ->
           LET r == CASE (chip[\h18] \div 16) % 4 = 0 -> 1 [] (chip[\h18] \div 16) % 4 = 1 -> 2 [] OTHER -> 4
               comp == CRYSTAL_FREQ \div r
               k == (chip[\h18] % 16) * 2^16 + chip[\h1a] * 2^8 + chip[\h1b]
               factor == CASE chip[\h02] \div 64 = 0 -> 4 [] chip[\h02] \div 64 = 1 -> 2 [] OTHER -> 12
           IN (2 * comp * chip[\h1c] + (((2 * comp) \div 2^6) * (k \div 2^6)) \div 2^8) \div factor

\* The tuner's gain in tenths of a dB, that of its IF stages left out.
Gain ==
    CASE dev.tuner \in {CHIP_R820T, CHIP_R828D} -> R82xxGain(chip[5] % 16, chip[7] % 16)
      [] dev.tuner = "E4000" ->
           lnagain[SelectInSeq(lnagain, LAMBDA g : g[2] = chip[R.GAIN1] % 16)][1]
           + (IF chip[R.GAIN2] % 2 = 1 THEN 120 ELSE 40)
      [] dev.tuner = "FC0012" ->
           IF chip[\h13] % 32 = \h10 THEN 192
           ELSE CHOOSE g \in DOMAIN fc0012_gains : fc0012_gains[g] = chip[\h13] % 32
      [] dev.tuner = "FC0013" ->
           fc0013_lna_gains[SelectInSeq(fc0013_lna_gains, LAMBDA g : g[2] = chip[\h14] % 32)][1]
      [] OTHER -> 0
-----------------------------------------------------------------------------
TypeOK ==
    /\ dongle \in Dongles /\ {stray, faulted} \subseteq BOOLEAN
    /\ sent \in 0 .. MaxCommands
    /\ dev.tuner \in {dongle.tuner, Unknown}
    /\ dev.direct_sampling \in 0 .. 2
    /\ \A r \in DOMAIN chip : chip[r] \in 0 .. 255
    /\ DOMAIN chip = Registers(dongle.tuner)
    /\ \A r \in 5 .. 31 : priv.regs[r] \in 0 .. 255
    /\ DOMAIN demod = DOMAIN NoDemod

Ready == phase \in {"serving", "bias", "ppm", "rate", "freq", "mode", "gain", "reset"}
Near(a, b) == a - b \in -6 .. 6

\* The tuner is only spoken to through the repeater, and the repeater is off between
\* operations, although operations that call one another switch it on and off without
\* counting. An operation that meets no fault finds it so whatever came before it.
RepeaterClosed ==
    /\ stray => last.fault
    /\ demod.ctl = RepeaterOn => faulted

\* Where the oscillator has to be: an RTL-SDR Blog V4 has an upconverter before it, and
\* the tuners are offset by the intermediate frequency or by that of offset tuning.
Upconverted == dev.model # "generic" /\ dev.freq < 28800
LoWanted ==
    IF R82xx(Now) THEN dev.freq + priv.int_freq + (IF Upconverted THEN 28800 ELSE 0)
    ELSE dev.freq - dev.offs_freq
\* What the dividers of each tuner can be set to.
Reach ==
    CASE R82xx(Now) -> 27657 .. 1769000
      [] dev.tuner = "E4000" -> 52000 .. 2200000
      [] dev.tuner \in {"FC0012", "FC0013"} -> 22000 .. 948600
      [] dev.tuner = "FC2580" -> (146000 .. 308000) \cup (438000 .. 924000)
      [] OTHER -> {}
TunedTo(freq) == freq \in Reach => Near(Lo, freq)
\* The frequency that is reported is the one the tuner is set to, after whatever sequence
\* of rates, corrections, crystals, offsets and modes (rtlsdr_get_center_freq).
Tuned == (Ready /\ ~faulted /\ dev.freq # 0 /\ dev.direct_sampling = 0) => TunedTo(LoWanted)
\* A frequency that is set again after a fault is set: nothing that the fault has left
\* behind is in its way.
RetryTunes ==
    (last.op[1] = "TCP_SET_FREQ" /\ last.rc = 0 /\ ~last.fault /\ dev.direct_sampling = 0)
    => TunedTo(LoWanted)
\* In direct sampling it is the RTL2832 that is set to it.
DirectlyTuned ==
    (Ready /\ ~faulted /\ dev.direct_sampling # 0 /\ dev.freq \in 1 .. 28799)
    => Near(IfFreq(Now), dev.freq)
\* The centre of what is sampled is the reported frequency, after both shifts: that of the
\* tuner's oscillator and that of the RTL2832.
BothShifts ==
    IF R82xx(Now) THEN Near(Lo - IfFreq(Now), LoWanted - priv.int_freq)
    ELSE Near(Lo + IfFreq(Now), dev.freq)
ByTuner == Ready /\ ~faulted /\ dev.freq # 0 /\ dev.direct_sampling = 0 /\ LoWanted \in Reach
\* rtl-sdr.h: get the actual frequency the device is tuned to. Does not hold: with offset
\* tuning on, leaving direct sampling, entered or not, takes the offset from the RTL2832
\* alone, and it stays so until the offset or the rate is set again.
ActualFrequency == ByTuner => BothShifts
ShiftForgotten == dev.offs_freq # 0 /\ IfFreq(Now) = 0
Reshifted == last.op[1] \in {"TCP_SET_OFFSET_TUNING", "TCP_SET_SAMPLE_RATE"} /\ last.rc = 0
\* That is the one way in which the two shifts come to disagree.
ShiftsAgree == ByTuner => BothShifts \/ (ShiftForgotten /\ ~Reshifted)

\* A rate that is taken is the one the resampler is left with, although only some bits
\* of the ratio are kept and the top one stands for two.
RateExact ==
    (last.op[1] = "TCP_SET_SAMPLE_RATE" /\ last.rc = 0 /\ ~last.fault) =>
        /\ dev.rate - last.op[2] \in -1 .. 1
        /\ dev.rate = RealRate(dev.rtl_xtal, demod.rsh * 64 + demod.rsl)

\* The datapath of the RTL2832 is the one for what is sampled, whatever way has led there.
DatapathOf(ds) ==
    CASE ds # 0 -> [zif |-> \h1a, adc |-> \h4d, spec |-> 0, iq |-> IF ds = 2 THEN \h90 ELSE \h80]
      [] ds = 0 /\ R82xx(Now) -> [zif |-> \h1a, adc |-> \h4d, spec |-> 1, iq |-> \h80]
      [] ds = 0 /\ ~R82xx(Now) -> [zif |-> \h1b, adc |-> \hcd, spec |-> 0, iq |-> \h80]
Datapath ==
    (Ready /\ ~faulted) =>
        [zif |-> demod.zif, adc |-> demod.adc, spec |-> demod.spec, iq |-> demod.iq]
        = DatapathOf(dev.direct_sampling)

\* The input of an RTL-SDR Blog V4 or V4L that is switched to, in the tuner and by the
\* GPIO, is the one for the frequency, although it is only switched when it differs from
\* the one remembered, which standby and initialisation undo.
InputOf(freq) ==
    LET band == IF dev.model = "V4" THEN BandV4(freq) ELSE BandV4L(freq)
        cable1 == IF dev.model = "V4" THEN band = VHF ELSE band = HF
    IN [cable2 |-> dev.model = "V4" /\ band = HF, cable1 |-> cable1, air |-> band = UHF,
        upconverter |-> band # HF]
InputOfBand ==
    (Ready /\ ~faulted /\ R82xx(Now) /\ dev.model # "generic" /\ dev.freq # 0
     /\ dev.direct_sampling = 0 /\ priv.has_lock)
    => InputOf(dev.freq) = [cable2 |-> 3 \in Bits[chip[6]], cable1 |-> 6 \in Bits[chip[5]],
                            air |-> 5 \notin Bits[chip[5]], upconverter |-> 5 \in demod.gpo]

\* A gain that is on the library's list is one the tuner's own tables reach exactly, from
\* whatever gain and mode it had before.
Listed == {rtlsdr_get_tuner_gains(Now)[i] : i \in DOMAIN rtlsdr_get_tuner_gains(Now)}
GainIsSet ==
    \/ last.op[1] \in {"TCP_SET_GAIN", "TCP_ANDROID_GAIN_BY_PERCENTAGE"}
    \/ last.op[1] = "TCP_SET_TUNER_GAIN_BY_ID" /\ last.op[2] < Cardinality(Listed)
GainExact ==
    (GainIsSet /\ last.rc = 0 /\ ~last.fault /\ dev.gain \in Listed) => Gain = dev.gain
\* The whole list is reached by percentages, and what is beyond it, or negative, is its
\* last gain.
PercentSpans ==
    (last.op[1] = "TCP_ANDROID_GAIN_BY_PERCENTAGE" /\ last.rc = 0) =>
        /\ last.op[2] = 0 => \A g \in Listed : dev.gain <= g
        /\ last.op[2] \notin 0 .. 99 => \A g \in Listed : dev.gain >= g

\* A bias tee that the EEPROM forces on stays on, whatever the application asks for.
ForcedBias == (Ready /\ dongle.force /\ ~faulted) => 0 \in demod.gpo
\* Where the two shifts of the dongle, of the tuner's oscillator and of the RTL2832, add
\* up to the frequency that is reported, in whatever order rates, offsets, corrections,
\* crystals and modes were set; in direct sampling, and when the frequency is set again
\* after a fault, too. Left out is what ActualFrequency says, which does not hold: with
\* offset tuning on and direct sampling switched off, only the oscillator is where it has
\* to be, until the offset or the rate is set again.
TunedAsReported == Tuned /\ ShiftsAgree /\ DirectlyTuned /\ RetryTunes
\* The samples come from what the library says they do: the input, the datapath and the
\* power of the antenna are what the last operations asked for, in registers of 8 bits.
SignalPath == TypeOK /\ Datapath /\ InputOfBand /\ ForcedBias
=============================================================================
