----------------------------- MODULE TunerFc001x ----------------------------
(***************************************************************************)
(* tuner_fc0012.c and tuner_fc0013.c: the drivers of the Fitipower tuners, *)
(* whose tuning is the same but for the table of the dividers and for the  *)
(* band filters. They remember nothing. m.ans.vco tells what voltage the   *)
(* VCO's calibration ends at: 1 lowest, 2 in between, 3 highest.           *)
(***************************************************************************)
EXTENDS RtlBus

fc0012_init_reg ==
    << \h05, \h10, \h00, \h00, \h0f, \h00, \h20, \hff, \h6e, \hb8, \h82, \hfe, \h02, \h00,
       \h00, \h00, \h00, \h1f, \h08, \h00, \h04 >>
fc0013_init_reg ==
    << \h09, \h16, \h00, \h00, \h17, \h02, \h2a, \hff, \h6e, \hb8, \h82, \hfe, \h01, \h00,
       \h00, \h00, \h00, \h00, \h00, \h50, \h01 >>
Fc001xRegs == (1 .. 21) \cup {\h1d}
writereg(m, w) == I2cSend(m, w[1] :> w[2])
Writes(m, ws) == Then(m, LAMBDA n : I2cWrites(n, ws))
\* The register becomes its content with the bits of clear off and those of set on.
Change(m, w) ==
    Then(I2cRead(m), LAMBDA n : writereg(n, <<w[1], Masked(Masked(n.chip[w[1]], 0, w[2]), w[3], w[3])>>))
Fc001xInit(m, reg) ==
    I2cWrites(m, [i \in DOMAIN reg |-> <<i, reg[i]>>])

\* Below which kHz, the factor to the VCO's frequency, and registers 5 and 6.
fc0012_multi ==
    << <<37084, 96, \h82, 0>>, <<55625, 64, \h82, 2>>, <<74167, 48, \h42, 0>>,
       <<111250, 32, \h42, 2>>, <<148334, 24, \h22, 0>>, <<222500, 16, \h22, 2>>,
       <<296667, 12, \h12, 0>>, <<445000, 8, \h12, 2>>, <<593334, 6, \h0a, 0>> >>
fc0013_multi ==
    << <<37084, 96, \h82, 0>>, <<55625, 64, \h02, 2>>, <<74167, 48, \h42, 0>>,
       <<111250, 32, \h82, 2>>, <<148334, 24, \h22, 0>>, <<222500, 16, \h42, 2>>,
       <<296667, 12, \h12, 0>>, <<445000, 8, \h22, 2>>, <<593334, 6, \h0a, 0>>,
       <<950000, 4, \h12, 2>> >>
Multi(table, last, freq) ==
    LET i == SelectInSeq(table, LAMBDA e : freq < e[1])
    IN IF i = 0 THEN last ELSE table[i]
fc0012_last == <<0, 4, \h0a, 2>>
fc0013_last == <<0, 2, \h0a, 2>>

\* The product of the frequency in Hz and the factor is one of 32 bits.
FVco(freq, multi) == (freq * multi) % 4294967
\* How registers 1 to 6 are computed: the VCO's frequency over half the crystal's, to the
\* nearest whole xdiv = 8 * pm + am, and the rest as a signed fraction of 15 bits.
FcRegs(m, freq, mu) ==
    LET half == TunerXtal(m) \div 2
        vco == FVco(freq, mu[2])
        rest == vco % half
        xdiv == vco \div half + (IF rest >= half \div 2 THEN 1 ELSE 0)
        low == (xdiv % 8) < 2
        pm == (xdiv \div 8 + (IF low THEN 255 ELSE 0)) % 256
        am == (xdiv % 8) + (IF low THEN 8 ELSE 0)
        frac == (rest * 2^15) \div half
        xin == frac + (IF frac >= 2^14 THEN 2^15 ELSE 0)
    IN [high |-> vco >= 3060000,
        reg |-> << IF pm > 31 THEN (am + 8 * (pm - 31)) % 256 ELSE am,
                   IF pm > 31 THEN 31 ELSE pm, xin \div 256, xin % 256,
                   Masked(mu[3], 7, 7), mu[4] + \ha0 + (IF vco >= 3060000 THEN 8 ELSE 0) >>]
VcoCalibration == << <<\h0e, \h80>>, <<\h0e, 0>> >>
\* The other half of the VCO's range is taken when the voltage is at its end.
Reselect(m, r) ==
    IF \/ r.high /\ m.ans.vco = 3
       \/ ~r.high /\ m.ans.vco = 1
    THEN Writes(m, << <<6, Masked(r.reg[6], IF r.high THEN 0 ELSE 8, 8)>> >> \o VcoCalibration)
    ELSE m
\* fc0012_set_params and fc0013_set_params from the dividers on; between is what the
\* FC0013 does before the VCO is calibrated.
FcTune(m, freq, mu, between(_)) ==
    LET r == FcRegs(m, freq, mu)
    IN IF m.rc # 0 THEN m
       ELSE IF r.reg[1] > 15 \/ r.reg[2] < 11 THEN [m EXCEPT !.rc = -1]
       ELSE Then(Then(Writes(Then(Writes(m, [i \in 1 .. 6 |-> <<i, r.reg[i]>>]), between),
                             VcoCalibration \o << <<\h0e, 0>> >>), I2cRead),
                 LAMBDA n : Reselect(n, r))
fc0012_set_params(m, freq) ==
    FcTune([m EXCEPT !.rc = 0], freq, Multi(fc0012_multi, fc0012_last, freq), LAMBDA n : n)

\* Up to which kHz, and the track; the last one ends before 300 MHz.
VhfTracks ==
    << <<177500, \h1c>>, <<184500, \h18>>, <<191500, \h14>>, <<198500, \h10>>,
       <<205500, \h0c>>, <<219500, \h08>>, <<299999, \h04>> >>
fc0013_set_vhf_track(m, freq) ==
    LET i == SelectInSeq(VhfTracks, LAMBDA t : freq <= t[1])
    IN Change(m, <<\h1d, \h1c, IF i = 0 THEN \h1c ELSE VhfTracks[i][2]>>)
\* The VHF filter, and the choice between VHF and UHF.
BandFilter(m, freq) ==
    Each(m, Change, IF freq < 300000 THEN << <<7, 0, \h10>>, <<\h14, \he0, 0>> >>
                    ELSE << <<7, \h10, 0>>, <<\h14, \he0, \h40>> >>)
fc0013_set_params(m, freq) ==
    LET mu == Multi(fc0013_multi, fc0013_last, freq)
    IN FcTune(BandFilter(fc0013_set_vhf_track([m EXCEPT !.rc = 0], freq), freq), freq, mu,
              LAMBDA n : Change(n, <<\h11, 4, IF mu[2] = 64 THEN 4 ELSE 0>>))

\* The gains, in tenths of a dB, and the bits they stand for. A failed read counts as 0.
ReadOrZero(m, reg) == IF I2cRead(m).rc = 0 THEN m.chip[reg] ELSE 0
fc0012_gains == (-99 :> \h02) @@ (-40 :> 0) @@ (71 :> \h08) @@ (179 :> \h17)
fc0012_set_gain(m, gain) ==
    LET bits == IF gain \in DOMAIN fc0012_gains THEN fc0012_gains[gain] ELSE \h10
    IN writereg(I2cRead(m), <<\h13, Masked(bits, ReadOrZero(m, \h13), \he0)>>)
fc0013_lna_gains ==
    << <<-99, \h02>>, <<-73, \h03>>, <<-65, \h05>>, <<-63, \h04>>, <<-63, \h00>>,
       <<-60, \h07>>, <<-58, \h01>>, <<-54, \h06>>, <<58, \h0f>>, <<61, \h0e>>,
       <<63, \h0d>>, <<65, \h0c>>, <<67, \h0b>>, <<68, \h0a>>, <<70, \h09>>,
       <<71, \h08>>, <<179, \h17>>, <<181, \h16>>, <<182, \h15>>, <<184, \h14>>,
       <<186, \h13>>, <<188, \h12>>, <<191, \h11>>, <<197, \h10>> >>
Fc0013Gain(gain) ==
    LET i == SelectInSeq(fc0013_lna_gains, LAMBDA g : g[1] >= gain)
    IN fc0013_lna_gains[IF i = 0 THEN Len(fc0013_lna_gains) ELSE i]
fc0013_set_lna_gain(m, gain) ==
    Also(I2cRead(m), LAMBDA n : writereg(n,
             <<\h14, Masked(Fc0013Gain(gain)[2], ReadOrZero(m, \h14), \he0)>>))
fc0013_set_gain_mode(m, manual) ==
    LET mode == Masked(ReadOrZero([m EXCEPT !.rc = 0], \h0d), IF manual THEN 8 ELSE 0, 8)
    IN Also(Also(I2cRead([m EXCEPT !.rc = 0]), LAMBDA n : writereg(n, <<\h0d, mode>>)),
            LAMBDA n : writereg(n, <<\h13, \h0a>>))
=============================================================================
