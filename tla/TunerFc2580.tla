----------------------------- MODULE TunerFc2580 ----------------------------
(***************************************************************************)
(* tuner_fc2580.c: the driver of the FCI FC2580. Every write is made,      *)
(* whatever has failed before (result &= ...), and the crystal is its own: *)
(* neither the correction nor a crystal that is set has any effect.        *)
(***************************************************************************)
EXTENDS RtlBus

CRYSTAL_FREQ == 16384
BORDER_FREQ == 2600000
All(m, ws) == Also(m, LAMBDA n : I2cWritesAll(n, ws))

\* The calibration of the filter is asked for, and started again, up to five times.
FilterSettings ==
    (1 :> <<\h1c, 4151, \h00>>) @@ (6 :> <<\h18, 4400, \h00>>)
    @@ (7 :> <<\h18, 3910, \h80>>) @@ (8 :> <<\h18, 3300, \h80>>)
AskCalibration(m) == Also(m, I2cRead)
StartAgain(m) == All(m, << <<\h2e, 1>>, <<\h2e, 9>> >>)
fc2580_set_filter(m, bw) ==
    LET f == FilterSettings[bw]
        rounds == CASE m.ans.lock = 1 -> 0 [] m.ans.lock = 2 -> 1 [] m.ans.lock = 0 -> 5
    IN All(From(InTurn(LAMBDA n, i : StartAgain(AskCalibration(n)),
                       All(m, << <<\h36, f[1]>>, <<\h37, ((f[2] * CRYSTAL_FREQ) \div 1000000) % 256>>,
                                 <<\h39, f[3]>>, <<\h2e, 9>> >>), [i \in 1 .. rounds |-> i]),
                LAMBDA n : IF rounds = 5 THEN n ELSE AskCalibration(n)), << <<\h2e, 1>> >>)

\* fc2580_Initialize, with the external AGC.
Fc2580InitRegs ==
    << <<\h00, \h00>>, <<\h12, \h86>>, <<\h14, \h5c>>, <<\h16, \h3c>>, <<\h1f, \hd2>>,
       <<\h09, \hd7>>, <<\h0b, \hd5>>, <<\h0c, \h32>>, <<\h0e, \h43>>, <<\h21, \h0a>>,
       <<\h22, \h82>>, <<\h45, \h20>>, <<\h4c, \h02>>, <<\h3f, \h88>>, <<\h02, \h0e>>,
       <<\h58, \h14>> >>
fc2580_Initialize(m) == fc2580_set_filter(All([m EXCEPT !.rc = 0], Fc2580InitRegs), 8)
fc2580_SetBandwidthMode(m) == fc2580_set_filter([m EXCEPT !.rc = 0], 1)

Fc2580Band(lo) == IF lo > 1000000 THEN "L" ELSE IF lo > 400000 THEN "UHF" ELSE "VHF"
\* Registers \h61, \h62, \h67, \h68, \h69 and \h6a of the UHF band.
UhfRegs(lo) ==
    CASE lo < 538000 -> << \h07, \h06, \h06, \h08, \h10, \h12 >>
      [] 538000 <= lo /\ lo < 794000 -> << \h03, \h03, \h03, \h05, \h0c, \h0e >>
      [] lo >= 794000 -> << \h07, \h06, \h07, \h09, \h10, \h12 >>
Pairs(regs, vals) == [i \in DOMAIN regs |-> <<regs[i], vals[i]>>]
UhfNumbers == << \h25, \h27, \h28, \h29, \h30, \h50, \h53, \h5f, \h61, \h62, \h67, \h68,
                 \h69, \h6a, \h63, \h6b, \h6c, \h6d, \h6e, \h6f >>
VhfNumbers == << \h27, \h28, \h29, \h30, \h50, \h53, \h5f, \h61, \h62, \h63, \h67, \h68,
                 \h69, \h6a, \h6b, \h6c, \h6d, \h6e, \h6f >>
LNumbers == << \h2b, \h2c, \h2d, \h30, \h44, \h50, \h53, \h5f, \h61, \h62, \h63, \h67,
               \h68, \h69, \h6a, \h6b, \h6c, \h6d, \h6e, \h6f >>
BandSettings(lo) ==
    CASE Fc2580Band(lo) = "UHF" ->
           [filter |-> 8, top |-> 0,
            regs |-> Pairs(UhfNumbers,
                         << \hf0, \h77, \h53, \h60, \h09, \h8c, \h50,
                            IF lo < 538000 THEN \h13 ELSE \h15 >> \o UhfRegs(lo)
                         \o << \h15, \h0b, \h0c, \h78, \h32, \h14 >>)]
      [] Fc2580Band(lo) = "VHF" ->
           [filter |-> 7, top |-> \h80,
            regs |-> Pairs(VhfNumbers,
                         << \h77, \h33, \h40, \h09, \h8c, \h50, \h0f, \h07, \h00, \h15, \h03,
                            \h05, \h10, \h12, \h08, \h0a, \h78, \h32, \h54 >>)]
      [] Fc2580Band(lo) = "L" ->
           [filter |-> 1, top |-> \h40,
            regs |-> Pairs(LNumbers,
                         << \h70, \h37, \he7, \h09, \h20, \h8c, \h50, \h0f, \h0f, \h00, \h13,
                            \h00, \h02, \h0c, \h0e, \h08, \h0a, \ha0, \h50, \h14 >>)]
Fc2580Regs ==
    {Fc2580InitRegs[i][1] : i \in DOMAIN Fc2580InitRegs} \cup {UhfNumbers[i] : i \in DOMAIN UhfNumbers}
    \cup {LNumbers[i] : i \in DOMAIN LNumbers}
    \cup {\h36, \h37, \h39, \h2e, \h18, \h1a, \h1b, \h1c, \h2d}

\* The reference is the crystal over r. It is a power of two, so that the fraction k of
\* 20 bits comes out even and is never rounded.
VcoFactor(lo) == CASE Fc2580Band(lo) = "UHF" -> 4 [] Fc2580Band(lo) = "L" -> 2 [] OTHER -> 12
RVal(vco) == IF vco >= 152 * CRYSTAL_FREQ THEN 1 ELSE IF vco >= 76 * CRYSTAL_FREQ THEN 2 ELSE 4
fc2580_set_freq(m, lo) ==
    LET vco == lo * VcoFactor(lo)
        r == RVal(vco)
        comp == CRYSTAL_FREQ \div r
        n == (vco \div 2) \div comp
        k == (vco - 2 * comp * n) * (2^16 \div ((2 * comp) \div 16))
        band == BandSettings(lo)
    IN All(fc2580_set_filter(All([m EXCEPT !.rc = 0], band.regs), band.filter),
           << <<\h02, band.top + 14 - (IF vco >= BORDER_FREQ THEN 0 ELSE 8)>>,
              <<\h18, (IF r = 1 THEN 0 ELSE IF r = 2 THEN \h10 ELSE \h20) + k \div 2^16>>,
              <<\h1a, (k \div 256) % 256>>, <<\h1b, k % 256>>, <<\h1c, n % 256>> >>
           \o (IF Fc2580Band(lo) = "UHF"
               THEN << <<\h2d, IF lo <= 794000 THEN \h9f ELSE \h8f>> >> ELSE <<>>))
=============================================================================
