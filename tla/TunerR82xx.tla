----------------------------- MODULE TunerR82xx -----------------------------
(***************************************************************************)
(* tuner_r82xx.c: the driver of the R820T and R828D tuners. It keeps a     *)
(* shadow of the registers in m.priv.regs, stored before the register is   *)
(* written, and the masked writes take the other bits from the shadow.     *)
(* What the tuner answers to a read is m.ans: lock, at which of the two    *)
(* questions the PLL has locked (0: at neither), vco, its fine tuning, and *)
(* cal, the filter calibration code.                                       *)
(***************************************************************************)
EXTENDS RtlBus

CHIP_R820T == "R820T"
CHIP_R828D == "R828D"
InitArray ==
    << \h83, \h32, \h75, \hc0, \h40, \hd6, \h6c, \hf5, \h63, \h75, \h68, \h6c, \h83, \h80,
       \h00, \h0f, \h00, \hc0, \h30, \h48, \hcc, \h60, \h00, \h54, \hae, \h4a, \hc0 >>
r82xx_init_array == [r \in 5 .. 31 |-> InitArray[r - 4]]

\* freq_ranges: from which MHz on, open drain, RF mux and tracking filter; entries
\* that differ only in the crystal's capacitors are one here, for the driver always
\* chooses XTAL_HIGH_CAP_0P, which is 0 in all of them.
freq_ranges ==
    << <<0, \h08, \h02, \hdf>>, <<50, \h08, \h02, \hbe>>, <<55, \h08, \h02, \h8b>>,
       <<60, \h08, \h02, \h7b>>, <<65, \h08, \h02, \h69>>, <<70, \h08, \h02, \h58>>,
       <<75, \h00, \h02, \h44>>, <<90, \h00, \h02, \h34>>, <<110, \h00, \h02, \h24>>,
       <<140, \h00, \h02, \h14>>, <<180, \h00, \h02, \h13>>, <<250, \h00, \h02, \h11>>,
       <<280, \h00, \h02, \h00>>, <<310, \h00, \h41, \h00>>, <<588, \h00, \h40, \h00>> >>

r82xx_write(m, regs) == I2cSend([m EXCEPT !.priv.regs = regs @@ @], regs)
\* The shadow after a sequence of masked writes <<register, value, mask>>.
Stored(regs, ws) ==
    InTurn(LAMBDA old, w : [old EXCEPT ![w[1]] = Masked(@, w[2], w[3])], regs, ws)
\* The tuner has received k of them, which have left heard in the shadow; the next one is
\* stored before it is lost.
MaskedSent(m, ws, k, heard) ==
    [Sent(m, Len(ws)) EXCEPT
        !.priv.regs = IF k < Len(ws) THEN Stored(heard, <<ws[k + 1]>>) ELSE heard,
        !.chip = [r \in {ws[i][1] : i \in 1 .. k} |-> heard[r]] @@ @]
\* r82xx_write_reg_mask for each of a sequence until one fails.
Masks(m, ws) ==
    LET k == Received(m, Len(ws))
    IN IF m.rc # 0 THEN m ELSE MaskedSent(m, ws, k, Stored(m.priv.regs, SubSeq(ws, 1, k)))

r82xx_set_mux(m, freq) ==
    LET mhz == freq \div 1000
        range == SelectLastInSeq(freq_ranges, LAMBDA r : r[1] <= mhz)
        f == freq_ranges[range]
    IN Masks(m, << <<\h17, f[2], \h08>>, <<\h1a, f[3], \hc3>>, <<\h1b, f[4], \hff>>,
                   <<\h10, \h00, \h0b>>, <<\h08, \h00, \h3f>>, <<\h09, \h00, \h3f>> >>)

\* Division of C, towards zero.
Quot(a, b) == IF a >= 0 THEN a \div b ELSE -((-a) \div b)
\* The mixer divider brings the VCO into its range; the loop ends at 128 if none does.
VcoMin == 1770000
MixDiv(freq) ==
    LET fits == {d \in {2, 4, 8, 16, 32, 64} : VcoMin <= freq * d /\ freq * d < 2 * VcoMin}
    IN IF fits = {} THEN 128 ELSE CHOOSE d \in fits : TRUE
DivNum(div) == CHOOSE n \in 0 .. 5 : 2^(n + 1) = (IF div = 128 THEN 2 ELSE div)
\* The SDM calculator: the bits of the fraction that a VCO contribution in kHz stands for.
SdmBit(c, part, bit) ==
    IF c.fra > 1 /\ c.fra > part THEN [fra |-> c.fra - part, sdm |-> c.sdm + bit] ELSE c
Sdm(fraction, ref) ==
    LET calc[k \in 0 .. 15] ==
          IF k = 0 THEN [fra |-> fraction, sdm |-> 0]
          ELSE SdmBit(calc[k - 1], (2 * ref) \div 2^k, 2^(16 - k))
    IN calc[15].sdm

\* The two questions whether the PLL has locked, with the VCO current raised in between.
AskLock(m) ==
    From(I2cRead(m), LAMBDA n :
        IF m.ans.lock = 1 THEN n
        ELSE Then(Masks(n, << <<\h12, \h60, \he0>> >>), I2cRead))
KeepLock(m) ==
    IF m.ans.lock = 0 THEN [m EXCEPT !.priv.has_lock = FALSE]
    ELSE Masks([m EXCEPT !.priv.has_lock = TRUE], << <<\h1a, \h08, \h08>> >>)
\* The VCO's frequency over twice the crystal's: the whole number and the fraction.
Divider(vco, ref) ==
    LET nint == (vco \div (2 * ref)) % 256
        fra == vco - 2 * ref * nint
        ni == Quot(nint - 13, 4)
    IN [nint |-> nint, ni |-> ni, si |-> nint - 4 * ni - 13, fra |-> fra, sdm |-> Sdm(fra, ref)]
SetDivider(m, d, power) ==
    IF d.nint > 128 \div power - 1 THEN [m EXCEPT !.rc = -1]
    ELSE Then(Then(Masks(m, << <<\h14, (d.ni + d.si * 64) % 256, \hff>>,
                               <<\h12, IF d.fra = 0 THEN \h08 ELSE \h00, \h08>>,
                               <<\h16, d.sdm \div 256, \hff>>, <<\h15, d.sdm % 256, \hff>> >>),
                   AskLock), KeepLock)
r82xx_set_pll(m, freq) ==
    LET power == IF m.priv.rafael_chip = CHIP_R828D \/ m.dev.model = "V4L" THEN 1 ELSE 2
        num == DivNum(MixDiv(freq)) + (IF m.ans.vco = 1 THEN 1 ELSE 0)
                                    - (IF m.ans.vco = 3 THEN 1 ELSE 0)
    IN Then(Masks(Then(Masks(m, << <<\h10, \h00, \h10>>, <<\h1a, \h00, \h0c>>,
                                   <<\h12, \h80, \he0>> >>), I2cRead),
                  << <<\h10, (num * 32) % 256, \he0>> >>),
            LAMBDA n : SetDivider(n, Divider(freq * MixDiv(freq), m.priv.xtal), power))

\* r82xx_sysfreq_sel as it is called, once: frequency 0, digital TV, DVB-T.
r82xx_sysfreq_sel(m) ==
    Masks(Then(Masks(m, << <<\h1d, \he5, \hc7>>, <<\h1c, \h24, \hf8>>,
                           <<\h0d, \h53, \hff>>, <<\h0e, \h75, \hff>> >>),
               LAMBDA n : [n EXCEPT !.priv.input = 0]),
          << <<\h05, \h00, \h60>>, <<\h06, \h00, \h08>>, <<\h11, \h38, \h38>>,
             <<\h17, \h30, \h30>>, <<\h0a, \h40, \h60>>, <<\h1d, \h00, \h38>>,
             <<\h1c, \h00, \h04>>, <<\h06, \h00, \h40>>, <<\h1a, \h30, \h30>>,
             <<\h1d, \h18, \h38>>, <<\h1c, \h24, \h04>>, <<\h1e, 14, \h1f>>,
             <<\h1a, \h20, \h30>> >>)

\* if (rc < 0 || !priv->has_lock) return rc.
IfLocked(m, op(_)) == IF m.priv.has_lock THEN Then(m, op) ELSE m
\* One round of the filter's calibration; it is over when the PLL has not locked.
ReadCalibration(m) ==
    Then(Then(Masks(m, << <<\h0b, \h10, \h10>>, <<\h0b, \h00, \h10>>, <<\h0f, \h00, \h04>> >>),
              I2cRead), LAMBDA n : [n EXCEPT !.priv.fil_cal_code = m.ans.cal])
Calibrate(m) ==
    IfLocked(Then(Masks(m, << <<\h0b, \h6b, \h60>>, <<\h0f, \h04, \h04>>, <<\h10, \h00, \h03>> >>),
                  LAMBDA n : r82xx_set_pll(n, 56000)), ReadCalibration)
Worked(cal) == cal \notin {0, 15}
CalibrateAgain(m) == IF Worked(m.ans.cal) THEN m ELSE Calibrate(m)
StandardFilter(m) ==
    LET code == m.priv.fil_cal_code % 15
    IN Masks([m EXCEPT !.priv.fil_cal_code = code],
             << <<\h0a, 16 + code, \h1f>>, <<\h0b, \h6b, \hef>>, <<\h07, \h00, \h80>>,
                <<\h06, \h10, \h30>>, <<\h1e, \h60, \h60>>, <<\h05, \h01, \h80>>,
                <<\h1f, \h00, \h80>>, <<\h0f, \h00, \h80>>, <<\h19, \h60, \h60>> >>)
r82xx_set_tv_standard(m) ==
    Then(Masks([m EXCEPT !.priv.regs = r82xx_init_array, !.rc = 0],
               << <<\h0c, \h00, \h0f>>, <<\h13, 49, \h3f>>, <<\h1d, \h00, \h38>> >>),
         LAMBDA n : IfLocked(IfLocked(Calibrate([n EXCEPT !.priv.int_freq = 3570]), CalibrateAgain),
                             StandardFilter))

\* In tenths of a dB, what each step of the LNA and of the mixer adds.
r82xx_lna_gain_steps == <<0, 9, 13, 40, 38, 13, 31, 22, 26, 31, 26, 14, 19, 5, 35, 13>>
r82xx_mixer_gain_steps == <<0, 5, 10, 10, 19, 9, 10, 25, 17, 10, 8, 16, 13, 6, 3, -8>>
StepsTotal(steps, index) == FoldLeft(+, 0, SubSeq(steps, 1, index + 1))
R82xxGain(lna, mix) ==
    StepsTotal(r82xx_lna_gain_steps, lna) + StepsTotal(r82xx_mixer_gain_steps, mix)
\* The LNA and the mixer are turned up in turn until the gain is reached.
GainSteps(gain) ==
    LET enough == {k \in 0 .. 30 : k = 30 \/ R82xxGain((k + 1) \div 2, k \div 2) >= gain}
        k == CHOOSE k \in enough : \A l \in enough : k <= l
    IN [lna |-> (k + 1) \div 2, mix |-> k \div 2]
r82xx_set_gain(m, manual, gain) ==
    LET steps == GainSteps(gain)
    IN IF manual
       THEN Masks(Then(Masks(m, << <<\h05, \h10, \h10>>, <<\h07, \h00, \h10>> >>), I2cRead),
                  << <<\h0c, \h08, \h9f>>, <<\h05, steps.lna, \h0f>>, <<\h07, steps.mix, \h0f>> >>)
       ELSE Masks(m, << <<\h05, \h00, \h10>>, <<\h07, \h10, \h10>>, <<\h0c, \h0b, \h9f>> >>)

r82xx_if_low_pass_bw_table == <<1700, 1600, 1550, 1450, 1200, 900, 700, 550, 450, 350>>
FILT_HP_BW1 == 350
FILT_HP_BW2 == 380
\* Up to the widest low pass with both high passes, the filter is put together: each
\* high pass that is needed, and the narrowest low pass that is wide enough for the rest.
Filter(bw) ==
    LET hp2 == bw > 1700 + FILT_HP_BW1
        bw2 == IF hp2 THEN bw - FILT_HP_BW2 ELSE bw
        hp1 == bw2 > 1700
        bw1 == IF hp1 THEN bw2 - FILT_HP_BW1 ELSE bw2
        lp == SelectLastInSeq(r82xx_if_low_pass_bw_table, LAMBDA w : bw1 <= w) - 1
        hp == (IF hp2 THEN FILT_HP_BW2 ELSE 0) + (IF hp1 THEN FILT_HP_BW1 ELSE 0)
    IN [reg_0a |-> \h00,
        reg_0b |-> \h80 + (IF hp2 THEN 0 ELSE \h20) + (IF hp1 THEN 0 ELSE \h40) + 15 - lp,
        int_freq |-> 2300 + hp - (hp + r82xx_if_low_pass_bw_table[lp + 1]) \div 2]
FilterFor(bw) ==
    CASE bw > 7000 -> [reg_0a |-> \h10, reg_0b |-> \h0b, int_freq |-> 4570]
      [] bw > 6000 /\ bw <= 7000 -> [reg_0a |-> \h10, reg_0b |-> \h2a, int_freq |-> 4570]
      [] bw > 1700 + FILT_HP_BW1 + FILT_HP_BW2 /\ bw <= 6000 ->
           [reg_0a |-> \h10, reg_0b |-> \h6b, int_freq |-> 3570]
      [] OTHER -> Filter(bw)
r82xx_set_bandwidth(m, bw) ==
    LET f == FilterFor(bw)
    IN Masks([m EXCEPT !.priv.int_freq = f.int_freq],
             << <<\h0a, f.reg_0a, \h10>>, <<\h0b, f.reg_0b, \hef>> >>)

\* The input of an RTL-SDR Blog V4 and V4L for a frequency, and of another R828D.
HF == 1
VHF == 2
UHF == 3
BandV4(freq) == IF freq <= 28800 THEN HF ELSE IF freq < 250000 THEN VHF ELSE UHF
BandV4L(freq) == IF freq <= 28800 THEN HF ELSE UHF
AirCable1(freq) == IF freq > 345000 THEN \h00 ELSE \h60
InNotchBand(freq) ==
    freq <= 2200 \/ (85000 <= freq /\ freq <= 112000) \/ (172000 <= freq /\ freq <= 242000)
\* The upconverter's path has no use for the tracking filter, which set_mux switches on.
BypassFilter(m, band) ==
    IF band = HF THEN Masks(m, << <<\h1a, \h40, \hc3>>, <<\h1b, \h00, \hff>> >>) ELSE m
SwitchV4(m, band) ==
    Masks(Then(Masks([m EXCEPT !.priv.input = band],
                     << <<\h06, IF band = HF THEN \h08 ELSE \h00, \h08>> >>),
               LAMBDA n : rtlsdr_set_bias_tee_gpio(n, 5, band # HF)),
          << <<\h05, IF band = VHF THEN \h40 ELSE \h00, \h40>>,
             <<\h05, IF band = UHF THEN \h00 ELSE \h20, \h20>> >>)
SelectInputV4(m, freq) ==
    LET band == BandV4(freq)
    IN Then(BypassFilter(
                Masks(m, << <<\h17, IF InNotchBand(freq) THEN \h00 ELSE \h08, \h08>> >>), band),
            LAMBDA n : IF band = m.priv.input THEN n ELSE SwitchV4(n, band))
SwitchV4L(m, band) ==
    Masks(rtlsdr_set_bias_tee_gpio([m EXCEPT !.priv.input = band], 5, band # HF),
          << <<\h05, IF band = HF THEN \h40 ELSE \h00, \h40>>,
             <<\h05, IF band = UHF THEN \h00 ELSE \h20, \h20>> >>)
SelectInputV4L(m, freq) ==
    LET band == BandV4L(freq)
    IN Then(BypassFilter(m, band), LAMBDA n : IF band = m.priv.input THEN n ELSE SwitchV4L(n, band))
SelectInputR828D(m, freq) ==
    LET input == AirCable1(freq)
    IN IF m.priv.rafael_chip # CHIP_R828D \/ input = m.priv.input THEN m
       ELSE Masks([m EXCEPT !.priv.input = input], << <<\h05, input, \h60>> >>)

r82xx_set_freq(m, freq) ==
    LET up == IF m.dev.model # "generic" /\ freq < 28800 THEN freq + 28800 ELSE freq
        lo == up + m.priv.int_freq
    IN IfLocked(Then(r82xx_set_mux(m, lo), LAMBDA n : r82xx_set_pll(n, lo)),
                LAMBDA n : CASE m.dev.model = "V4" -> SelectInputV4(n, freq)
                             [] m.dev.model = "V4L" -> SelectInputV4L(n, freq)
                             [] OTHER -> SelectInputR828D(n, freq))

r82xx_standby(m) ==
    IF ~m.priv.init_done THEN m
    ELSE Masks(m, << <<\h06, \hb1, \hff>>, <<\h05, \ha0, \hff>>, <<\h07, \h3a, \hff>>,
                     <<\h08, \h40, \hff>>, <<\h09, \hc0, \hff>>, <<\h0a, \h36, \hff>>,
                     <<\h0c, \h35, \hff>>, <<\h0f, \h68, \hff>>, <<\h11, \h03, \hff>>,
                     <<\h17, \hf4, \hff>>, <<\h19, \h0c, \hff>> >>)
\* The result of the first write is overwritten.
r82xx_init(m) ==
    Then(r82xx_set_tv_standard(r82xx_write(m, r82xx_init_array)),
         LAMBDA n : [r82xx_sysfreq_sel(n) EXCEPT !.priv.init_done = TRUE])
=============================================================================
