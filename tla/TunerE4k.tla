------------------------------ MODULE TunerE4k ------------------------------
(***************************************************************************)
(* tuner_e4k.c: the driver of the Elonics E4000. Nothing is remembered but *)
(* the frequency and the band (m.priv.flo, m.priv.band); a masked write    *)
(* reads the register first, writes only what differs, and takes a failed  *)
(* read for 16#ff. Most results are not looked at.                         *)
(***************************************************************************)
EXTENDS RtlBus

R == [MASTER1 |-> \h00, CLK_INP |-> \h05, REF_CLK |-> \h06, SYNTH1 |-> \h07,
      SYNTH3 |-> \h09, SYNTH4 |-> \h0a, SYNTH5 |-> \h0b, SYNTH7 |-> \h0d, FILT1 |-> \h10,
      FILT2 |-> \h11, FILT3 |-> \h12, GAIN1 |-> \h14, GAIN2 |-> \h15, GAIN3 |-> \h16,
      GAIN4 |-> \h17, AGC1 |-> \h1a, AGC4 |-> \h1d, AGC5 |-> \h1e, AGC6 |-> \h1f,
      AGC7 |-> \h20, AGC11 |-> \h24, DC5 |-> \h2d, DCTIME1 |-> \h70, DCTIME2 |-> \h71,
      BIAS |-> \h78, CLKOUT_PWDN |-> \h7a]
E4kMagic == << <<\h7e, \h01>>, <<\h7f, \hfe>>, <<\h82, \h00>>, <<\h86, \h50>>,
               <<\h87, \h20>>, <<\h88, \h01>>, <<\h9f, \h7f>>, <<\ha0, \h07>> >>
E4kRegs == {R[n] : n \in DOMAIN R} \cup {E4kMagic[i][1] : i \in DOMAIN E4kMagic}

e4k_reg_write(m, w) == I2cSend(m, w[1] :> w[2])
\* w is <<register, mask, value>>; the result is that of the write, if there is one.
e4k_reg_set_mask(m, w) ==
    From(I2cRead(m), LAMBDA n :
        LET tmp == IF n.rc = 0 THEN m.chip[w[1]] ELSE \hff
        IN IF Masked(0, tmp, w[2]) = w[3] THEN [n EXCEPT !.rc = 0]
           ELSE I2cSend(n, w[1] :> Masked(tmp, w[3], w[2])))
Ignored(m, op(_, _), ws) == InTurn(LAMBDA n, w : Ignoring(n, LAMBDA k : op(k, w)), m, ws)
WritesIgnored(m, ws) == Ignoring(m, LAMBDA n : I2cWritesAll(n, ws))
\* A field is <<register, shift, width>>.
FieldMask(f) == (2^f[3] - 1) * 2^f[2]
e4k_field_write(m, f, val) ==
    Then(I2cRead(m),
         LAMBDA n : e4k_reg_set_mask(n, <<f[1], FieldMask(f), val * 2^f[2]>>))

\* The index of the entry closest to x, the first of two.
closest_arr_idx(arr, x) ==
    LET delta(i) == IF x > arr[i] THEN x - arr[i] ELSE arr[i] - x
    IN (CHOOSE i \in DOMAIN arr : \A j \in DOMAIN arr :
            delta(i) < delta(j) \/ (delta(i) = delta(j) /\ i <= j)) - 1

E4K_BAND_VHF2 == 0
E4K_BAND_VHF3 == 1
E4K_BAND_UHF == 2
E4K_BAND_L == 3
rf_filt_center_uhf == \* in MHz
    <<360, 380, 405, 425, 450, 475, 505, 540, 575, 615, 670, 720, 760, 840, 890, 970>>
rf_filt_center_l ==
    <<1300, 1320, 1360, 1410, 1445, 1460, 1490, 1530, 1560, 1590, 1640, 1660, 1680, 1700,
      1720, 1750>>
InKhz(mhz) == [i \in DOMAIN mhz |-> mhz[i] * 1000]
choose_rf_filter(band, freq) ==
    CASE band \in {E4K_BAND_VHF2, E4K_BAND_VHF3} -> 0
      [] band = E4K_BAND_UHF -> closest_arr_idx(InKhz(rf_filt_center_uhf), freq)
      [] band = E4K_BAND_L -> closest_arr_idx(InKhz(rf_filt_center_l), freq)
e4k_rf_filter_set(m) ==
    e4k_reg_set_mask(m, <<R.FILT1, \h0f, choose_rf_filter(m.priv.band, m.priv.flo)>>)

mix_filter_bw ==
    <<27000, 27000, 27000, 27000, 27000, 27000, 27000, 27000,
      4600, 4200, 3800, 3400, 3300, 2700, 2300, 1900>>
ifrc_filter_bw ==
    <<21400, 21000, 17600, 14700, 12400, 10600, 9000, 7700,
      6400, 5300, 4400, 3400, 2600, 1800, 1200, 1000>>
ifch_filter_bw ==
    <<5500, 5300, 5000, 4800, 4600, 4400, 4300, 4100, 3900, 3800, 3700, 3600,
      3400, 3300, 3200, 3100, 3000, 2950, 2900, 2800, 2750, 2700, 2600, 2550,
      2500, 2450, 2400, 2300, 2280, 2240, 2200, 2150>>
MIX == [bw |-> mix_filter_bw, field |-> <<R.FILT2, 4, 4>>]
RC == [bw |-> ifrc_filter_bw, field |-> <<R.FILT2, 0, 4>>]
CHAN == [bw |-> ifch_filter_bw, field |-> <<R.FILT3, 0, 5>>]
e4k_if_filter_bw_set(m, filter, bw) ==
    e4k_field_write(m, filter.field, closest_arr_idx(filter.bw, bw))
e4000_set_bw(m, bw) ==
    InTurn(LAMBDA n, f : Also(n, LAMBDA k : e4k_if_filter_bw_set(k, f, bw)),
           [m EXCEPT !.rc = 0], <<MIX, RC, CHAN>>)

\* Below which kHz, the divider's setting, and what it divides by.
pll_vars ==
    << <<72400, 15, 48>>, <<81200, 14, 40>>, <<108300, 13, 32>>, <<162500, 12, 24>>,
       <<216600, 11, 16>>, <<325000, 10, 12>>, <<350000, 9, 8>>, <<432000, 3, 8>>,
       <<667000, 2, 6>>, <<1200000, 1, 4>> >>
E4kDivider(freq) ==
    LET i == SelectInSeq(pll_vars, LAMBDA v : freq < v[1])
    IN IF i = 0 THEN <<freq, 0, 2>> ELSE pll_vars[i]
e4k_compute_pll_params(fosc, freq) ==
    LET r == E4kDivider(freq)[3]
        fvco == freq * r
        z == (fvco \div fosc) % 256
        x == ((fvco % fosc) * 2^16) \div fosc
    IN [r_idx |-> E4kDivider(freq)[2], z |-> z, x |-> x,
        flo |-> IF fosc < 16000 \/ fosc > 30000 THEN 0
                ELSE (fosc * z + (fosc * x) \div 2^16) \div r]

\* e4k_band_set, whose caller does not look at the result; the band counts as set when
\* the second write has succeeded.
e4k_band_set(m, band) ==
    Then(e4k_reg_set_mask(
             e4k_reg_set_mask(e4k_reg_write(m, <<R.BIAS, IF band = E4K_BAND_L THEN 0 ELSE 3>>),
                              <<R.SYNTH1, 6, 0>>), <<R.SYNTH1, 6, band * 2>>),
         LAMBDA n : [n EXCEPT !.priv.band = band])
E4kBand(flo) ==
    IF flo < 140000 THEN E4K_BAND_VHF2 ELSE IF flo < 350000 THEN E4K_BAND_VHF3 ELSE IF flo < 1135000 THEN E4K_BAND_UHF
    ELSE E4K_BAND_L
e4k_tune_params(m, p) ==
    e4k_rf_filter_set(e4k_band_set(
        [WritesIgnored(m, << <<R.SYNTH7, p.r_idx>>, <<R.SYNTH3, p.z>>, <<R.SYNTH4, p.x % 256>>,
                             <<R.SYNTH5, p.x \div 256>> >>) EXCEPT !.priv.flo = p.flo],
        E4kBand(p.flo)))
\* A failed read of the lock bit gives -1, which has it set.
e4k_tune_freq(m, freq) ==
    LET p == e4k_compute_pll_params(m.priv.fosc, freq)
    IN IF p.flo = 0 THEN [m EXCEPT !.rc = -22]
       ELSE [I2cRead([e4k_tune_params(m, p) EXCEPT !.rc = 0])
                EXCEPT !.rc = IF @ = 0 /\ m.ans.lock = 0 THEN -1 ELSE 0]

\* In tenths of a dB, and the register's value; the IF stages in dB.
lnagain ==
    << <<-50, 0>>, <<-25, 1>>, <<0, 4>>, <<25, 5>>, <<50, 6>>, <<75, 7>>, <<100, 8>>,
       <<125, 9>>, <<150, 10>>, <<175, 11>>, <<200, 12>>, <<250, 13>>, <<300, 14>> >>
if_stage_gain ==
    << <<-3, 6>>, <<0, 3, 6, 9>>, <<0, 3, 6, 9>>, <<0, 1, 2, 2>>,
       <<3, 6, 9, 12, 15, 15, 15, 15>>, <<3, 6, 9, 12, 15, 15, 15, 15>> >>
if_stage_gain_regs ==
    << <<R.GAIN3, 0, 1>>, <<R.GAIN3, 1, 2>>, <<R.GAIN3, 3, 2>>, <<R.GAIN3, 5, 2>>,
       <<R.GAIN4, 0, 3>>, <<R.GAIN4, 3, 3>> >>
\* Stage 0 has no gains, and there is none beyond the sixth.
e4k_if_gain_set(m, w) ==
    LET stage == w[1]
        val == IF stage \in 1 .. 6
               THEN SelectInSeq(if_stage_gain[stage], LAMBDA g : g = w[2]) ELSE 0
        f == if_stage_gain_regs[stage]
    IN IF val = 0 THEN [m EXCEPT !.rc = -22]
       ELSE e4k_reg_set_mask(m, <<f[1], FieldMask(f), (val - 1) * 2^f[2]>>)
\* e4000_set_gain: only a gain that is not in the table is an error. The mixer's gain
\* is 4 or 12 dB.
e4000_set_gain(m, gain) ==
    LET high == gain > 340
        want == IF high THEN gain - 120 ELSE gain - 40
        lna == SelectInSeq(lnagain, LAMBDA g : g[1] = (IF want < 300 THEN want ELSE 300))
    IN IF lna = 0 THEN [m EXCEPT !.rc = -1]
       ELSE Ignored([e4k_reg_set_mask(m, <<R.GAIN1, 15, lnagain[lna][2]>>) EXCEPT !.rc = 0],
                    e4k_reg_set_mask,
                    << <<R.GAIN2, 1, IF high THEN 1 ELSE 0>> >>)
e4k_enable_manual_gain(m, manual) ==
    Ignored([m EXCEPT !.rc = 0], e4k_reg_set_mask,
            IF manual THEN << <<R.AGC1, 15, 0>>, <<R.AGC7, 1, 0>> >>
            ELSE << <<R.AGC1, 15, 9>>, <<R.AGC7, 1, 1>>, <<R.AGC11, 7, 0>> >>)

\* e4k_standby and e4k_init, which end with 0 whatever has failed.
e4k_standby(m) == Ignored([m EXCEPT !.rc = 0], e4k_reg_set_mask, << <<R.MASTER1, 2, 0>> >>)
NarrowestFilters(m) ==
    Ignored(m, LAMBDA n, f : e4k_if_filter_bw_set(n, f[1], f[2]),
            << <<MIX, 1900>>, <<RC, 1000>>, <<CHAN, 2150>> >>)
Clocked(m) ==
    WritesIgnored([I2cRead(m) EXCEPT !.rc = 0],
                  << <<R.MASTER1, 7>>, <<R.CLK_INP, 0>>, <<R.REF_CLK, 0>>,
                     <<R.CLKOUT_PWDN, \h96>> >> \o E4kMagic
                  \o << <<R.AGC4, \h10>>, <<R.AGC5, 4>>, <<R.AGC6, \h1a>> >>)
InitialGains(m) ==
    Ignored(e4k_enable_manual_gain(m, FALSE), e4k_if_gain_set,
            << <<1, 6>>, <<2, 0>>, <<3, 0>>, <<4, 0>>, <<5, 9>>, <<6, 9>> >>)
e4k_init(m) ==
    Ignored(NarrowestFilters(InitialGains(
                Ignored(Clocked(m), e4k_reg_set_mask, << <<R.AGC1, 15, 0>>, <<R.AGC7, 1, 0>> >>))),
            e4k_reg_set_mask,
            << <<R.FILT3, 32, 0>>, <<R.DC5, 3, 0>>, <<R.DCTIME1, 3, 0>>, <<R.DCTIME2, 3, 0>> >>)
=============================================================================
