------------------------------- MODULE RtlBus -------------------------------
(***************************************************************************)
(* Register access of librtlsdr.c: every control transfer to the dongle is *)
(* one step of a machine m, a record with                                  *)
(*   dev    the fields of struct rtlsdr_dev,                               *)
(*   priv   what the tuner driver remembers (struct r82xx_priv, e4k_state),*)
(*   chip   the registers of the tuner, by field,                          *)
(*   demod  the registers of the RTL2832, by field,                        *)
(*   rc     the result of the last operation,                              *)
(*   left   how many transfers succeed before one fails (NoFault: all do), *)
(*   stray  a message was sent to the tuner while the repeater was off,    *)
(*   ans    what the tuner answers when it is read: at which question it   *)
(*          has locked (lock, 0: at none), how its VCO stands (vco, 1 below *)
(*          what is expected, 3 above), the filter's calibration (cal),      *)
(*   junk   what is in a variable that a failed read has not set.          *)
(* The operations of the library and of the tuner drivers are operators    *)
(* from machine to machine. Frequencies are in kHz.                        *)
(***************************************************************************)
EXTENDS Integers, Sequences, FiniteSets, FiniteSetsExt, SequencesExt, TLC

NoFault == -1
Fails(m) == m.left = 0
\* A transfer has been made, or n of them. A call meets at most one fault: after the
\* transfer that fails, which 0 stands for, none does.
After(m, n) == [m EXCEPT !.left = IF @ < n THEN NoFault ELSE @ - n]
Tick(m) == After(m, 1)

\* op from the machine that a step has left.
From(m, op(_)) == op(m)
\* m after op, unless an operation before it has failed (if (rc < 0) return rc).
Then(m, op(_)) == IF m.rc # 0 THEN m ELSE op(m)
\* r |= op: op is carried out in any case, and an earlier failure is kept.
Also(m, op(_)) == From(op([m EXCEPT !.rc = 0]),
                       LAMBDA n : IF m.rc # 0 THEN [n EXCEPT !.rc = m.rc] ELSE n)
\* op is carried out and its result is not used.
Ignoring(m, op(_)) == [op(m) EXCEPT !.rc = m.rc]

\* The registers after a sequence of writes <<register, value>>, but for those lost.
Written(old, ws, lost) ==
    LET kept(r) == {i \in DOMAIN ws \ lost : ws[i][1] = r}
    IN [r \in DOMAIN old |-> IF kept(r) = {} THEN old[r] ELSE ws[Max(kept(r))][2]]

\* r |= rtlsdr_demod_write_reg(...) for each of a sequence of <<register, value>>. A
\* write is followed by a read whose result nobody uses.
DemodWrites(m, ws) ==
    LET lost == {i \in DOMAIN ws : m.left = 2 * (i - 1)}
    IN [After(m, 2 * Len(ws)) EXCEPT !.demod = Written(@, ws, lost),
                                     !.rc = IF lost = {} THEN @ ELSE -1]
DemodWrite(m, reg, val) == DemodWrites([m EXCEPT !.rc = 0], << <<reg, val>> >>)
DemodWritesIgnored(m, ws) == Ignoring(m, LAMBDA n : DemodWrites(n, ws))

\* rtlsdr_write_reg on the system and USB blocks: no caller uses the result, but one.
SysWrite(m, reg, val) ==
    Tick(IF Fails(m) THEN m ELSE [m EXCEPT !.demod[reg] = val])
\* rtlsdr_read_reg: on a failure the two bytes are not initialised.
SysRead(m, reg) == IF Fails(m) THEN m.junk.pins ELSE m.demod[reg]

\* The GPIO registers are sets of pins; each change reads the register first.
rtlsdr_set_gpio_bit(m, pin, val) ==
    LET r == SysRead(m, "gpo")
    IN SysWrite(Tick(m), "gpo", IF val THEN r \cup {pin} ELSE r \ {pin})
rtlsdr_set_gpio_output(m, pin) ==
    From(SysWrite(Tick(m), "gpd", SysRead(m, "gpd") \ {pin}),
         LAMBDA d : SysWrite(Tick(d), "gpoe", SysRead(d, "gpoe") \cup {pin}))

\* Register 1:01 also holds the reset of the demodulator, \h14 and \h10.
RepeaterOn == \h18
rtlsdr_set_i2c_repeater(m, on) ==
    Ignoring(m, LAMBDA n : DemodWrite(n, "ctl", IF on THEN RepeaterOn ELSE \h10))
\* op between the repeater's on and off, as in every call that reaches the tuner.
WithRepeater(m, op(_)) ==
    rtlsdr_set_i2c_repeater(op(rtlsdr_set_i2c_repeater(m, TRUE)), FALSE)

\* I2C messages reach the tuner, and are acknowledged, only through the repeater. Of n
\* messages of which each is sent only after the one before, this many are received.
Deaf(m) == m.demod.ctl # RepeaterOn
Received(m, n) == IF Deaf(m) THEN 0 ELSE IF m.left \in 0 .. n - 1 THEN m.left ELSE n
Sent(m, n) ==
    [After(m, n) EXCEPT !.stray = @ \/ Deaf(m), !.rc = IF Received(m, n) < n THEN -1 ELSE 0]
\* One message that gives registers of the tuner new values.
I2cSend(m, regs) ==
    [Sent(m, 1) EXCEPT !.chip = IF Received(m, 1) = 1 THEN regs @@ @ ELSE @]
\* A read is a message with the register's number and a message with its content.
I2cRead(m) == Sent(m, 2)
\* A sequence of writes <<register, value>> until one fails, and whatever fails.
I2cWrites(m, ws) ==
    [Sent(m, Len(ws)) EXCEPT
        !.chip = Written(@, ws, Received(m, Len(ws)) + 1 .. Len(ws))]
I2cWritesAll(m, ws) ==
    LET lost == IF Deaf(m) THEN DOMAIN ws ELSE {m.left + 1}
    IN [Sent(m, Len(ws)) EXCEPT !.chip = Written(@, ws, lost)]

\* Bytes as sets of bits: old with the bits of mask taken from val.
Bits == [n \in 0 .. 255 |-> {b \in 0 .. 7 : (n \div 2^b) % 2 = 1}]
Byte == [s \in SUBSET (0 .. 7) |-> FoldLeft(+, 0, [b \in 1 .. 8 |-> IF b - 1 \in s THEN 2^(b - 1) ELSE 0])]
Masked(old, val, mask) ==
    Byte[(Bits[old] \ Bits[mask]) \cup (Bits[val] \cap Bits[mask])]
\* op(m, w) for each w of a sequence in turn, and the same until one fails.
InTurn(op(_, _), m, ws) ==
    LET after[i \in 0 .. Len(ws)] == IF i = 0 THEN m ELSE op(after[i - 1], ws[i])
    IN after[Len(ws)]
Each(m, op(_, _), ws) == InTurn(LAMBDA n, w : Then(n, LAMBDA k : op(k, w)), m, ws)

\* rtlsdr_set_bias_tee_gpio
rtlsdr_set_bias_tee_gpio(m, pin, on) ==
    LET forced == pin = 0 /\ m.dev.force_bt
    IN [rtlsdr_set_gpio_bit(rtlsdr_set_gpio_output(m, pin), pin, on \/ forced)
           EXCEPT !.rc = 0]

\* rtlsdr_get_xtal_freq: a crystal with the correction applied, APPLY_PPM_CORR.
Corrected(xtal, ppm) == xtal + (xtal * ppm) \div 1000000
TunerXtal(m) == Corrected(m.dev.tun_xtal, m.dev.corr)

\* rtlsdr_set_if_freq: minus the frequency over the crystal's, a fraction of 22 bits of
\* which the 16 upper ones are kept here, goes into three registers.
rtlsdr_set_if_freq(m, freq) ==
    LET xtal == Corrected(m.dev.rtl_xtal, m.dev.corr)
        word == (2^16 - ((freq % xtal) * 2^16) \div xtal) % 2^16
    IN DemodWrites([m EXCEPT !.rc = 0],
                   <<<<"ifh", word \div 2^10>>, <<"ifm", (word \div 4) % 2^8>>,
                     <<"ifl", word % 4>>>>)
\* The frequency in kHz that the registers ask for, with the crystal as it is corrected.
IfFreq(m) ==
    LET word == m.demod.ifh * 2^10 + m.demod.ifm * 4 + m.demod.ifl
        xtal == Corrected(m.dev.rtl_xtal, m.dev.corr)
    IN (((2^16 - word) % 2^16) * (xtal \div 4)) \div 2^14
=============================================================================
