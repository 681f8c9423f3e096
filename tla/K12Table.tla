------------------------------- MODULE K12Table -------------------------------
(***************************************************************************)
(* The rule table of the instruction decoder, K12_TABLE of                 *)
(* src/cpu/execute.c, row by row.  A bit pattern is the set of its one     *)
(* bits; masks and values are given as the source gives them, in halves    *)
(* where they have 32 bits.                                                *)
(***************************************************************************)
EXTENDS Integers

\* The one bits of a 16-bit number, and of a word given as two of them.
Bits(n) == {i \in 0 .. 15 : (n \div 2^i) % 2 = 1}
WordBits(hi, lo) == {i + 16 : i \in Bits(hi)} \union Bits(lo)

\* k12_entry_t: masks as numbers, the 32-bit ones in halves.
Entry(m12, v12, xm, xv, cond, fn) ==
  [mask |-> Bits(m12), value |-> Bits(v12), xmask |-> xm, xvalue |-> xv, cond |-> cond, fn |-> fn]
Row(m12, v12, fn) == Entry(m12, v12, {}, {}, TRUE, fn)
Xrow(m12, v12, mh, ml, vh, vl, fn) == Entry(m12, v12, WordBits(mh, ml), WordBits(vh, vl), TRUE, fn)
Always(m12, v12, mh, ml, vh, vl, fn) == Entry(m12, v12, WordBits(mh, ml), WordBits(vh, vl), FALSE, fn)

K12_TABLE == <<
  Xrow(\hFFF, \h019, \h0FE0, \h00F0, \h0000, \h0090, "mul"),
  Xrow(\hFFF, \h019, \h0FF0, \h00F0, \h0020, \h0090, "mla"),
  Xrow(\hFFF, \h7D1, \h0FE3, \hC1FF, \h07C3, \h001F, "bfc"),
  Xrow(\hFFF, \h7C1, \h0FE3, \hC1FF, \h07C3, \h001F, "bfc"),
  Xrow(\hFFF, \h7C1, \h0FE0, \h0070, \h07C0, \h0010, "bfi"),
  Xrow(\hFFF, \h7D1, \h0FE0, \h0070, \h07C0, \h0010, "bfi"),
  Xrow(\hFFF, \h161, \h0FFF, \h0FF0, \h016F, \h0F10, "clz"),
  Xrow(\hFFF, \h6F3, \h0FFF, \h0FF0, \h06FF, \h0F30, "rbit"),
  Xrow(\hFF3, \h6E1, \h0FE0, \h0030, \h06E0, \h0010, "usat"),
  Always(\hFFF, \h574, \h0FFF, \h0FF0, \h057F, \h0040, "dsb"),
  Always(\hFFF, \h575, \h0FFF, \h0FF0, \h057F, \h0050, "dmb"),
  Always(\hFFF, \h576, \h0FFF, \h0FF0, \h057F, \h0060, "isb"),
  Xrow(\hF50, \h510, \h033F, \h0000, \h011F, \h0000, "ldr_literal"),
  Always(\hFFF, \h127, \h0FF0, \h00F0, \h0120, \h0070, "bkpt"),
  Xrow(\hF00, \h100, \hFF00, \hF000, \hF100, \h0000, "cps"),
  Xrow(\hFFF, \h120, \h0120, \hF000, \h0120, \hF000, "msr"),
  Xrow(\hFFF, \h320, \h0320, \hF000, \h0320, \hF000, "msr"),
  Always(\hE00, \hA00, \hFE00, \h0000, \hFA00, \h0000, "blx_imm"),
  Xrow(\hF10, \h800, \h0FFF, \h0000, \h092D, \h0000, "stm"),
  Xrow(\hF10, \h810, \h0FFF, \h0000, \h08BD, \h0000, "ldm"), Row(\hE10, \h810, "ldm"),
  Row(\hE10, \h800, "stm"),
  Xrow(\hE0F, \h00B, \h0050, \h0000, \h0040, \h0000, "strh"),
  Xrow(\hE0F, \h00B, \h0050, \h0000, \h0000, \h0000, "strh"),
  Xrow(\hE0F, \h00B, \h0050, \h0000, \h0050, \h0000, "ldrh"),
  Xrow(\hE0F, \h00B, \h0050, \h0000, \h0010, \h0000, "ldrh"),
  Xrow(\hE0F, \h00D, \h0010, \h0000, \h0010, \h0000, "ldrsb"),
  Xrow(\hE0F, \h00F, \h0010, \h0000, \h0010, \h0000, "ldrsh"),
  Xrow(\hFFF, \h121, \h0FFF, \hFFF0, \h012F, \hFF10, "bx"),
  Xrow(\hFFF, \h123, \h0FFF, \hFFF0, \h012F, \hFF30, "blx_reg"), Row(\hDE0, \h1A0, "mov"),
  Xrow(\hF00, \h300, \h0FF0, \h0000, \h0300, \h0000, "movw"),
  Xrow(\hF00, \h300, \h0FF0, \h0000, \h0340, \h0000, "movt"),
  Xrow(\hFE0, \h1A0, \h0FE0, \h00F0, \h01A0, \h0010, "mov"),
  Xrow(\hFE0, \h1A0, \h0FE0, \h00F0, \h01A0, \h0030, "mov"),
  Xrow(\hFE0, \h1A0, \h0FE0, \h00F0, \h01A0, \h0050, "mov"),
  Xrow(\hFE0, \h1A0, \h0FE0, \h00F0, \h01A0, \h0070, "mov"), Row(\hE50, \h600, "str_regoffset"),
  Row(\hF7F, \h740, "strb_reg_shift"), Row(\hF71, \h740, "strb_reg_shift"),
  Xrow(\hE0F, \h009, \h0FB0, \h0FF0, \h0100, \h0090, "swp"),
  Xrow(\hE0F, \h009, \h0FB0, \h0FF0, \h0140, \h0090, "swpb"),
  Xrow(\hFBF, \h100, \h0FBF, \h0FFF, \h014F, \h0000, "mrs"),
  Xrow(\hFFF, \h120, \h0FBF, \h0FFF, \h0160, \hF000, "msr"),
  Xrow(\hFFF, \h320, \h0FBF, \h0F00, \h0360, \hF000, "msr"),
  Xrow(\hE0F, \h00D, \h0040, \h0000, \h0040, \h0000, "ldrd_imm"),
  Xrow(\hE0F, \h00D, \h0040, \h0000, \h0000, \h0000, "ldrd_reg"),
  Xrow(\hE0F, \h00F, \h0040, \h0000, \h0040, \h0000, "strd_imm"),
  Xrow(\hE0F, \h00F, \h0040, \h0000, \h0000, \h0000, "strd_reg"), Row(\hDE0, \h000, "and"),
  Row(\hDE0, \h020, "eor"), Row(\hDE0, \h100, "tst"), Row(\hDE0, \h120, "teq"), Row(\hDE0, \h140, "cmp"),
  Row(\hDE0, \h160, "cmn"), Row(\hDE0, \h040, "sub"), Row(\hDE0, \h060, "rsb"), Row(\hDE0, \h080, "add"),
  Row(\hDE0, \h0A0, "adc"), Row(\hDE0, \h0C0, "sbc"), Row(\hDE0, \h0E0, "rsc"), Row(\hDE0, \h180, "orr"),
  Row(\hDE0, \h1C0, "bic"), Row(\hDE0, \h1E0, "mvn"), Row(\hFE0, \h200, "and"),
  Row(\hFE0, \h310, "tst_imm"), Row(\hFE0, \h330, "teq"), Row(\hFE0, \h350, "cmp_imm"),
  Row(\hFE0, \h370, "cmn"), Row(\hFE0, \h380, "orr"), Row(\hFE0, \h3A0, "mov"), Row(\hFE0, \h3C0, "bic"),
  Row(\hFE0, \h3E0, "mvn"), Row(\hF50, \h510, "ldr_preimm"), Row(\hF50, \h500, "str_preimm"),
  Row(\hF50, \h540, "strb_preimm"), Row(\hF50, \h550, "ldrb_preimm"), Row(\hF50, \h440, "strb_postimm"),
  Row(\hF50, \h410, "ldr_postimm"), Row(\hF70, \h400, "str_postimm"), Row(\hF70, \h450, "ldrb_postimm"),
  Row(\hF70, \h470, "ldrb_postimm"), Row(\hE50, \h610, "ldr_regoffset"),
  Xrow(\hE0F, \h009, \h0FE0, \h00F0, \h0080, \h0090, "umull"),
  Xrow(\hE0F, \h009, \h0FE0, \h00F0, \h00A0, \h0090, "umlal"),
  Xrow(\hE0F, \h009, \h0FE0, \h00F0, \h00C0, \h0090, "smull"),
  Xrow(\hE0F, \h009, \h0FE0, \h00F0, \h00E0, \h0090, "smlal"), Row(\hF7F, \h750, "ldrb_reg"),
  Row(\hF71, \h750, "ldrb_reg_shift"),
  Xrow(\hFF0, \h520, \h000F, \h0000, \h000D, \h0000, "str_predec"),
  Xrow(\hFFF, \h490, \h0FFF, \hF000, \h049D, \hF000, "pop_pc"), Row(\hF00, \hA00, "b"),
  Row(\hF00, \hB00, "bl"),
  Xrow(\hFF0, \hC40, \h0FF0, \h0000, \h0C40, \h0000, "mcrr"),
  Xrow(\hFF0, \hC50, \h0FF0, \h0000, \h0C50, \h0000, "mrrc"),
  Always(\hFF0, \hC40, \hFFF0, \h0000, \hFC40, \h0000, "mcrr2"),
  Always(\hFF0, \hC50, \hFFF0, \h0000, \hFC50, \h0000, "mrrc2"),
  Xrow(\hF00, \hF00, \h0F00, \h0000, \h0F00, \h0000, "svc"),
  Xrow(\hFBF, \h100, \h0FBF, \h0FFF, \h010F, \h0000, "mrs"),
  Always(\hFFF, \h320, \hFFFF, \hFFFF, \hE320, \hF000, "nop"),
  Always(\hFFF, \h320, \hFFFF, \hFFFF, \hE320, \hF003, "wfi"),
  Always(\hFFF, \hEAE, \hFFFF, \hFFFF, \hDEAD, \hBEEF, "deadbeef")
>>
=============================================================================
