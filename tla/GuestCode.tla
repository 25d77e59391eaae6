----------------------------- MODULE GuestCode -----------------------------
(***************************************************************************)
(* The code pages of the FairPlay snapshot                                 *)
(* (tools/fpsap-helper/fpemu/fpexchange_data.go): the ARM64 functions that *)
(* FPSAPExchangeStandalone loads and fpRun executes.                       *)
(*                                                                         *)
(* The snapshot has only the spans of a page that a recorded run touched.  *)
(* Addresses are pairs <<page number, offset>>, as no integer of TLC has   *)
(* 64 bits, and an instruction is the pair of its halves.  A page has      *)
(*   spans   the bytes that it lists, as <<offset, length>>, but for words *)
(*           of zeros, which a mapped page has anyway;                     *)
(*   goes    where direct branches and calls leave the span for code that  *)
(*           the snapshot has;                                             *)
(*   falls   where execution runs on from the end of a span, likewise;     *)
(*   lacks   where instructions may lead that the snapshot does not have,  *)
(*           as the recorded run did not go there;                         *)
(*   names   the pages that its ADRPs name;                                *)
(*   words   one instruction of each kind on the page: of the same         *)
(*           operation and size, and of each new mask, shift or use of     *)
(*           register 31.                                                  *)
(***************************************************************************)

Page_1a12a2 == [
  page  |-> \h1a12a2,
  spans |-> {<<\h364, 164>>, <<\h560, 308>>, <<\ha78, 1416>>},
  goes  |-> {},
  falls |-> {<<\h1a12a3, \h0>>},
  lacks |-> {<<\h1a12a2, \h694>>},
  names |-> {\h1a12a2, \h1a1305, \h1a1309, \h1a130a, \h1aeaaf, \h1aeab6},
  words |-> {<<\hf940, \h0408>>, <<\hf000, \h0309>>, <<\hfd44, \hd120>>, <<\h6d00, \h0500>>,
             <<\h52aa, \hb149>>, <<\h728e, \he2a9>>, <<\h0e04, \h0d20>>, <<\hfd00, \h0900>>,
             <<\hd65f, \h03c0>>, <<\h4a08, \h0008>>, <<\h1b09, \h7d09>>, <<\h2941, \h200a>>,
             <<\h0b0f, \h0169>>, <<\h9100, \h052a>>, <<\hf100, \h7d5f>>, <<\h1a9f, \h97e9>>,
             <<\h1a9f, \h27ed>>, <<\h1280, \h00ae>>, <<\h1a8c, \h258e>>, <<\h4b09, \h0dad>>,
             <<\hb8ae, \hd92d>>, <<\h8b0e, \h01ad>>, <<\hd61f, \h01a0>>, <<\h3940, \h010a>>,
             <<\h3900, \h010d>>, <<\h5100, \h056b>>, <<\h6b0a, \h017f>>, <<\h1a9f, \h17ea>>,
             <<\h321f, \h07ed>>, <<\h1a8c, \h158e>>, <<\h1b0d, \h314c>>, <<\hd101, \h03ff>>,
             <<\ha903, \h7bfd>>, <<\h9100, \hc3fd>>, <<\hf81f, \h83a8>>, <<\hb940, \h0009>>,
             <<\h4b08, \h0129>>, <<\hb900, \h0bee>>, <<\hf900, \h0beb>>, <<\h1101, \h1528>>,
             <<\hf868, \hd928>>, <<\hd100, \h3908>>, <<\hd63f, \h0100>>, <<\hf85f, \h83a8>>,
             <<\hcb08, \h0128>>, <<\hb500, \h0088>>, <<\ha943, \h7bfd>>, <<\h9101, \h03ff>>,
             <<\haa00, \h03f3>>, <<\hf900, \h0ee8>>, <<\hd2f1, \h1cc8>>, <<\hf2c6, \hb008>>,
             <<\hf2b9, \h3f88>>, <<\hf283, \hbe48>>, <<\hca08, \h0268>>, <<\h9b09, \h7d09>>,
             <<\h5280, \h0462>>, <<\hd280, \h0009>>, <<\h3dc2, \h8500>>, <<\h3d80, \h02e0>>,
             <<\hb900, \h12e8>>, <<\h1aca, \h0931>>, <<\h1b0a, \ha631>>, <<\h3871, \h49f1>>,
             <<\h0a11, \h05b1>>, <<\h4b0f, \h09ef>>, <<\h5301, \h7d20>>, <<\h9bac, \h7c00>>,
             <<\hd366, \hfc00>>, <<\h3860, \h69c1>>, <<\h1200, \h1c43>>, <<\h5305, \h1c42>>,
             <<\h331d, \h1c62>>, <<\h5303, \h1c42>>, <<\h331b, \h1c62>>, <<\h5301, \h1c42>>,
             <<\h3319, \h1c62>>, <<\h3820, \h69c1>>, <<\h710d, \h1d3f>>, <<\h3943, \h7bed>>,
             <<\h0a1b, \h01ad>>, <<\hd361, \hfdce>>, <<\hd360, \hfdef>>, <<\h0b41, \h05ef>>,
             <<\h5304, \h7de1>>, <<\h531c, \h6c42>>, <<\h3304, \h1c22>>, <<\h2a0d, \h000d>>,
             <<\h521a, \h75a0>>, <<\h531f, \h79ad>>, <<\h1219, \h75ad>>, <<\h3902, \h1fed>>,
             <<\hd362, \hfdad>>, <<\h4a0d, \h0610>>, <<\h531e, \h75ad>>, <<\h121b, \h75ad>>,
             <<\h321f, \h1bed>>, <<\h5305, \h7e10>>, <<\h0a4d, \h076d>>, <<\h3859, \hc3a1>>,
             <<\h531f, \h1610>>, <<\h3819, \h33ad>>, <<\h5200, \h11b0>>, <<\h531f, \h11ad>>,
             <<\h1201, \hf1ad>>, <<\h0a2d, \h0000>>, <<\h121d, \h09ad>>}]

Page_1a12a3 == [
  page  |-> \h1a12a3,
  spans |-> {<<\h0, 4096>>},
  goes  |-> {},
  falls |-> {<<\h1a12a4, \h0>>},
  lacks |-> {},
  names |-> {},
  words |-> {<<\h5100, \h4021>>, <<\h1200, \h1c21>>, <<\h9bae, \h7c33>>, <<\hd360, \hfe73>>,
             <<\h4b13, \h0034>>, <<\h0b54, \h0673>>, <<\h5304, \h7e73>>, <<\h1b0f, \h8661>>,
             <<\h3861, \h4a21>>, <<\h5280, \h08b3>>, <<\h0a03, \h0021>>, <<\h2a01, \h01ad>>,
             <<\h3942, \hffe1>>, <<\h4a15, \h01a1>>, <<\h0b0d, \h002d>>, <<\h3902, \hffed>>,
             <<\hd364, \hfc21>>, <<\h1100, \h8610>>, <<\h0a30, \h0270>>, <<\h121e, \h0e10>>,
             <<\h121f, \h7800>>, <<\h321b, \h0000>>, <<\h52ae, \hff41>>, <<\h729a, \hcf61>>,
             <<\h121c, \h7800>>, <<\h1b00, \h7c01>>, <<\h3859, \hc3b3>>, <<\h4b21, \h0361>>,
             <<\h121f, \h1800>>, <<\h0b21, \h0001>>, <<\hb900, \h67e1>>, <<\hd101, \hc3b6>>,
             <<\h381a, \h33ad>>, <<\h521c, \h7a17>>, <<\h386a, \h6ada>>, <<\h0a57, \h0757>>,
             <<\h1280, \h033a>>, <<\h9240, \h09b7>>, <<\h1ad7, \h2697>>, <<\h4b0d, \h03ed>>,
             <<\h1200, \h09ad>>, <<\h1acd, \h228d>>, <<\h0b0d, \h05ad>>, <<\h1203, \he5ad>>,
             <<\h7101, \h19bf>>, <<\h1a9f, \h27f4>>, <<\h3318, \h028d>>, <<\h2a37, \h03f7>>,
             <<\h3218, \h5ef7>>, <<\h3202, \he2b5>>, <<\h321f, \h7bf7>>, <<\h5200, \h1ce7>>,
             <<\h521f, \h15b0>>, <<\h121e, \h15ad>>, <<\h321b, \h0a10>>, <<\h4a2d, \h020d>>,
             <<\h121a, \h0470>>, <<\h521f, \h0db0>>, <<\h521f, \h06b5>>, <<\h121e, \h00e7>>,
             <<\h121f, \h0610>>, <<\h521d, \h09b0>>, <<\h121c, \h09ad>>, <<\h0b2d, \h046d>>,
             <<\haa0d, \h03e1>>, <<\hf900, \h23e1>>, <<\h321d, \h014a>>, <<\h121e, \h1210>>,
             <<\h1b0a, \hfd4a>>, <<\hb940, \h6bf3>>, <<\h121a, \h754a>>, <<\hd363, \hff39>>,
             <<\h2a38, \h01ad>>, <<\h521f, \h11b4>>, <<\h521c, \h075a>>, <<\h321e, \h1795>>}]

Page_1a12a4 == [
  page  |-> \h1a12a4,
  spans |-> {<<\h0, 4096>>},
  goes  |-> {},
  falls |-> {<<\h1a12a5, \h0>>},
  lacks |-> {},
  names |-> {},
  words |-> {<<\h2a00, \h0300>>, <<\h0a1a, \h0294>>, <<\h1200, \h1c00>>, <<\h5280, \h1898>>,
             <<\hb940, \h67e0>>, <<\h0b00, \h01ad>>, <<\h52a6, \h1441>>, <<\h7294, \he401>>,
             <<\h4b00, \h01bb>>, <<\h3942, \h73ed>>, <<\h5101, \h19ad>>, <<\h4a00, \h01ad>>,
             <<\h3902, \h73ed>>, <<\h5200, \h01b0>>, <<\h521f, \h19ad>>, <<\h531f, \h1210>>,
             <<\h9ba5, \h7db0>>, <<\hd364, \hfe10>>, <<\h1b07, \hb60d>>, <<\h521a, \h0000>>,
             <<\h386d, \h4acd>>, <<\h521a, \h79b0>>, <<\h1219, \h79ad>>, <<\h1101, \h9dad>>,
             <<\h0b40, \h0610>>, <<\h3219, \h0210>>, <<\h121a, \h79ad>>, <<\h1b0d, \h7da0>>,
             <<\h121e, \h75ad>>, <<\h3859, \h73b7>>, <<\h3200, \h0fea>>, <<\hf900, \h17ea>>,
             <<\h386a, \h688d>>, <<\hb900, \h67ea>>, <<\h5200, \h19b0>>, <<\h0a34, \h0063>>,
             <<\h9101, \hefea>>, <<\h1ad0, \h2474>>, <<\h1ad0, \h2070>>, <<\hf940, \h23e0>>,
             <<\h5219, \h61ad>>, <<\h3819, \hf3ad>>, <<\h521b, \h036f>>, <<\h0b2a, \h01aa>>,
             <<\h9240, \h0a03>>, <<\h1201, \he14a>>, <<\h1280, \h0df8>>, <<\h521f, \h7b18>>,
             <<\h121b, \h077b>>, <<\h521a, \h7298>>, <<\h1219, \h7294>>, <<\h5201, \hea94>>,
             <<\h521e, \h7af8>>, <<\h121d, \h7af7>>, <<\h4a43, \h06f7>>, <<\h0a43, \h0663>>,
             <<\h3200, \h0063>>, <<\h121b, \h02f7>>, <<\h2a21, \h03e1>>}]

Page_1a12a5 == [
  page  |-> \h1a12a5,
  spans |-> {<<\h0, 3328>>, <<\hd04, 764>>},
  goes  |-> {},
  falls |-> {<<\h1a12a6, \h0>>},
  lacks |-> {},
  names |-> {\h1a12a2, \h1a12a5},
  words |-> {<<\h4b0d, \h0150>>, <<\h0b50, \h05ad>>, <<\h5304, \h7dad>>, <<\h1b05, \ha9ad>>,
             <<\h9101, \heff0>>, <<\h3864, \h6a0a>>, <<\hf940, \h0be7>>, <<\h5101, \h1a10>>,
             <<\h1280, \h0140>>, <<\h0a00, \h0210>>, <<\h1100, \h294a>>, <<\h5280, \h0140>>,
             <<\h2a0a, \h020a>>, <<\h9ba2, \h7f30>>, <<\hd364, \hfe10>>, <<\h3870, \h4ad0>>,
             <<\h1200, \h1e10>>, <<\h52be, \hf7e0>>, <<\h729d, \heba0>>, <<\h4a00, \h0200>>,
             <<\h0b10, \h0010>>, <<\h1b10, \h7e00>>, <<\h2a21, \h03e1>>, <<\h3218, \h5c21>>,
             <<\h3942, \h37e1>>, <<\h5200, \h1801>>, <<\hb900, \h3fed>>, <<\h3902, \h37e0>>,
             <<\h4b20, \h0020>>, <<\h3859, \h23a3>>, <<\h381a, \h03a1>>, <<\haa0f, \h03fb>>,
             <<\h1ac3, \h2033>>, <<\h1ac3, \h2421>>, <<\hd362, \h9063>>, <<\h1200, \he94a>>,
             <<\h3218, \h6fea>>, <<\h121e, \h0673>>, <<\h321c, \h0063>>, <<\h321e, \h0ce7>>,
             <<\h121c, \h0463>>, <<\hb940, \h43e2>>, <<\h121a, \h00e7>>, <<\h2a47, \h0667>>,
             <<\h121d, \h0c63>>, <<\h7101, \h1a7f>>, <<\h1a9f, \h27f4>>, <<\h3318, \h0293>>,
             <<\h521c, \h0a13>>, <<\h121b, \h6a10>>, <<\h0b2d, \h046d>>, <<\h1202, \he673>>,
             <<\h2a05, \h04a5>>, <<\h121b, \h7084>>, <<\h9b0e, \h7e0e>>, <<\h9240, \h0a91>>,
             <<\h6b07, \h023f>>, <<\h1a9f, \h07ef>>, <<\h0b0e, \h11ef>>, <<\hb8ab, \hd90b>>,
             <<\hb0ff, \hffee>>, <<\h8b0e, \h016b>>, <<\hd61f, \h0160>>, <<\h382c, \h4924>>,
             <<\h1a82, \h116b>>, <<\h321f, \h0be4>>, <<\h9a89, \h052b>>, <<\h321f, \h03ec>>,
             <<\h1acb, \h0991>>, <<\h382c, \h692a>>, <<\h3200, \h07ea>>, <<\h321e, \h03ea>>,
             <<\h3200, \h0bea>>, <<\h321d, \h03ea>>, <<\h92ae, \ha4f0>>, <<\hf28f, \h31f0>>,
             <<\heb11, \h003f>>, <<\h331e, \h0231>>, <<\h4b0d, \h054a>>, <<\h0b0e, \h094e>>}]

Page_1a12a6 == [
  page  |-> \h1a12a6,
  spans |-> {<<\h0, 200>>, <<\h1d0, 828>>},
  goes  |-> {<<\h1a12ba, \h30>>, <<\h1a12c5, \h8b4>>},
  falls |-> {},
  lacks |-> {<<\h1a12a6, \hc8>>, <<\h1a12a6, \h50c>>},
  names |-> {\h1a12a5, \h1a12a6, \h1a1308, \h1aeaaf, \h1aeab6},
  words |-> {<<\h1b0b, \hb22c>>, <<\h386c, \h6931>>, <<\h1102, \ha940>>, <<\h1acb, \h0801>>,
             <<\h3860, \h4920>>, <<\h5307, \h7c01>>, <<\h331f, \h1c01>>, <<\h4a11, \h0031>>,
             <<\h5302, \h7c01>>, <<\h331a, \h1c01>>, <<\h5303, \h7d40>>, <<\h382c, \h692a>>,
             <<\h6b0a, \h021f>>, <<\h1a9f, \h17ea>>, <<\h4b0a, \h0d4a>>, <<\h0b0e, \h014e>>,
             <<\hb8ac, \hd90a>>, <<\hf0ff, \hffec>>, <<\h913f, \hd18c>>, <<\h8b0c, \h014a>>,
             <<\hd61f, \h0140>>, <<\hd101, \hc3a8>>, <<\hf940, \h0d08>>, <<\hcb08, \h0128>>,
             <<\hb500, \h0128>>, <<\ha95e, \h7bfd>>, <<\hd65f, \h03c0>>, <<\ha902, \h6ffc>>,
             <<\haa00, \h03f3>>, <<\hf900, \h0fe8>>, <<\h52a6, \hcad8>>, <<\h7291, \h0938>>,
             <<\hb940, \h0a69>>, <<\ha941, \h5275>>, <<\hf100, \h02bf>>, <<\h2a0a, \h0129>>,
             <<\hd2fb, \h9a2a>>, <<\hf2d0, \he42a>>, <<\hf2a1, \h0c6a>>, <<\hf290, \h050a>>,
             <<\heb0a, \h02df>>, <<\h5200, \h0149>>, <<\hb900, \h028b>>, <<\h1b09, \h2148>>,
             <<\h9400, \h7d79>>, <<\hb829, \h6ac8>>, <<\h0a0a, \h0129>>, <<\h5100, \h0d6b>>,
             <<\h2900, \hafe8>>, <<\hf868, \hd928>>, <<\hd63f, \h0100>>, <<\h3940, \h22a8>>}]

Page_1a12ae == [
  page  |-> \h1a12ae,
  spans |-> {<<\h2d4, 284>>, <<\h6a8, 1240>>, <<\hb84, 412>>},
  goes  |-> {<<\h1a12c3, \ha0>>},
  falls |-> {},
  lacks |-> {<<\h1a12ae, \hb80>>},
  names |-> {\h1a12ae, \h1a1306, \h1a1308, \h1aeaaf, \h1aeab6},
  words |-> {<<\hd103, \h43ff>>, <<\ha907, \h6ffc>>, <<\h9103, \h03fd>>, <<\haa00, \h03f3>>,
             <<\hb006, \hc008>>, <<\hf941, \hcd08>>, <<\hf81a, \h83a8>>, <<\h52be, \h72c8>>,
             <<\h7286, \he348>>, <<\h4a08, \h0268>>, <<\hb940, \h126a>>, <<\h1b09, \ha90c>>,
             <<\h1103, \had0a>>, <<\h5303, \h214b>>, <<\h8b0b, \h028d>>, <<\h3219, \h03ee>>,
             <<\h521d, \h0969>>, <<\h3900, \h61ae>>, <<\hd2f1, \h1cd6>>, <<\hf2c6, \hb016>>,
             <<\hf2b9, \h3f96>>, <<\hf283, \hbe56>>, <<\h7100, \h1d3f>>, <<\h1a9f, \h97ed>>,
             <<\h5280, \h014e>>, <<\h1b0f, \h7dad>>, <<\h0b0c, \h012d>>, <<\hb8ae, \hd92e>>,
             <<\hf86c, \hd9f0>>, <<\hd61f, \h01c0>>, <<\h6b0b, \h014a>>, <<\h1280, \h012f>>,
             <<\hd280, \h000c>>, <<\h331e, \h01cd>>, <<\h1200, \h0d4f>>, <<\heb0f, \h014d>>,
             <<\h2f00, \he400>>, <<\h6d00, \h0180>>, <<\h4b0c, \h056b>>, <<\h382c, \h691f>>,
             <<\h331c, \h01ef>>, <<\h5100, \h457b>>, <<\hf900, \h17e8>>, <<\hb900, \h17e8>>,
             <<\hd63f, \h0380>>, <<\h0a18, \h014a>>, <<\h2909, \h23fa>>, <<\h9400, \h51fc>>,
             <<\h2940, \h2a89>>, <<\h3940, \h0288>>, <<\h531f, \h0d09>>, <<\ha900, \h7e9f>>,
             <<\h0e04, \h0d00>>, <<\hfd00, \h0a80>>, <<\hf85a, \h83a8>>, <<\hcb08, \h0128>>,
             <<\hb500, \h0128>>, <<\ha94c, \h7bfd>>, <<\hd65f, \h03c0>>, <<\hf100, \h013f>>,
             <<\h2a0c, \h016b>>, <<\hb900, \h011f>>, <<\h386e, \h694e>>, <<\h531d, \h71f0>>,
             <<\h9bb0, \h7c64>>, <<\hd365, \hfc84>>, <<\h5318, \h5c63>>, <<\h5302, \h0cc6>>,
             <<\h1200, \h0484>>, <<\h5304, \h2ca5>>, <<\h8b05, \h1d45>>, <<\h8b06, \h14a5>>,
             <<\h8b24, \h4ca4>>, <<\hf821, \h6883>>}]

Page_1a12af == [
  page  |-> \h1a12af,
  spans |-> {<<\haec, 88>>, <<\hb68, 16>>},
  goes  |-> {<<\h1a12af, \hb68>>, <<\h1a12af, \hb70>>},
  falls |-> {},
  lacks |-> {<<\h1a12af, \hb44>>, <<\h1a12af, \hb5c>>},
  names |-> {},
  words |-> {<<\h52a5, \h2529>>, <<\h7296, \h7829>>, <<\h5280, \h128a>>, <<\h4a0a, \h000a>>,
             <<\h1b0b, \h7d4a>>, <<\h3940, \h400b>>, <<\hf940, \h040a>>, <<\hb940, \h094a>>,
             <<\h1200, \h1d6b>>, <<\h7102, \hdd7f>>, <<\h5400, \h00ec>>, <<\h5400, \h0160>>,
             <<\h5400, \h01c1>>, <<\h1400, \h000a>>, <<\h6b0b, \h015f>>, <<\h1a88, \h0128>>,
             <<\hb900, \h0408>>, <<\hd65f, \h03c0>>}]

Page_1a12b9 == [
  page  |-> \h1a12b9,
  spans |-> {<<\h514, 216>>, <<\h5f4, 1480>>, <<\hbf8, 532>>, <<\he10, 176>>,
             <<\hec4, 64>>, <<\hf14, 236>>},
  goes  |-> {<<\h1a12b9, \hf14>>},
  falls |-> {<<\h1a12ba, \h0>>},
  lacks |-> {<<\h1a12b9, \hec0>>, <<\h1a12b9, \hf04>>},
  names |-> {\h1a12b9, \h1a130c, \h1aeaaf, \h1aeab6},
  words |-> {<<\hd104, \h03ff>>, <<\h6d09, \h23e9>>, <<\ha90a, \h6ffc>>, <<\h9103, \hc3fd>>,
             <<\hd006, \hbfa8>>, <<\hf941, \hcd08>>, <<\hf819, \h83a8>>, <<\h52a8, \h6f09>>,
             <<\h729b, \h6c29>>, <<\h4a08, \h0008>>, <<\h1b09, \h7d09>>, <<\h2940, \h200b>>,
             <<\h4b09, \h0119>>, <<\h0b19, \h0d0c>>, <<\h6b0f, \h01df>>, <<\h1a9f, \h27f0>>,
             <<\hb900, \h12ac>>, <<\h7100, \h017f>>, <<\h1a8c, \h11eb>>, <<\hb8ab, \hda6b>>,
             <<\h8b0c, \h016b>>, <<\hd61f, \h0160>>, <<\h0b4b, \h754a>>, <<\h1103, \had08>>,
             <<\h3200, \h17ea>>, <<\h6a48, \h0d5f>>, <<\h5280, \h03ac>>, <<\hf86c, \hd96c>>,
             <<\hf900, \h27ec>>, <<\h5303, \h210d>>, <<\h321a, \h03ea>>, <<\h1a9f, \h87ea>>,
             <<\h0a0c, \h016b>>, <<\h2a0a, \h0129>>, <<\h1280, \h00ac>>, <<\h331e, \h016b>>,
             <<\h386e, \h6b4f>>, <<\h5200, \h0def>>, <<\h382e, \h690f>>, <<\h92a7, \h9a49>>,
             <<\hf286, \ha749>>, <<\hf100, \h3d7f>>, <<\haa0e, \h03f4>>, <<\hf27c, \hed7f>>,
             <<\hd280, \h000e>>, <<\h2a0a, \h03f0>>, <<\h927c, \hed6f>>, <<\heb10, \h01bf>>,
             <<\h1a9f, \h37ed>>, <<\h6d40, \h0580>>, <<\h0f00, \he5e2>>, <<\h2e22, \h1c00>>,
             <<\h4b0c, \h118c>>, <<\h5100, \h1e88>>, <<\hd2f9, \h2a89>>, <<\hf2c7, \h0449>>,
             <<\hf2bb, \h30e9>>, <<\h290e, \h23ea>>, <<\hd63f, \h0100>>, <<\h1b09, \ha908>>,
             <<\h3dc0, \h17e0>>, <<\h4ea0, \h8420>>, <<\h6e00, \h4001>>, <<\h7101, \h010a>>,
             <<\h1a96, \h96cb>>, <<\h121a, \h6549>>, <<\h5306, \h7d49>>, <<\h8b18, \h1b49>>,
             <<\hfd40, \h0320>>, <<\hfd00, \h0ea0>>, <<\hb940, \h2fe8>>, <<\heb28, \h431f>>,
             <<\h1a9a, \h0749>>, <<\ha940, \habe8>>, <<\h4b0b, \h156b>>, <<\h3900, \h618d>>,
             <<\hf859, \h83a8>>, <<\hcb08, \h0128>>, <<\hb500, \h0148>>, <<\hd65f, \h03c0>>,
             <<\h3940, \h0009>>, <<\h3200, \h03e9>>, <<\h1ac8, \h2128>>, <<\h7a40, \h9904>>,
             <<\h5400, \h00a1>>, <<\hca08, \h0008>>, <<\h9b09, \h7d08>>, <<\hd37e, \hf58c>>,
             <<\h8b28, \hce28>>, <<\h7200, \h01bf>>, <<\h9a8d, \h1129>>}]

Page_1a12ba == [
  page  |-> \h1a12ba,
  spans |-> {<<\h0, 620>>},
  goes  |-> {},
  falls |-> {},
  lacks |-> {},
  names |-> {\h1a12ba, \h1a130e},
  words |-> {<<\hb8ac, \h6929>>, <<\hf85f, \he108>>, <<\hb869, \h7909>>, <<\hb89f, \hd1cc>>,
             <<\hd37c, \hed6b>>, <<\h1acb, \h254a>>, <<\h1200, \h3d4a>>, <<\h4a0a, \h0108>>,
             <<\h4b08, \h0128>>, <<\hb900, \h0008>>, <<\hd65f, \h03c0>>, <<\hd2fa, \h03e8>>,
             <<\hf2d6, \h6f08>>, <<\hf2a7, \h0928>>, <<\hf29c, \h9c88>>, <<\hca08, \h0008>>,
             <<\h52a8, \h8949>>, <<\h7285, \h1c29>>, <<\h9b09, \h7d09>>, <<\hb940, \h0808>>,
             <<\hf940, \h0808>>, <<\h8b0b, \h010b>>, <<\heb0c, \h017f>>, <<\h1a8a, \h154a>>,
             <<\h9000, \h02ab>>, <<\h910a, \hc16b>>, <<\hb8aa, \hd96a>>, <<\hd61f, \h0160>>,
             <<\h5280, \h0d49>>, <<\h4a4a, \h6129>>, <<\h0a09, \h056b>>, <<\h4a4a, \h418c>>,
             <<\h1101, \h5d29>>, <<\h4a4a, \h21ad>>, <<\h521d, \h0a11>>, <<\h531f, \h7a10>>,
             <<\h521f, \h0a10>>, <<\h0b10, \h0230>>, <<\h5100, \h9610>>, <<\h3831, \h6910>>,
             <<\h5304, \h1d4a>>, <<\h0a4f, \h0dcf>>}]

Page_1a12bd == [
  page  |-> \h1a12bd,
  spans |-> {<<\h2b4, 84>>, <<\h30c, 32>>, <<\h33c, 256>>, <<\h440, 752>>},
  goes  |-> {<<\h1a12bf, \hb48>>, <<\h1a12cc, \h90>>, <<\h1a12d9, \h530>>},
  falls |-> {},
  lacks |-> {<<\h1a12bd, \h730>>},
  names |-> {\h1a12bd, \h1a130a, \h1a130d, \h1aeaaf, \h1aeab6},
  words |-> {<<\h52a4, \hf028>>, <<\h729d, \hb1a8>>, <<\h4a08, \h0008>>, <<\h1b09, \h7d09>>,
             <<\hb940, \h0408>>, <<\h4b09, \h0108>>, <<\h3940, \h000a>>, <<\h0b0a, \h0129>>,
             <<\h5100, \h4129>>, <<\h1200, \h1d2a>>, <<\h7100, \h115f>>, <<\h9000, \h028a>>,
             <<\h911c, \h214a>>, <<\h1a88, \h250b>>, <<\hb8ab, \hd94a>>, <<\h8b0b, \h014a>>,
             <<\hd61f, \h0140>>, <<\h1100, \he108>>, <<\hf868, \hd948>>, <<\h8b29, \h8908>>,
             <<\hb85f, \hd108>>, <<\hb900, \h0808>>, <<\hd65f, \h03c0>>, <<\h6db9, \h23e9>>,
             <<\ha901, \h6ffc>>, <<\hd111, \h83ff>>, <<\hf941, \hcd08>>, <<\hf819, \h83a8>>,
             <<\hd2f7, \hc175>>, <<\hf2c5, \h4495>>, <<\hf2be, \h72d5>>, <<\hf286, \he355>>,
             <<\hca15, \h0008>>, <<\h9b14, \h7d08>>, <<\h9bca, \h7d2a>>, <<\hd341, \hfd4a>>,
             <<\h5280, \h016b>>, <<\h9b0b, \ha549>>, <<\hf900, \h8fe9>>, <<\hf100, \h01df>>,
             <<\h2a0a, \h0129>>, <<\heb0a, \h019f>>, <<\h3869, \h6989>>, <<\h5400, \h1680>>,
             <<\h3501, \h3729>>, <<\h6b09, \h011f>>, <<\hb818, \h83a8>>, <<\h9400, \h7010>>,
             <<\h2930, \h63b9>>, <<\hd63f, \h0380>>, <<\h321d, \h0be9>>, <<\h9b09, \h6108>>,
             <<\h1400, \h0907>>}]

Page_1a12bf == [
  page  |-> \h1a12bf,
  spans |-> {<<\hb48, 60>>, <<\hb88, 596>>, <<\he88, 328>>, <<\hfd4, 44>>},
  goes  |-> {<<\h1a12af, \haec>>, <<\h1a12cf, \h798>>},
  falls |-> {<<\h1a12c0, \h0>>},
  lacks |-> {<<\h1a12bf, \hb84>>, <<\h1a12c0, \h608>>},
  names |-> {\h1a12bf, \h1a12c2, \h1a1310, \h1aeaaf},
  words |-> {<<\hf859, \h83a8>>, <<\h9006, \hbf89>>, <<\hf941, \hcd29>>, <<\hcb08, \h0128>>,
             <<\hb500, \h0148>>, <<\h9111, \h83ff>>, <<\ha946, \h7bfd>>, <<\h6cc7, \h23e9>>,
             <<\hd65f, \h03c0>>, <<\ha9ba, \h6ffc>>, <<\ha901, \h67fa>>, <<\hd139, \h83ff>>,
             <<\haa07, \h03f3>>, <<\hf900, \ha7e5>>, <<\h52a8, \h895a>>, <<\h7285, \h1c3a>>,
             <<\hd2eb, \hefe8>>, <<\hf2c7, \h4568>>, <<\hf2a0, \h3cc8>>, <<\hf29e, \h87a8>>,
             <<\h8b08, \h0128>>, <<\hb201, \hf3e9>>, <<\h9bc9, \h7d09>>, <<\hd341, \hfd29>>,
             <<\h8b09, \h0529>>, <<\h4a09, \h0108>>, <<\h1b1a, \h7d08>>, <<\hb816, \h03a8>>,
             <<\h9400, \h3ed5>>, <<\hb856, \h43a8>>, <<\h6b1b, \h011f>>, <<\h1a9f, \h17e9>>,
             <<\h321e, \h012b>>, <<\hb8ab, \h5b6b>>, <<\hd61f, \h0160>>, <<\h5100, \h1228>>,
             <<\h0b09, \h0908>>, <<\h1100, \h1109>>, <<\hca08, \h032a>>, <<\heb0b, \h011f>>,
             <<\hb8a8, \hdb68>>, <<\h4b0b, \h058b>>, <<\hf86b, \h6940>>, <<\hf100, \h001f>>,
             <<\h2a0c, \h01ad>>, <<\h0a0a, \h0168>>, <<\h5280, \h0deb>>, <<\h3940, \h16c8>>,
             <<\h7100, \h051f>>, <<\h331c, \h014a>>, <<\h5319, \h6328>>, <<\h3817, \h03a8>>,
             <<\h5400, \h3168>>}]

Page_1a12c0 == [
  page  |-> \h1a12c0,
  spans |-> {<<\h0, 12>>, <<\hd4, 516>>, <<\h2dc, 152>>, <<\h394, 352>>,
             <<\h618, 2536>>},
  goes  |-> {<<\h1a12a2, \h364>>, <<\h1a12c0, \h66c>>, <<\h1a12c3, \h4c>>},
  falls |-> {<<\h1a12c1, \h0>>},
  lacks |-> {<<\h1a12c2, \hff8>>},
  names |-> {\h1a12c0, \h1a12c1, \h1aeaaf, \h1aeab6},
  words |-> {<<\hb8a8, \h7928>>, <<\h8b09, \h0108>>, <<\hd61f, \h0100>>, <<\hf940, \h2789>>,
             <<\hf006, \hbf6a>>, <<\hcb09, \h0149>>, <<\hb501, \h7889>>, <<\h52bf, \h8649>>,
             <<\h7293, \hdec9>>, <<\h0b09, \h0100>>, <<\h9139, \h83ff>>, <<\ha945, \h7bfd>>,
             <<\ha8c6, \h6ffc>>, <<\hd65f, \h03c0>>, <<\h7101, \h92ff>>, <<\h1a9f, \h07e9>>,
             <<\h1100, \h4908>>, <<\hb8a8, \hdb68>>, <<\h1b08, \h3529>>, <<\hf100, \h01df>>,
             <<\h5100, \h59a8>>, <<\h531d, \h714c>>, <<\h4b0a, \h018a>>, <<\h3940, \h05c9>>,
             <<\h331d, \h014a>>, <<\h121d, \h0508>>, <<\h521e, \h0509>>, <<\h5280, \h0ee8>>,
             <<\hb900, \hb7e9>>, <<\h5219, \h7b09>>, <<\hd102, \h83ab>>, <<\h4a0c, \h016b>>,
             <<\h3816, \h03a9>>, <<\hb816, \h83a8>>, <<\haa11, \h03f9>>, <<\h9400, \h0b81>>,
             <<\hb856, \h43af>>, <<\h6b08, \h01ff>>, <<\h321f, \h07ea>>, <<\h3902, \h0178>>,
             <<\hf900, \h53e8>>, <<\h3980, \h36c8>>, <<\hf86a, \hd98a>>, <<\ha907, \h37eb>>,
             <<\hb278, \h0288>>, <<\hd2fb, \h9a28>>, <<\hf2d0, \he428>>, <<\hf2a1, \h0c68>>,
             <<\hf290, \h0508>>, <<\hd63f, \h02a0>>, <<\h321c, \h03e2>>, <<\hf900, \h67ff>>,
             <<\hb900, \h97ff>>, <<\hb279, \h0288>>, <<\h4f00, \he7c0>>, <<\h3d80, \h0be0>>,
             <<\h1400, \h005f>>, <<\hb941, \h33ec>>, <<\h1280, \h00ab>>, <<\h1b08, \he128>>,
             <<\h1a89, \h010f>>, <<\h3dc0, \h0100>>, <<\hfd45, \h6aa0>>, <<\hfd05, \h96a0>>,
             <<\h8b28, \hc2e8>>, <<\heb08, \h031f>>, <<\h1ad0, \h0b0f>>, <<\h92c0, \h0546>>,
             <<\hf866, \h6886>>, <<\h9240, \h1e94>>, <<\h3874, \h68d4>>, <<\h0a06, \h0566>>,
             <<\h3866, \hcaf5>>, <<\h321e, \h04c7>>, <<\h2a0b, \h00c3>>}]

Page_1a12c1 == [
  page  |-> \h1a12c1,
  spans |-> {<<\h0, 2528>>, <<\ha1c, 360>>, <<\hba0, 880>>},
  goes  |-> {<<\h1a12a2, \h364>>},
  falls |-> {},
  lacks |-> {},
  names |-> {\h1a12c0, \h1a12c1, \h1a12c2, \h1aeab6},
  words |-> {<<\h4a02, \h0021>>, <<\h5200, \h0c21>>, <<\h3900, \h0501>>, <<\h92c0, \h054b>>,
             <<\hf2b3, \h5a2b>>, <<\hf28f, \h650b>>, <<\hf86b, \h6881>>, <<\h3940, \h0902>>,
             <<\h9240, \h1c63>>, <<\h3863, \h6821>>, <<\h321f, \h00c3>>, <<\h3863, \hcae3>>,
             <<\h5280, \h014b>>, <<\h2a0b, \h00c2>>, <<\h321f, \h04c3>>, <<\h321f, \h08c2>>,
             <<\h3200, \h04c2>>, <<\h3200, \h08c5>>, <<\h3200, \h0cc3>>, <<\h52b5, \h66ab>>,
             <<\h7294, \h5ecb>>, <<\h0b0b, \h0222>>, <<\h1acc, \h0c43>>, <<\h1b0c, \h8862>>,
             <<\h0a02, \h0562>>, <<\h9340, \h7c42>>, <<\h8b02, \h1f23>>, <<\h9112, \h6062>>,
             <<\hf942, \h4c64>>, <<\hb865, \h7884>>, <<\h5318, \h7c23>>, <<\h5317, \h7c24>>,
             <<\h121f, \h0c84>>, <<\h4b04, \h0063>>, <<\h1100, \h3c63>>, <<\h5310, \h7c23>>,
             <<\h530f, \h7c24>>, <<\h5308, \h7c23>>, <<\ha940, \h1424>>, <<\h531f, \h7c87>>,
             <<\h0a64, \h7b04>>, <<\h1b0b, \h10e4>>, <<\hb8ae, \hdb6e>>, <<\hf0ff, \hffeb>>,
             <<\hd61f, \h01c0>>, <<\hb941, \h33f1>>, <<\h6b0b, \h023f>>, <<\h1a9f, \h27ee>>,
             <<\h331e, \h016b>>, <<\h331f, \h01cb>>, <<\h92ac, \h1360>>, <<\h382d, \h690e>>,
             <<\heb0d, \h019f>>, <<\h5100, \h430b>>, <<\hf868, \hdb28>>, <<\hd100, \h0d08>>,
             <<\hd63f, \h0100>>, <<\haa00, \h03eb>>, <<\hf100, \h017f>>, <<\h3900, \h1d7f>>,
             <<\hb900, \h0968>>, <<\hf900, \h67e8>>, <<\hd2fa, \h03e8>>, <<\hf2d6, \h6f08>>,
             <<\hb816, \hc3a9>>, <<\h7817, \h03a8>>, <<\h3218, \h03e8>>, <<\h7900, \h2308>>,
             <<\h3cc7, \h41a0>>, <<\h4f09, \h5401>>, <<\had40, \h8be3>>, <<\h4e22, \h1c21>>,
             <<\h6e21, \h8400>>, <<\h4e23, \h8400>>, <<\h3d80, \h1d80>>, <<\h3980, \h36c8>>,
             <<\h97ff, \h81cc>>, <<\h3dc0, \h0100>>, <<\hfd45, \h6aa0>>, <<\hfd05, \h96a0>>,
             <<\h8b28, \hc2e8>>, <<\ha900, \h5388>>, <<\h1280, \h032a>>}]

Page_1a12c2 == [
  page  |-> \h1a12c2,
  spans |-> {<<\h90, 3724>>},
  goes  |-> {},
  falls |-> {},
  lacks |-> {},
  names |-> {\h1a12c2, \h1a1306, \h1aeab6},
  words |-> {<<\hb901, \h13f0>>, <<\h9100, \h414d>>, <<\h5100, \h0708>>, <<\h3940, \h414b>>,
             <<\h4a0b, \h018b>>, <<\h3900, \h414b>>, <<\h9000, \h0009>>, <<\hf900, \h8fe9>>,
             <<\haa0d, \h03ea>>, <<\h1100, \h090d>>, <<\h1200, \h1d0e>>, <<\h7100, \h6d3f>>,
             <<\h1a9f, \h07e9>>, <<\h321f, \h03e9>>, <<\h1ac8, \h092b>>, <<\h1b08, \ha570>>,
             <<\h52a8, \h2360>>, <<\h728e, \hf900>>, <<\hd2e4, \h65c8>>, <<\hf2cf, \h1bc8>>,
             <<\hf2be, \hf388>>, <<\hf28f, \hfb08>>, <<\hf940, \h5fe9>>, <<\h8b08, \h0121>>,
             <<\h92c0, \h0415>>, <<\hf875, \h6b35>>, <<\h3868, \h6aa8>>, <<\h3869, \h4908>>,
             <<\h0b03, \h0083>>, <<\h1ace, \h0c65>>, <<\h0a0b, \h04ab>>, <<\h9340, \h7d6b>>,
             <<\hb865, \h7965>>, <<\h5318, \h7d0c>>, <<\ha940, \h0d02>>, <<\h3874, \hcae8>>,
             <<\h5280, \h00ac>>, <<\h2a0c, \h028c>>, <<\heb15, \h009f>>, <<\h1b19, \h36b5>>,
             <<\hb8ad, \hdb6d>>, <<\hd61f, \h0320>>, <<\hb941, \h13e8>>, <<\h6b0b, \h021f>>,
             <<\hd102, \h83aa>>, <<\h3816, \h53a9>>, <<\hb816, \h03a9>>, <<\h4b0a, \h0129>>,
             <<\hf868, \hd928>>, <<\hd63f, \h0100>>, <<\h5ac0, \h0908>>, <<\h3100, \h3108>>,
             <<\h1280, \h00ac>>, <<\hca09, \h0149>>, <<\h8a0a, \h056a>>, <<\h92e0, \h424a>>,
             <<\h331d, \h014a>>, <<\hd280, \h000e>>, <<\h4e08, \h0de6>>, <<\h3dc1, \h69e0>>,
             <<\h4ee0, \h84c0>>, <<\h6e24, \h1e52>>, <<\h4e18, \h3eb0>>, <<\h9e66, \h02a0>>,
             <<\h9b00, \h7c20>>, <<\h9e67, \h0010>>, <<\h4e18, \h1e10>>, <<\hcb0e, \h0100>>,
             <<\h0ea1, \h2a31>>, <<\h4ea1, \h2a91>>, <<\h0e61, \h2a50>>, <<\h4e61, \h2a30>>,
             <<\h0e21, \h2a10>>, <<\h0e20, \h0a10>>, <<\hfc1f, \h8210>>, <<\hf100, \h0508>>,
             <<\h3828, \h696a>>, <<\h3200, \h1bea>>, <<\h331b, \h0129>>}]

Page_1a12c3 == [
  page  |-> \h1a12c3,
  spans |-> {<<\h0, 4>>, <<\hc, 312>>, <<\h204, 508>>, <<\h404, 84>>,
             <<\h45c, 116>>, <<\h4d4, 96>>},
  goes  |-> {<<\h1a12ae, \hb84>>},
  falls |-> {},
  lacks |-> {<<\h1a12c3, \h534>>},
  names |-> {\h1a12c3, \h1a1311, \h1aeaaf, \h1aeab6},
  words |-> {<<\h521f, \h1408>>, <<\h52a3, \h3029>>, <<\h729e, \h6aa9>>, <<\h1b09, \h7d08>>,
             <<\h3940, \h0009>>, <<\h4a08, \h0128>>, <<\h5101, \h6108>>, <<\h1200, \h1d08>>,
             <<\h7100, \h0d1f>>, <<\h1a88, \h3128>>, <<\hb900, \h0808>>, <<\hd65f, \h03c0>>,
             <<\h5280, \h11a8>>, <<\h7a48, \h0120>>, <<\hb940, \h040a>>, <<\h1b09, \ha908>>,
             <<\hf940, \h0409>>, <<\h4a48, \h614a>>, <<\h3900, \h012a>>, <<\h5308, \h7d0a>>,
             <<\h521c, \h014a>>, <<\hd102, \h83ff>>, <<\ha904, \h6ffc>>, <<\h9102, \h43fd>>,
             <<\haa00, \h03f3>>, <<\h9006, \hbf68>>, <<\hf900, \h1fe8>>, <<\ha940, \he274>>,
             <<\h2900, \hffff>>, <<\hf100, \h035f>>, <<\h1a9f, \h17e8>>, <<\hd2e6, \h2b8a>>,
             <<\hf2d3, \h808a>>, <<\hf2ae, \h5a4a>>, <<\hf284, \h3dca>>, <<\heb0a, \h031f>>,
             <<\h2a0a, \h0108>>, <<\h0b0a, \h012b>>, <<\hb8ab, \hdacb>>, <<\h8b0c, \h016b>>,
             <<\hd61f, \h0160>>, <<\h97ff, \hae12>>, <<\h6b17, \h011f>>, <<\h4b09, \h0148>>,
             <<\h1100, \haf88>>, <<\hf868, \hdb68>>, <<\hd63f, \h0100>>, <<\h3868, \h6b08>>,
             <<\h1280, \h00a8>>, <<\hcb08, \h0128>>, <<\hb500, \h0128>>}]

Page_1a12c4 == [
  page  |-> \h1a12c4,
  spans |-> {<<\h8a0, 256>>, <<\hc4c, 948>>},
  goes  |-> {<<\h1a12d9, \h5cc>>},
  falls |-> {<<\h1a12c5, \h0>>},
  lacks |-> {},
  names |-> {\h1a12c4, \h1a1311, \h1aeaaf, \h1aeab6},
  words |-> {<<\hd103, \h43ff>>, <<\ha907, \h6ffc>>, <<\h9103, \h03fd>>, <<\haa00, \h03f3>>,
             <<\hf006, \hbf48>>, <<\hf941, \hcd08>>, <<\hf81a, \h83a8>>, <<\h52a7, \h0928>>,
             <<\h729c, \h9c88>>, <<\h4a08, \h0268>>, <<\hb940, \h026a>>, <<\h1b09, \h290c>>,
             <<\h1103, \had0a>>, <<\h5303, \h214b>>, <<\h8b0b, \h028d>>, <<\h3219, \h03ee>>,
             <<\h521d, \h0969>>, <<\h3900, \h61ae>>, <<\hd2f6, \h0463>>, <<\hf2c5, \hcbc3>>,
             <<\hf2a6, \h60e3>>, <<\hf29b, \h7723>>, <<\h7100, \h1d3f>>, <<\h1a9f, \h97ed>>,
             <<\h321e, \h07ee>>, <<\h4b0d, \h092d>>, <<\h0b0c, \h01ad>>, <<\hb8ae, \hd92e>>,
             <<\hf86f, \hda0f>>, <<\hf900, \h0bfb>>, <<\hd61f, \h01c0>>, <<\h5280, \h06ea>>,
             <<\h6b0b, \h014a>>, <<\hd280, \h000c>>, <<\h1200, \h0d4f>>, <<\heb0f, \h014d>>,
             <<\h1280, \h00a0>>, <<\h2f00, \he400>>, <<\h6d00, \h0180>>, <<\h331e, \h01ce>>,
             <<\h382c, \h691f>>, <<\h5100, \h1d77>>, <<\hb900, \h53e8>>, <<\hd63f, \h0100>>,
             <<\h0a1b, \h014a>>, <<\h9400, \h51d5>>, <<\h2909, \h23f9>>, <<\h2940, \h2a89>>,
             <<\h1b09, \ha908>>, <<\h3940, \h0288>>}]

Page_1a12c5 == [
  page  |-> \h1a12c5,
  spans |-> {<<\h0, 680>>, <<\h8b4, 84>>},
  goes  |-> {},
  falls |-> {},
  lacks |-> {<<\h1a12c5, \h2a8>>},
  names |-> {\h1aeaaf},
  words |-> {<<\h3900, \h1668>>, <<\h3940, \h1a88>>, <<\h531f, \h0d09>>, <<\h4b09, \h0108>>,
             <<\h1100, \h3d08>>, <<\hf900, \h27f4>>, <<\haa16, \h03fa>>, <<\h290a, \h6bf8>>,
             <<\h9101, \h23e0>>, <<\hd63f, \h02c0>>, <<\hb900, \h53f7>>, <<\ha900, \h7e9f>>,
             <<\h52aa, \hb148>>, <<\h728e, \he2a8>>, <<\h0e04, \h0d00>>, <<\h2f00, \he401>>,
             <<\h6d01, \h0680>>, <<\hfd00, \h2a81>>, <<\hf85a, \h83a8>>, <<\hd006, \hbf49>>,
             <<\hf941, \hcd29>>, <<\hcb08, \h0128>>, <<\hb500, \h0128>>, <<\ha94c, \h7bfd>>,
             <<\hd65f, \h03c0>>, <<\h5308, \h1d29>>, <<\h3310, \h1d49>>, <<\h3318, \h1d49>>,
             <<\h2a08, \h0128>>, <<\h4a09, \h0109>>, <<\h0a08, \h0548>>, <<\h0b08, \h0128>>}]

Page_1a12c6 == [
  page  |-> \h1a12c6,
  spans |-> {<<\h6c4, 188>>, <<\h784, 72>>, <<\h7d0, 688>>},
  goes  |-> {},
  falls |-> {<<\h1a12c6, \ha80>>},
  lacks |-> {},
  names |-> {\h1a12c6, \h1a1310},
  words |-> {<<\h52bb, \h30e8>>, <<\h7297, \h6da8>>, <<\h4a08, \h0008>>, <<\h1b09, \h7d08>>,
             <<\hb940, \h0809>>, <<\ha941, \h3408>>, <<\hf940, \h1009>>, <<\hf100, \h011f>>,
             <<\h1a9f, \h17eb>>, <<\hd2e6, \h2b8c>>, <<\hf2d3, \h808c>>, <<\hf2ae, \h5a4c>>,
             <<\hf284, \h3dcc>>, <<\heb0c, \h01bf>>, <<\h2a0c, \h016b>>, <<\hd101, \hc3ff>>,
             <<\ha901, \h6ffc>>, <<\hd000, \h024c>>, <<\h911a, \hc18c>>, <<\h0b0f, \h01d0>>,
             <<\hb8b0, \hd990>>, <<\h8b11, \h0210>>, <<\hd61f, \h0200>>, <<\h5200, \h01ef>>,
             <<\h4b0f, \h0dce>>, <<\hb900, \h013f>>, <<\h386f, \h694f>>, <<\h7100, \h6dff>>,
             <<\h1100, \h0d6b>>, <<\h331e, \h0210>>, <<\h5100, \h69ce>>, <<\h7200, \h1ddf>>,
             <<\h1200, \h1dc3>>, <<\h531e, \h75ef>>, <<\h5280, \h0de2>>, <<\h321f, \h07e3>>,
             <<\hd280, \h001a>>, <<\h92a0, \hb601>>, <<\haa02, \h03fc>>, <<\h3940, \h0227>>,
             <<\h1acf, \h08fe>>, <<\h1b0f, \h9fc7>>, <<\h5316, \h54e7>>, <<\hf833, \h6bc7>>}]

Page_1a12c8 == [
  page  |-> \h1a12c8,
  spans |-> {<<\h608, 152>>},
  goes  |-> {<<\h1a12a2, \h364>>},
  falls |-> {},
  lacks |-> {<<\h1a12c8, \h6a0>>},
  names |-> {\h1aeaaf},
  words |-> {<<\hd100, \hc3ff>>, <<\ha902, \h7bfd>>, <<\h9100, \h83fd>>, <<\hf006, \hbf28>>,
             <<\hf941, \hcd08>>, <<\hf81f, \h83a8>>, <<\h52be, \h72c8>>, <<\h7286, \he348>>,
             <<\h4a08, \h0008>>, <<\hb940, \h080a>>, <<\hf900, \h0beb>>, <<\h1b09, \ha908>>,
             <<\h1b0d, \h2188>>, <<\h0b09, \h0108>>, <<\hb900, \h0be8>>, <<\h97ff, \h673b>>,
             <<\hf85f, \h83a8>>, <<\hcb08, \h0128>>, <<\hb500, \h0088>>, <<\ha942, \h7bfd>>,
             <<\hd65f, \h03c0>>}]

Page_1a12cb == [
  page  |-> \h1a12cb,
  spans |-> {<<\h14c, 272>>, <<\hdbc, 580>>},
  goes  |-> {},
  falls |-> {<<\h1a12cc, \h0>>},
  lacks |-> {},
  names |-> {\h1a12cb, \h1a1310, \h1aeab6},
  words |-> {<<\hd2f6, \h0468>>, <<\hf2c5, \hcbc8>>, <<\hf2a6, \h60e8>>, <<\hf29b, \h7728>>,
             <<\hca08, \h0008>>, <<\h52aa, \h7669>>, <<\h7288, \h8929>>, <<\h9b09, \h7d08>>,
             <<\h2940, \ha40f>>, <<\h4a08, \h0129>>, <<\hf940, \h100a>>, <<\h8b08, \h014b>>,
             <<\hb940, \h000e>>, <<\h4b08, \h01c8>>, <<\heb0c, \h015f>>, <<\h1a9f, \h17ea>>,
             <<\h7200, \h01ff>>, <<\h1a8a, \h116a>>, <<\h0b0b, \h0129>>, <<\hf006, \hbf4b>>,
             <<\h9123, \hc16b>>, <<\h1100, \hd52c>>, <<\hf86c, \hd96c>>, <<\hd100, \h3d8c>>,
             <<\h7100, \h015f>>, <<\h9a8c, \h11ac>>, <<\h0a08, \h05ad>>, <<\h1b0e, \h7dad>>,
             <<\h1200, \h09ae>>, <<\hd37e, \hf5ce>>, <<\h8b28, \hcd28>>, <<\hb8ae, \h6989>>,
             <<\hf85f, \he108>>, <<\hb869, \h7909>>, <<\hb89f, \hd1eb>>, <<\h1aca, \h25aa>>,
             <<\hb900, \h0c08>>, <<\hd65f, \h03c0>>, <<\ha940, \h2809>>, <<\hf100, \h015f>>,
             <<\h2a0d, \h018c>>, <<\hb8ab, \hd98b>>, <<\hd61f, \h0180>>, <<\hf82b, \h692a>>}]

Page_1a12cc == [
  page  |-> \h1a12cc,
  spans |-> {<<\h0, 296>>, <<\h12c, 3796>>},
  goes  |-> {<<\h1a12a2, \h364>>},
  falls |-> {<<\h1a12cd, \h0>>},
  lacks |-> {<<\h1a12cc, \h128>>},
  names |-> {\h1aeaaf},
  words |-> {<<\hf291, \h360c>>, <<\hf82c, \h692b>>, <<\h9134, \h014b>>, <<\hb940, \h010c>>,
             <<\h1104, \h018c>>, <<\hb900, \h010c>>, <<\hd2e4, \h65cc>>, <<\hf2cf, \h1bcc>>,
             <<\hf2be, \hf38c>>, <<\h52a0, \h79ab>>, <<\h728c, \h214b>>, <<\hd65f, \h03c0>>,
             <<\hd100, \hc3ff>>, <<\ha902, \h7bfd>>, <<\hf006, \hbf08>>, <<\hf941, \hcd08>>,
             <<\hf81f, \h83a8>>, <<\h4a08, \h0008>>, <<\h1b09, \ha908>>, <<\h1b0d, \h2188>>,
             <<\h0b09, \h0108>>, <<\hf900, \h0beb>>, <<\h97ff, \h5899>>, <<\hf85f, \h83a8>>,
             <<\hcb08, \h0128>>, <<\hb500, \h0088>>, <<\ha942, \h7bfd>>, <<\h4e04, \h0d40>>,
             <<\h3dc0, \h0121>>, <<\h6e20, \h1c22>>, <<\h4f21, \h5421>>, <<\h4e23, \h1c21>>,
             <<\h4ea1, \h8441>>, <<\h3d80, \h03e1>>, <<\h2940, \h3109>>, <<\h0a0c, \h01ad>>,
             <<\h2940, \h43ed>>, <<\h1389, \h6529>>, <<\h4b0f, \h0129>>, <<\h1389, \h5129>>,
             <<\h138a, \h3d4a>>, <<\h138c, \h298c>>, <<\h1390, \h6e10>>, <<\h1382, \h5c42>>,
             <<\h1390, \h4a10>>, <<\h138d, \h31ad>>, <<\h1200, \h0c64>>, <<\h521f, \h0884>>,
             <<\hd37e, \hf484>>, <<\hb864, \h68a6>>, <<\h5200, \h08e7>>, <<\hb824, \h68b3>>,
             <<\h521f, \h0084>>, <<\h5304, \h1c63>>, <<\h5280, \h00a7>>, <<\h1389, \h7129>>,
             <<\h1389, \h5529>>, <<\h138d, \h41ad>>, <<\h138d, \h25ad>>}]

Page_1a12cd == [
  page  |-> \h1a12cd,
  spans |-> {<<\h0, 2720>>, <<\hac0, 1104>>},
  goes  |-> {<<\h1a12a2, \h364>>, <<\h1a12ce, \h38>>},
  falls |-> {<<\h1a12cd, \haa0>>},
  lacks |-> {<<\h1a12cd, \haa4>>},
  names |-> {\h1a12cd, \h1a12ce, \h1a1306, \h1a1315, \h1aeaaf, \h1aeab6},
  words |-> {<<\h4a02, \h00c3>>, <<\h0b03, \h01ad>>, <<\h52af, \hfc84>>, <<\h7292, \h1ac4>>,
             <<\h0a0d, \h0485>>, <<\h4b05, \h01ad>>, <<\hb940, \h07ed>>, <<\h138b, \h716b>>,
             <<\h1108, \h0abc>>, <<\h5280, \h405e>>, <<\h2a16, \h0396>>, <<\h1385, \h68a5>>,
             <<\h1382, \h5842>>, <<\h1390, \h4610>>, <<\h138c, \h2d8c>>, <<\h2940, \h390c>>,
             <<\hb900, \h010c>>, <<\hfd40, \h0500>>, <<\h1e27, \h0141>>, <<\h4e0c, \h1d21>>,
             <<\h0e04, \h0da2>>, <<\h0ea1, \h8400>>, <<\hfd00, \h0500>>, <<\hf940, \h27e8>>,
             <<\hd006, \hbf09>>, <<\hcb08, \h0128>>, <<\hb500, \h0128>>, <<\ha94a, \h7bfd>>,
             <<\h9102, \hc3ff>>, <<\hd135, \h03ff>>, <<\haa00, \h03f7>>, <<\hf906, \h3788>>,
             <<\hd2fa, \h03fb>>, <<\hf2d6, \h6f1b>>, <<\hf2a7, \h093b>>, <<\hf29c, \h9c9b>>,
             <<\h1b0a, \ha51a>>, <<\h1b0b, \h6929>>, <<\h5100, \h2928>>, <<\hb818, \h83a8>>,
             <<\hf868, \hdaa8>>, <<\hd63f, \h0100>>, <<\h8b08, \h0388>>, <<\h321c, \h03e2>>,
             <<\hf100, \h02df>>, <<\h1a9f, \h17e8>>, <<\h321f, \h0fe9>>, <<\hb8a8, \hdb28>>,
             <<\hd61f, \h0100>>, <<\h6b08, \h017f>>, <<\h97ff, \h51a0>>, <<\hd280, \h0018>>,
             <<\h3dc0, \h0100>>, <<\h3d82, \hc780>>, <<\h392d, \he3e8>>, <<\h8b34, \hc268>>,
             <<\h331f, \h0108>>, <<\h6e21, \h1c00>>, <<\h1400, \h004b>>}]

Page_1a12ce == [
  page  |-> \h1a12ce,
  spans |-> {<<\h38, 1720>>, <<\h6f8, 604>>, <<\h958, 168>>, <<\ha04, 68>>,
             <<\ha4c, 984>>, <<\he28, 472>>},
  goes  |-> {<<\h1a12a2, \h364>>},
  falls |-> {<<\h1a12cf, \h0>>},
  lacks |-> {},
  names |-> {\h1a12ce, \h1a1315, \h1aeab6},
  words |-> {<<\h5100, \h1165>>, <<\h3943, \h8bea>>, <<\h1200, \h1d44>>, <<\h7100, \h6d7f>>,
             <<\h1a9f, \h07e6>>, <<\h321f, \h03ec>>, <<\h1aca, \h098b>>, <<\h1b0a, \hb167>>,
             <<\h52ac, \h30aa>>, <<\h7287, \h4c0a>>, <<\h1280, \h0277>>, <<\h9000, \h0009>>,
             <<\h9103, \h1129>>, <<\h8b16, \h1dc1>>, <<\h92c0, \h060f>>, <<\hf2a7, \hac4f>>,
             <<\hf29a, \h030f>>, <<\hf86f, \h682f>>, <<\h3862, \h69ef>>, <<\h3900, \h010f>>,
             <<\h386b, \h484b>>, <<\h0b00, \h02c0>>, <<\h1ac4, \h0c01>>, <<\h4a00, \h0180>>,
             <<\h0a0c, \h042c>>, <<\h9340, \h7d8c>>, <<\hf942, \h4c0c>>, <<\hb861, \h7981>>,
             <<\h5318, \h7d70>>, <<\ha940, \h0560>>, <<\h387b, \hca6d>>, <<\h5280, \h00b1>>,
             <<\h2a11, \h0371>>, <<\heb01, \h02df>>, <<\h1b17, \h1421>>, <<\h1100, \h054a>>,
             <<\hb8a2, \hd8a2>>, <<\haa01, \h03e5>>, <<\hd61f, \h0040>>, <<\h6b0c, \h021f>>,
             <<\hb940, \h57ef>>, <<\h4b08, \h0534>>, <<\hf100, \h011f>>, <<\hd102, \h23b8>>,
             <<\hd2fb, \h1a88>>, <<\hf2d9, \h4628>>, <<\hf906, \h2399>>, <<\hb817, \h83a8>>,
             <<\h97ff, \h4ee3>>, <<\hd63f, \h0100>>, <<\hf868, \hd928>>, <<\h2919, \h23f8>>,
             <<\hb900, \h9fe8>>, <<\hb103, \h43e8>>, <<\hb857, \h83ab>>, <<\h2959, \h27e8>>,
             <<\h1a89, \h010b>>, <<\hd280, \h0018>>, <<\h3dc0, \h0100>>, <<\h3d82, \hc780>>,
             <<\hfd45, \h6b80>>, <<\hfd05, \h9780>>, <<\h8b36, \hc268>>, <<\hfd40, \h53e0>>,
             <<\h0e01, \h3c05>>, <<\h0e03, \h3c04>>, <<\h0e09, \h3c1e>>, <<\h0e0b, \h3c11>>,
             <<\h1400, \h0007>>, <<\hf858, \h81c6>>}]

Page_1a12cf == [
  page  |-> \h1a12cf,
  spans |-> {<<\h0, 1380>>, <<\h568, 124>>, <<\h73c, 1444>>},
  goes  |-> {<<\h1a12a2, \h364>>, <<\h1a12b9, \hf24>>},
  falls |-> {},
  lacks |-> {<<\h1a12cf, \h564>>},
  names |-> {\h1a12cf, \h1a12d0, \h1a1305, \h1a1312, \h1a1314, \h1a1315,
             \h1aeaaf, \h1aeab6},
  words |-> {<<\h2a00, \h00a0>>, <<\h3860, \hca60>>, <<\h4a11, \h0011>>, <<\h3900, \h16f1>>,
             <<\hf859, \h01d1>>, <<\h1200, \h1c60>>, <<\h3860, \h4a31>>, <<\h3200, \h00a0>>,
             <<\h3940, \h2ae0>>, <<\h3860, \h6a31>>, <<\h5280, \h0140>>, <<\hf940, \h01c2>>,
             <<\h1100, \h2121>>, <<\h1aca, \h0c22>>, <<\h1b0a, \h8441>>, <<\h52bd, \h7b82>>,
             <<\h729b, \h4f42>>, <<\h0a01, \h06a1>>, <<\h0b01, \h0041>>, <<\h9340, \h7c21>>,
             <<\h8b01, \h1c42>>, <<\hb864, \h7863>>, <<\hf879, \h6844>>, <<\h9240, \h1c00>>,
             <<\h5318, \h7c02>>, <<\ha940, \h1003>>, <<\h3201, \h0fe7>>, <<\h521c, \h0063>>,
             <<\hd000, \h0234>>, <<\h9104, \h0294>>, <<\hb8a7, \hda87>>, <<\hd61f, \h00e0>>,
             <<\hd280, \h0009>>, <<\h5308, \h3c0b>>, <<\h5310, \h5c0b>>, <<\h5100, \h0908>>,
             <<\hd2fa, \h03f9>>, <<\hf2d6, \h6f19>>, <<\hf2a7, \h0939>>, <<\hf29c, \h9c99>>,
             <<\h1400, \h000a>>, <<\hf86b, \hd9ab>>, <<\h385f, \h116b>>, <<\h3829, \h6aeb>>,
             <<\hf100, \h413f>>, <<\h1a9f, \h07eb>>, <<\h331f, \h018c>>, <<\hd102, \h23b4>>,
             <<\hf906, \h2395>>, <<\h1b0a, \h2508>>, <<\hb817, \h83a8>>, <<\h97ff, \h4baf>>,
             <<\h4b09, \h0156>>, <<\hd63f, \h0340>>, <<\hcb08, \h0128>>, <<\hb500, \h0128>>,
             <<\ha8c6, \h6ffc>>, <<\hd65f, \h03c0>>, <<\hb940, \h1008>>, <<\h1280, \h00ae>>,
             <<\h6b0a, \h017f>>, <<\ha9bd, \h57f6>>, <<\ha901, \h4ff4>>, <<\haa00, \h03f3>>,
             <<\hb85f, \hd108>>, <<\h7100, \h001f>>, <<\h1a89, \h0108>>, <<\hb900, \h0668>>,
             <<\h6d18, \h23e9>>, <<\hf819, \h83a8>>, <<\h7940, \h200b>>, <<\h9b0b, \h7d8b>>,
             <<\h9bcc, \h7d6c>>, <<\h8b4d, \h058c>>, <<\hd342, \hfd8c>>, <<\hd37d, \hf18d>>,
             <<\hd37f, \hf96c>>, <<\h927e, \h058c>>, <<\h8b0b, \h118b>>, <<\hca0c, \h016b>>,
             <<\h8a0b, \h058c>>, <<\hb201, \hf3ed>>, <<\hca0b, \h11ad>>, <<\h0b08, \h41e8>>,
             <<\hd345, \hfdad>>, <<\h9b0f, \hb9ad>>, <<\hfd44, \hfd88>>, <<\h9b09, \hfd49>>,
             <<\hfd00, \h4fe8>>, <<\hb85f, \hed28>>, <<\hb896, \h83a8>>}]

Page_1a12d0 == [
  page  |-> \h1a12d0,
  spans |-> {<<\h52c, 536>>, <<\h748, 740>>, <<\ha30, 112>>, <<\hc00, 88>>},
  goes  |-> {<<\h1a12cb, \h14c>>},
  falls |-> {<<\h1a12d0, \haa0>>},
  lacks |-> {<<\h1a12d0, \ha2c>>},
  names |-> {\h1a12cf, \h1a12d0, \h1a1312, \h1aeaaf, \h1aeab6},
  words |-> {<<\h5100, \h6513>>, <<\h2a09, \h03e8>>, <<\hd37e, \hf508>>, <<\hb868, \h6b0a>>,
             <<\h1201, \h014a>>, <<\h4a11, \h014a>>, <<\h1100, \h04e7>>, <<\hb86b, \h5b0b>>,
             <<\h121f, \h756c>>, <<\h0a0b, \h042d>>, <<\h0b02, \h014a>>, <<\h4b0c, \h014a>>,
             <<\h9240, \h016b>>, <<\h9102, \h63ec>>, <<\hb37e, \h016c>>, <<\hb940, \h018b>>,
             <<\h4a4a, \h0529>>, <<\hb828, \h6b09>>, <<\h7103, \h8d3f>>, <<\h1a93, \h266a>>,
             <<\h1b0f, \h4d08>>, <<\hb8aa, \hdb2a>>, <<\h8b10, \h014a>>, <<\hd61f, \h0140>>,
             <<\h52aa, \h212a>>, <<\h729c, \hd78a>>, <<\h92aa, \h2120>>, <<\hf283, \h2880>>,
             <<\h3300, \h7829>>, <<\h8b09, \h0b0c>>, <<\heb0d, \h015f>>, <<\hb903, \h8d8b>>,
             <<\h321f, \h03eb>>, <<\h1a9f, \h356b>>, <<\h1a8b, \h9149>>, <<\h331c, \h0529>>,
             <<\h9000, \h000a>>, <<\hb869, \h7b09>>, <<\hf940, \h2feb>>, <<\h530b, \h7d2a>>,
             <<\h0a49, \h296b>>, <<\h4a09, \h1d4a>>, <<\h0a09, \h216b>>, <<\h5311, \h412a>>,
             <<\h4a49, \h4929>>, <<\hcb0c, \h028b>>, <<\hb816, \h83a8>>, <<\h5200, \h0188>>,
             <<\hca0c, \h0148>>, <<\ha938, \h2fa8>>, <<\hf817, \h83a8>>, <<\hd102, \h63a0>>,
             <<\h97ff, \hea2c>>, <<\h5280, \h0008>>, <<\hb897, \h43a9>>, <<\h1280, \h00a0>>,
             <<\h1aca, \h2508>>, <<\ha947, \hb3eb>>, <<\h8a05, \h016b>>, <<\h1200, \h796b>>,
             <<\hf86d, \hdb0d>>, <<\h385f, \h61ad>>, <<\h3900, \h0148>>, <<\h7200, \h1d1f>>,
             <<\h6b16, \h039f>>, <<\hf859, \h83a8>>, <<\hb500, \h0148>>, <<\h6d58, \h23e9>>,
             <<\hd65f, \h03c0>>, <<\h2941, \h200a>>, <<\hf100, \h7d5f>>, <<\h4b0d, \h0bed>>,
             <<\h3940, \h010a>>}]

Page_1a12d1 == [
  page  |-> \h1a12d1,
  spans |-> {<<\h234, 52>>},
  goes  |-> {},
  falls |-> {},
  lacks |-> {<<\h1a12d1, \h268>>},
  names |-> {},
  words |-> {<<\h521f, \h1008>>, <<\h52a0, \h8b09>>, <<\h7289, \hc9a9>>, <<\h3940, \h000a>>,
             <<\h1b09, \ha908>>, <<\h1200, \h1d08>>, <<\h7100, \h351f>>, <<\h7a4a, \h1904>>,
             <<\h5400, \h00a1>>, <<\hb900, \h0408>>, <<\hd65f, \h03c0>>}]

Page_1a12d3 == [
  page  |-> \h1a12d3,
  spans |-> {<<\h574, 216>>, <<\h654, 564>>, <<\h9a8, 264>>, <<\hab4, 164>>,
             <<\hb8c, 516>>, <<\hd94, 260>>},
  goes  |-> {},
  falls |-> {},
  lacks |-> {<<\h1a12d3, \hd90>>},
  names |-> {\h1a12d3, \h1a1312, \h1aeaaf, \h1aeab6},
  words |-> {<<\hd103, \h03ff>>, <<\ha906, \h6ffc>>, <<\h9102, \hc3fd>>, <<\h9006, \hbee8>>,
             <<\hf941, \hcd08>>, <<\hf900, \h2fe8>>, <<\h52af, \hd468>>, <<\h7283, \h8fc8>>,
             <<\h4a08, \h0008>>, <<\h1b09, \h7d09>>, <<\hb940, \h1008>>, <<\h0b09, \h011a>>,
             <<\h2942, \h2aa8>>, <<\h6b0e, \h01bf>>, <<\h1a9f, \h27ef>>, <<\hb900, \h12ab>>,
             <<\h7100, \h017f>>, <<\h1a8c, \h11cb>>, <<\hb8ab, \hda6b>>, <<\h8b0c, \h016b>>,
             <<\hd61f, \h0160>>, <<\h0b4b, \h754a>>, <<\h1103, \had08>>, <<\h3200, \h17ea>>,
             <<\h6a48, \h0d5f>>, <<\h531b, \h696c>>, <<\h4b0b, \h018b>>, <<\hf86c, \hd9ac>>,
             <<\h0a0d, \h016d>>, <<\h2a0a, \h0129>>, <<\h5280, \h028a>>, <<\h1280, \h032e>>,
             <<\h386d, \h6b2e>>, <<\h382d, \h690e>>, <<\h5200, \h01ae>>, <<\h92a9, \hf1c9>>,
             <<\hf290, \h3ec9>>, <<\hf100, \h3dbf>>, <<\heb0a, \h017f>>, <<\hd2e1, \h5589>>,
             <<\hf2d9, \h6b69>>, <<\hf2a4, \hf029>>, <<\h5100, \h3508>>, <<\hd63f, \h0100>>,
             <<\hd280, \h0017>>, <<\h121a, \h652a>>, <<\h2903, \h27fa>>, <<\haa19, \h03f4>>,
             <<\hfd40, \h0280>>, <<\hfd00, \h0ea0>>, <<\heb28, \h42ff>>, <<\h331f, \h0129>>,
             <<\ha940, \ha7e8>>, <<\h3900, \h616c>>, <<\hcb08, \h0128>>, <<\hb500, \h0128>>,
             <<\hd65f, \h03c0>>, <<\h1b09, \ha90c>>}]

Page_1a12d4 == [
  page  |-> \h1a12d4,
  spans |-> {<<\h7c, 880>>, <<\h3f0, 112>>, <<\h4c0, 352>>, <<\h640, 64>>,
             <<\h6a2, 62>>, <<\h700, 576>>, <<\h960, 64>>, <<\h9c0, 160>>,
             <<\ha80, 1408>>},
  goes  |-> {<<\h1a12c3, \hf0>>},
  falls |-> {<<\h1a12d4, \h460>>, <<\h1a12d4, \h620>>, <<\h1a12d4, \h680>>,
             <<\h1a12d4, \h6e0>>, <<\h1a12d4, \h940>>, <<\h1a12d4, \h9a0>>,
             <<\h1a12d4, \ha60>>, <<\h1a12d5, \h0>>},
  lacks |-> {<<\h1a12d4, \h3ec>>},
  names |-> {\h1a12d4, \h1a1305, \h1aeaaf},
  words |-> {<<\h5280, \h06ea>>, <<\h6b0b, \h014a>>, <<\h1a9f, \h07eb>>, <<\h1b0e, \h7d8c>>,
             <<\h0b0b, \h098b>>, <<\hb8ac, \hd92c>>, <<\h9000, \h000d>>, <<\h9101, \hf1ad>>,
             <<\h8b0d, \h018c>>, <<\hd61f, \h0180>>, <<\hd280, \h000c>>, <<\h7100, \h3d5f>>,
             <<\h1280, \h012f>>, <<\h4b0d, \h0dcd>>, <<\h1200, \h0d4f>>, <<\heb0f, \h014d>>,
             <<\h321f, \h07e0>>, <<\h2f00, \he400>>, <<\h6d00, \h0180>>, <<\h531d, \h71ce>>,
             <<\haa0d, \h03ec>>, <<\h382c, \h691f>>, <<\h1100, \h45ef>>, <<\h5100, \h317a>>,
             <<\hf940, \h0273>>, <<\h4a1b, \h02a8>>, <<\hb900, \h23f9>>, <<\hf900, \h0ff7>>,
             <<\hd63f, \h02c0>>, <<\hb940, \h1288>>, <<\h52aa, \h9d6a>>, <<\h7282, \h3aca>>,
             <<\h0a0b, \h014a>>, <<\hd2ea, \h2f0c>>, <<\hf2c1, \h94cc>>, <<\hf2af, \hd46c>>,
             <<\hf283, \h8fcc>>, <<\h2903, \h23f7>>, <<\h97ff, \hbb9e>>, <<\ha901, \h6ff4>>,
             <<\h3940, \h0288>>, <<\h3900, \h0268>>, <<\hf900, \h029f>>, <<\hfd45, \h0500>>,
             <<\hfc00, \hc280>>, <<\hfd00, \h0e80>>, <<\hcb08, \h0128>>, <<\hb500, \h0128>>,
             <<\ha948, \h7bfd>>, <<\hd65f, \h03c0>>, <<\hd102, \hc3ff>>, <<\h4e04, \h0d40>>,
             <<\h3dc0, \h0121>>, <<\h6e20, \h1c22>>, <<\h4f21, \h5421>>, <<\h4e23, \h1c21>>,
             <<\h4ea1, \h8441>>, <<\h2940, \h43ed>>, <<\h1389, \h6529>>}]

Page_1a12d5 == [
  page  |-> \h1a12d5,
  spans |-> {<<\h0, 3456>>, <<\hd84, 636>>},
  goes  |-> {<<\h1a12b9, \hec4>>, <<\h1a12bd, \h2b4>>, <<\h1a12c3, \hc>>},
  falls |-> {<<\h1a12d6, \h0>>},
  lacks |-> {<<\h1a12d5, \hd80>>},
  names |-> {\h1a12d5, \h1a1315, \h1aeaaf},
  words |-> {<<\h729d, \h72c0>>, <<\h4a00, \h01ad>>, <<\h0a03, \h01ad>>, <<\h4b00, \h01ad>>,
             <<\h0b04, \h01ad>>, <<\h52a3, \h5a4d>>, <<\h138b, \h496d>>, <<\h1200, \h0d44>>,
             <<\h521f, \h0884>>, <<\hd37e, \hf484>>, <<\h9100, \h03e5>>, <<\hb864, \h68a6>>,
             <<\hb824, \h68b3>>, <<\h521d, \h00e7>>, <<\h5304, \h1d44>>, <<\h5280, \h01b3>>,
             <<\h5308, \h2d44>>, <<\h5200, \h0484>>, <<\h530c, \h3d4a>>, <<\hb940, \h17ec>>,
             <<\h2a19, \h0399>>, <<\h2940, \h390c>>, <<\hb900, \h010c>>, <<\hfd40, \h0500>>,
             <<\h1e27, \h0141>>, <<\h4e0c, \h1d21>>, <<\h0e04, \h0da2>>, <<\h0ea1, \h8400>>,
             <<\hfd00, \h0500>>, <<\hf940, \h27e8>>, <<\hd006, \hbec9>>, <<\hcb08, \h0128>>,
             <<\hb500, \h0128>>, <<\ha94a, \h7bfd>>, <<\hd65f, \h03c0>>, <<\hd101, \h83ff>>,
             <<\ha902, \h5ff8>>, <<\haa00, \h03f3>>, <<\hf900, \h0fe8>>, <<\hd2f1, \hf6a8>>,
             <<\hf2c2, \h3708>>, <<\hf2a9, \h4948>>, <<\hf28e, \h8448>>, <<\hca08, \h0268>>,
             <<\h9b09, \h7d09>>, <<\h8b08, \h028b>>, <<\heb0c, \h017f>>, <<\h1a9f, \h07eb>>,
             <<\hb8ac, \hdaac>>, <<\hd61f, \h0180>>, <<\h6b0b, \h013f>>, <<\h1100, \h0508>>,
             <<\h3868, \h6a88>>, <<\h1b0a, \h7d29>>, <<\h5100, \h094a>>, <<\h3900, \h33e8>>,
             <<\h97ff, \h9cfb>>, <<\h331d, \h014a>>, <<\h321f, \h07e8>>}]

Page_1a12d6 == [
  page  |-> \h1a12d6,
  spans |-> {<<\h0, 168>>, <<\hac, 216>>, <<\h190, 140>>, <<\h220, 460>>,
             <<\h3f0, 48>>, <<\h424, 840>>, <<\h7b0, 708>>, <<\ha78, 392>>,
             <<\hc04, 296>>, <<\hd30, 720>>},
  goes  |-> {<<\h1a12c5, \h8b4>>, <<\h1a12d1, \h234>>},
  falls |-> {<<\h1a12d7, \h0>>},
  lacks |-> {<<\h1a12d6, \ha8>>, <<\h1a12d6, \ha74>>, <<\h1a12d6, \hd2c>>},
  names |-> {\h1a12d6, \h1a1312, \h1a1315, \h1aeaaf, \h1aeab6},
  words |-> {<<\h913d, \hf18c>>, <<\h8b0c, \h016b>>, <<\hd61f, \h0160>>, <<\h4b0a, \h0948>>,
             <<\h0b17, \h0108>>, <<\hd2f9, \hd469>>, <<\hf2cc, \h7f69>>, <<\hf2b1, \ha5a9>>,
             <<\hf29b, \hc2c9>>, <<\h3869, \h6a89>>, <<\h52bb, \hedab>>, <<\h7280, \h27cb>>,
             <<\h4a0b, \h014a>>, <<\h1b0b, \h7d4a>>, <<\hb900, \h17e8>>, <<\h5100, \h4508>>,
             <<\h3900, \h33e8>>, <<\h97ff, \hec72>>, <<\hb940, \h13e8>>, <<\hf940, \h0fe8>>,
             <<\hb006, \hbec9>>, <<\hcb08, \h0128>>, <<\hb500, \h00e8>>, <<\ha945, \h7bfd>>,
             <<\hd65f, \h03c0>>, <<\hd104, \h03ff>>, <<\h6d09, \h23e9>>, <<\ha90a, \h6ffc>>,
             <<\hf819, \h83a8>>, <<\h2941, \h2c08>>, <<\h6b0f, \h01df>>, <<\h1a9f, \h27f0>>,
             <<\h7100, \h017f>>, <<\h1a8c, \h11eb>>, <<\hb8ab, \hda6b>>, <<\h0b4b, \h754a>>,
             <<\h1103, \had08>>, <<\h3200, \h17ea>>, <<\h6a48, \h0d5f>>, <<\h1280, \h012d>>,
             <<\hf86c, \hd96c>>, <<\hf900, \h27ec>>, <<\h5303, \h210c>>, <<\h0a0d, \h016b>>,
             <<\h2a0a, \h0129>>, <<\h5280, \h03aa>>, <<\h5200, \h0def>>, <<\h382e, \h690f>>,
             <<\h92a7, \hd809>>, <<\hf100, \h3dbf>>, <<\haa0e, \h03f6>>, <<\hf27c, \hedbf>>,
             <<\h331f, \h01f0>>, <<\hd280, \h000e>>, <<\h927c, \hedaf>>, <<\heb10, \h019f>>,
             <<\h6d40, \h0560>>, <<\h0f00, \he5e2>>, <<\h2e22, \h1c00>>, <<\hd63f, \h0100>>,
             <<\h3dc0, \h17e0>>, <<\h4ea0, \h8420>>, <<\h6e00, \h4001>>, <<\h1b09, \ha908>>,
             <<\h121a, \h6549>>, <<\hfd40, \h0320>>, <<\hfd00, \h0e80>>, <<\heb28, \h42ff>>,
             <<\hf859, \h83a8>>, <<\h3940, \h02ab>>, <<\hb829, \h6ae8>>, <<\h4e04, \h0d41>>,
             <<\h6e21, \h1c02>>, <<\h4f21, \h5400>>, <<\h4e23, \h1c00>>, <<\h4f05, \hf762>>,
             <<\h3d80, \h03e0>>, <<\h138a, \h654a>>}]

Page_1a12d7 == [
  page  |-> \h1a12d7,
  spans |-> {<<\h0, 4096>>},
  goes  |-> {},
  falls |-> {<<\h1a12d8, \h0>>},
  lacks |-> {},
  names |-> {},
  words |-> {<<\h52a3, \hcae6>>, <<\h7294, \hcd86>>, <<\h0b06, \h0000>>, <<\h4a17, \h02a1>>,
             <<\h0a02, \h0022>>, <<\h4b04, \h0042>>, <<\hb940, \h1be2>>, <<\h138c, \h3d8c>>,
             <<\h1200, \h0c85>>, <<\h5200, \h04a5>>, <<\hd37e, \hf4a5>>, <<\h9100, \h03e6>>,
             <<\hb865, \h68c7>>, <<\hb900, \h03e7>>, <<\hb825, \h68c9>>, <<\h5280, \h01a7>>,
             <<\h5304, \h1c8c>>, <<\h521e, \h0084>>}]

Page_1a12d8 == [
  page  |-> \h1a12d8,
  spans |-> {<<\h0, 1632>>, <<\h681, 31>>, <<\hf58, 168>>},
  goes  |-> {},
  falls |-> {<<\h1a12d8, \h660>>, <<\h1a12d8, \h6a0>>, <<\h1a12d9, \h0>>},
  lacks |-> {},
  names |-> {\h1aeaaf},
  words |-> {<<\h0a01, \h0484>>, <<\h4b04, \h0021>>, <<\h52a1, \h9b74>>, <<\h7288, \h8514>>,
             <<\h0b14, \h0037>>, <<\h4a17, \h0381>>, <<\hb940, \h3fe4>>, <<\h1381, \h4021>>,
             <<\h2a17, \h0397>>, <<\h2940, \h390c>>, <<\hb900, \h010c>>, <<\h0ea2, \h8400>>,
             <<\hfd00, \h0500>>, <<\hf940, \h27e8>>, <<\hf006, \hbea9>>, <<\hcb08, \h0128>>,
             <<\hd104, \h43ff>>, <<\ha90b, \h6ffc>>, <<\h9104, \h03fd>>, <<\hf900, \h1268>>,
             <<\h1b09, \h7d09>>, <<\h3940, \h140a>>, <<\ha940, \hd016>>, <<\h321f, \h03ea>>,
             <<\h3900, \h5fea>>, <<\h1280, \h0a4a>>, <<\h1101, \h0929>>, <<\h1200, \h1d2a>>,
             <<\hd2e7, \hcac9>>, <<\hf2c5, \h9529>>, <<\hf2a5, \heec9>>, <<\hf29a, \h4a09>>,
             <<\heb09, \h02df>>, <<\h1a9f, \h07e9>>, <<\hf100, \h029f>>, <<\h7100, \h0d5f>>}]

Page_1a12d9 == [
  page  |-> \h1a12d9,
  spans |-> {<<\h0, 440>>, <<\h530, 152>>, <<\h5cc, 168>>, <<\h6c0, 240>>,
             <<\h7e8, 4>>, <<\h7f4, 4>>, <<\h828, 4>>, <<\h840, 4>>},
  goes  |-> {<<\h1a12a2, \h364>>, <<\h1a12a2, \h5bc>>, <<\h1a12c8, \h608>>,
             <<\h1a12d9, \h6c0>>, <<\h1a12d9, \h6f8>>, <<\h1a12d9, \h7e8>>},
  falls |-> {},
  lacks |-> {<<\h1a12d9, \h1b8>>, <<\h1a12d9, \h5c8>>, <<\h1a12d9, \h674>>,
             <<\h1a12d9, \h7b0>>},
  names |-> {\h1a12d9, \h1a1312, \h1aeaaf, \h1aeab6},
  words |-> {<<\h0a0a, \h0129>>, <<\hb000, \h01ca>>, <<\h9107, \h514a>>, <<\h0b09, \h010b>>,
             <<\hb8ab, \hd94a>>, <<\h8b0b, \h014a>>, <<\hd61f, \h0140>>, <<\h4b09, \h0115>>,
             <<\h52aa, \h97f9>>, <<\h7299, \h0eb9>>, <<\hd2f1, \hf6bc>>, <<\hf2c2, \h371c>>,
             <<\hf2a9, \h495c>>, <<\hf28e, \h845c>>, <<\hd101, \he3b7>>, <<\h4a08, \h02e8>>,
             <<\hf818, \h83b8>>, <<\h1b09, \h5508>>, <<\hb819, \h03a8>>, <<\h97ff, \hbd60>>,
             <<\hb900, \h1279>>, <<\hf900, \h0e69>>, <<\h3940, \h0109>>, <<\h321d, \h0bea>>,
             <<\h9b0a, \h2128>>, <<\h3cc1, \hc100>>, <<\h4f00, \he5e1>>, <<\h6e21, \h1c00>>,
             <<\h3c87, \h83e0>>, <<\h5200, \h0d29>>, <<\h3901, \hdfe9>>, <<\ha901, \h526a>>,
             <<\h1100, \h2908>>, <<\hf868, \hd928>>, <<\hd63f, \h0100>>, <<\hf940, \h1268>>,
             <<\hcb08, \h0128>>, <<\hb500, \h0128>>, <<\ha950, \h7bfd>>, <<\hd65f, \h03c0>>,
             <<\hb940, \h080a>>, <<\h1b09, \ha908>>, <<\hf85f, \h83a8>>, <<\h5280, \h0d4a>>,
             <<\h4a48, \h614a>>, <<\h5219, \h6d08>>, <<\h9240, \h0908>>, <<\hb400, \h01a8>>,
             <<\hd343, \hfd08>>, <<\h3400, \h0dc8>>, <<\h1200, \h0849>>, <<\h5100, \h0529>>,
             <<\h7100, \h193f>>, <<\h5400, \h05c8>>, <<\hb8a9, \h7949>>, <<\heb02, \h011f>>,
             <<\h9a82, \h8109>>, <<\h5303, \h150a>>, <<\h3840, \h1409>>, <<\h3800, \h1429>>,
             <<\h35ff, \hfde8>>, <<\h1400, \h002a>>, <<\hf840, \h840a>>, <<\hf800, \h842a>>,
             <<\h2a28, \h03e9>>}]

\* The code pages of the snapshot.
CodePages ==
  {Page_1a12a2, Page_1a12a3, Page_1a12a4, Page_1a12a5, Page_1a12a6,
   Page_1a12ae, Page_1a12af, Page_1a12b9, Page_1a12ba, Page_1a12bd,
   Page_1a12bf, Page_1a12c0, Page_1a12c1, Page_1a12c2, Page_1a12c3,
   Page_1a12c4, Page_1a12c5, Page_1a12c6, Page_1a12c8, Page_1a12cb,
   Page_1a12cc, Page_1a12cd, Page_1a12ce, Page_1a12cf, Page_1a12d0,
   Page_1a12d1, Page_1a12d3, Page_1a12d4, Page_1a12d5, Page_1a12d6,
   Page_1a12d7, Page_1a12d8, Page_1a12d9}

GuestWords == UNION {p.words : p \in CodePages}
=============================================================================
