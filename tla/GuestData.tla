----------------------------- MODULE GuestData -----------------------------
(***************************************************************************)
(* What else is in the FairPlay snapshot                                   *)
(* (tools/fpsap-helper/fpemu/fpexchange_data.go) than the code: the pages  *)
(* of constants, pointers and white-box tables, with the bytes they list;  *)
(* the stubs that have a name; and the fixups, which copy what the         *)
(* snapshot has only once.                                                 *)
(*                                                                         *)
(* Addresses are pairs <<page number, offset>>, as in GuestCode.  Of the   *)
(* bytes themselves only the pointers matter here.                         *)
(***************************************************************************)
EXTENDS GuestCode

Page_80017 == [
  page  |-> \h80017,
  spans |-> {<<\h248, 4>>, <<\h261, 1>>, <<\h268, 36>>}]

Page_1806ed == [
  page  |-> \h1806ed,
  spans |-> {<<\h556, 2>>}]

Page_1807d4 == [
  page  |-> \h1807d4,
  spans |-> {<<\h786, 2>>}]

Page_1a1305 == [
  page  |-> \h1a1305,
  spans |-> {<<\h9a0, 16>>, <<\h9f8, 8>>, <<\ha0c, 20>>}]

Page_1a1306 == [
  page  |-> \h1a1306,
  spans |-> {<<\h5a0, 1>>, <<\h5a8, 1>>, <<\h5b0, 1>>, <<\h5b8, 1>>,
             <<\h5c0, 1>>, <<\h5c8, 1>>, <<\h5d8, 1>>, <<\hb60, 16>>,
             <<\hc94, 5>>, <<\hca4, 1>>}]

Page_1a1307 == [
  page  |-> \h1a1307,
  spans |-> {<<\h5b0, 64>>}]

Page_1a1308 == [
  page  |-> \h1a1308,
  spans |-> {<<\h574, 5>>, <<\h584, 2>>, <<\h590, 1>>, <<\h598, 1>>,
             <<\h5a0, 2>>, <<\h5a8, 1>>, <<\h5b4, 5>>, <<\h5c4, 1>>}]

Page_1a1309 == [
  page  |-> \h1a1309,
  spans |-> {<<\h230, 2>>, <<\h238, 1>>, <<\h248, 1>>, <<\h254, 1>>,
             <<\h25c, 1>>, <<\h264, 1>>, <<\h26c, 1>>, <<\h278, 1>>,
             <<\h280, 20>>, <<\h2ad, 26>>, <<\h2e0, 26>>, <<\h314, 25>>,
             <<\h347, 25>>, <<\h37a, 6>>}]

Page_1a130a == [
  page  |-> \h1a130a,
  spans |-> {<<\h144, 17>>, <<\h830, 35>>, <<\h894, 1>>, <<\h8ac, 2>>,
             <<\hcd0, 1>>, <<\he98, 1>>}]

Page_1a130c == [
  page  |-> \h1a130c,
  spans |-> {<<\h5d0, 1>>, <<\h5d8, 1>>, <<\h5e0, 1>>, <<\h5e8, 17>>,
             <<\h600, 1>>, <<\h60c, 1>>, <<\h61c, 1>>, <<\h624, 5>>,
             <<\h630, 1>>, <<\h63c, 2>>, <<\h644, 9>>, <<\h654, 1>>,
             <<\h66c, 2>>, <<\h678, 17>>, <<\h6b0, 20>>, <<\h6dd, 26>>,
             <<\h710, 26>>, <<\h744, 25>>, <<\h777, 25>>, <<\h7aa, 6>>,
             <<\hbe8, 1>>}]

Page_1a130d == [
  page  |-> \h1a130d,
  spans |-> {<<\h70c, 1>>, <<\hd21, 143>>}]

Page_1a130e == [
  page  |-> \h1a130e,
  spans |-> {<<\h2b4, 1>>, <<\h500, 4>>, <<\h918, 1>>, <<\h928, 1>>,
             <<\h942, 16>>}]

Page_1a1310 == [
  page  |-> \h1a1310,
  spans |-> {<<\h1e4, 1>>, <<\h290, 21>>, <<\h6b4, 5>>, <<\h6c4, 1>>,
             <<\h6d0, 1>>, <<\h6dc, 1>>, <<\h6e8, 1>>, <<\hbf4, 1>>,
             <<\hbfc, 1>>, <<\hc04, 5>>, <<\hc10, 1>>, <<\hc18, 2>>,
             <<\hc30, 1>>, <<\hc38, 1>>, <<\hc44, 5>>, <<\hc54, 1>>,
             <<\hc5c, 1>>, <<\hc68, 1>>, <<\hc70, 1>>, <<\hc7c, 5>>,
             <<\hc88, 1>>, <<\hc94, 1>>, <<\hc9c, 1>>, <<\hcbc, 1>>,
             <<\hccc, 2>>, <<\hcd4, 2>>, <<\hce0, 4>>, <<\hcf4, 2>>,
             <<\hcfc, 13>>, <<\hd10, 1>>, <<\hd1c, 5>>, <<\hd28, 1>>,
             <<\hd38, 1>>, <<\hd4c, 1>>, <<\hd54, 28>>, <<\hd78, 5>>,
             <<\hd8c, 2>>, <<\hd98, 4>>, <<\hdb0, 8>>, <<\hddc, 49>>}]

Page_1a1311 == [
  page  |-> \h1a1311,
  spans |-> {<<\h174, 5>>, <<\h180, 1>>, <<\h188, 1>>, <<\h190, 2>>,
             <<\h198, 1>>, <<\h1a4, 1>>, <<\h704, 1>>, <<\h710, 1>>,
             <<\h718, 1>>, <<\h720, 1>>, <<\h728, 1>>}]

Page_1a1312 == [
  page  |-> \h1a1312,
  spans |-> {<<\h10, 1>>, <<\h18, 9>>, <<\h28, 13>>, <<\h48, 1>>, <<\h54, 1>>,
             <<\hd0, 20>>, <<\hfd, 26>>, <<\h130, 26>>, <<\h164, 25>>,
             <<\h197, 25>>, <<\h1ca, 6>>, <<\h1dc, 1>>, <<\h40c, 1>>,
             <<\h41c, 2>>, <<\h530, 2>>, <<\h538, 1>>, <<\h540, 1>>,
             <<\h548, 1>>, <<\h554, 5>>, <<\h578, 1>>, <<\h5c4, 17>>,
             <<\h9e0, 16>>, <<\ha31, 16>>, <<\ha50, 1>>, <<\ha58, 1>>,
             <<\ha64, 9>>, <<\ha78, 6>>, <<\ha88, 1>>, <<\haa8, 2>>,
             <<\hab0, 9>>, <<\hac0, 1>>, <<\hacc, 5>>, <<\had8, 1>>,
             <<\hae0, 1>>, <<\haf8, 2>>, <<\hb00, 3>>, <<\hff0, 14>>}]

Page_1a1313 == [
  page  |-> \h1a1313,
  spans |-> {<<\h0, 1>>, <<\h8, 1>>, <<\h10, 1>>, <<\h18, 1>>, <<\h20, 1>>,
             <<\h2c, 5>>, <<\h40, 1>>, <<\h48, 1>>, <<\h51, 4>>, <<\h5c, 1>>,
             <<\h64, 1>>, <<\h6c, 2>>, <<\h88, 1>>, <<\h90, 2>>}]

Page_1a1314 == [
  page  |-> \h1a1314,
  spans |-> {<<\h304, 6>>, <<\h31c, 1>>, <<\h334, 2>>, <<\hf60, 17>>}]

Page_1a1315 == [
  page  |-> \h1a1315,
  spans |-> {<<\h84, 1>>, <<\h8c, 1>>, <<\h94, 1>>, <<\ha0, 1>>, <<\ha8, 1>>,
             <<\hb4, 1>>, <<\hbc, 1>>, <<\hc4, 5>>, <<\hd8, 1>>, <<\h104, 1>>,
             <<\h10c, 5>>, <<\h11c, 1>>, <<\h124, 6>>, <<\h134, 14>>,
             <<\h148, 1>>, <<\h15c, 12>>, <<\h17c, 2>>, <<\h184, 2>>,
             <<\h194, 6>>}]

Page_1aeaaf == [
  page  |-> \h1aeaaf,
  spans |-> {<<\h39b, 1>>}]

Page_1aeab6 == [
  page  |-> \h1aeab6,
  spans |-> {<<\h898, 5>>, <<\h8b9, 4>>, <<\h900, 5>>, <<\h910, 5>>,
             <<\h948, 21>>, <<\h968, 5>>, <<\h978, 5>>, <<\h9a0, 29>>,
             <<\h9d8, 5>>, <<\h9e8, 13>>, <<\ha08, 5>>, <<\ha18, 13>>,
             <<\ha48, 5>>, <<\ha60, 5>>, <<\ha78, 13>>, <<\ha90, 5>>,
             <<\hab0, 5>>, <<\hac0, 13>>, <<\hae8, 5>>, <<\hb10, 21>>,
             <<\hb30, 13>>, <<\hb58, 5>>, <<\hb70, 5>>, <<\hb80, 21>>,
             <<\hbb0, 5>>, <<\hbc8, 5>>, <<\hbf0, 5>>, <<\hc20, 5>>,
             <<\hc30, 21>>, <<\hc68, 13>>, <<\hd08, 13>>, <<\hd20, 5>>,
             <<\hd38, 5>>, <<\hd48, 13>>, <<\hd68, 5>>, <<\hd78, 5>>,
             <<\hdb0, 5>>, <<\hdc0, 13>>, <<\hdd8, 5>>, <<\hdf0, 5>>,
             <<\he30, 5>>}]

Page_1b10a3 == [
  page  |-> \h1b10a3,
  spans |-> {<<\h0, 4>>, <<\h40, 5>>, <<\h50, 3>>, <<\h58, 17>>, <<\hb0, 5>>,
             <<\hc0, 3>>, <<\hc8, 17>>, <<\h120, 5>>, <<\h130, 3>>,
             <<\h138, 17>>, <<\h1a0, 3>>, <<\h1a8, 17>>, <<\h200, 5>>,
             <<\h210, 3>>, <<\h218, 17>>, <<\h270, 29>>, <<\h298, 17>>,
             <<\h2b0, 21>>, <<\h2d0, 3>>, <<\h2d8, 17>>, <<\h340, 3>>,
             <<\h348, 17>>, <<\h3a0, 5>>, <<\h3b0, 3>>, <<\h3b8, 17>>,
             <<\h410, 13>>, <<\h428, 3>>, <<\h430, 17>>, <<\h488, 5>>,
             <<\h498, 3>>, <<\h4a0, 17>>, <<\h4f8, 5>>, <<\h508, 3>>,
             <<\h510, 17>>, <<\h580, 17>>, <<\h5d8, 5>>, <<\h5e8, 13>>,
             <<\h608, 5>>, <<\h620, 1>>, <<\h628, 5>>, <<\h640, 5>>,
             <<\h650, 3>>, <<\h658, 17>>, <<\h6c0, 3>>, <<\h6c8, 17>>,
             <<\h720, 1>>, <<\h728, 5>>, <<\h738, 3>>, <<\h740, 17>>,
             <<\h7a8, 3>>, <<\h7b0, 17>>, <<\h808, 2040>>}]

Page_1b10a4 == [
  page  |-> \h1b10a4,
  spans |-> {<<\h0, 4096>>}]

Page_1b10a5 == [
  page  |-> \h1b10a5,
  spans |-> {<<\h0, 288>>, <<\h220, 3552>>}]

Page_1b10a6 == [
  page  |-> \h1b10a6,
  spans |-> {<<\h0, 2336>>, <<\ha20, 1504>>}]

Page_1b10a7 == [
  page  |-> \h1b10a7,
  spans |-> {<<\h0, 4096>>}]

Page_1b10a8 == [
  page  |-> \h1b10a8,
  spans |-> {<<\h0, 32>>, <<\h120, 2048>>, <<\ha20, 1504>>}]

Page_1b10a9 == [
  page  |-> \h1b10a9,
  spans |-> {<<\h0, 1056>>, <<\h620, 768>>, <<\ha20, 1504>>}]

Page_1b10aa == [
  page  |-> \h1b10aa,
  spans |-> {<<\h0, 3104>>, <<\hd20, 736>>}]

Page_1b10ab == [
  page  |-> \h1b10ab,
  spans |-> {<<\h0, 288>>, <<\h220, 1536>>, <<\h920, 1760>>}]

Page_1b10ac == [
  page  |-> \h1b10ac,
  spans |-> {<<\h0, 288>>, <<\h220, 512>>, <<\h520, 2784>>}]

Page_1b10ad == [
  page  |-> \h1b10ad,
  spans |-> {<<\h0, 4096>>}]

Page_1b10ae == [
  page  |-> \h1b10ae,
  spans |-> {<<\h0, 2084>>, <<\h830, 2000>>}]

Page_1b10af == [
  page  |-> \h1b10af,
  spans |-> {<<\h0, 4096>>}]

Page_1b10b0 == [
  page  |-> \h1b10b0,
  spans |-> {<<\h0, 864>>, <<\h380, 32>>, <<\h3c0, 32>>, <<\h400, 32>>,
             <<\h440, 3008>>}]

Page_1b10b1 == [
  page  |-> \h1b10b1,
  spans |-> {<<\h0, 96>>, <<\h140, 288>>, <<\h2c0, 32>>, <<\h340, 544>>,
             <<\h5c0, 32>>, <<\h640, 800>>, <<\ha40, 1472>>}]

Page_1b10b2 == [
  page  |-> \h1b10b2,
  spans |-> {<<\h0, 1120>>, <<\h540, 1056>>, <<\ha40, 1472>>}]

Page_1b10b3 == [
  page  |-> \h1b10b3,
  spans |-> {<<\h0, 96>>, <<\h80, 128>>, <<\h140, 544>>, <<\h380, 32>>,
             <<\h3c0, 32>>, <<\h400, 32>>, <<\h440, 544>>, <<\h6c0, 32>>,
             <<\h740, 800>>, <<\ha80, 32>>, <<\hac0, 32>>, <<\hb00, 32>>,
             <<\hb40, 1216>>}]

Page_1b10b4 == [
  page  |-> \h1b10b4,
  spans |-> {<<\h0, 352>>, <<\h240, 1056>>, <<\h680, 32>>, <<\h6c0, 32>>,
             <<\h700, 32>>, <<\h740, 2240>>}]

Page_1b10b5 == [
  page  |-> \h1b10b5,
  spans |-> {<<\h0, 1120>>, <<\h540, 32>>, <<\h580, 32>>, <<\h5c0, 32>>,
             <<\h600, 32>>, <<\h640, 32>>, <<\h6c0, 32>>, <<\h740, 544>>,
             <<\ha40, 800>>, <<\he40, 448>>}]

Page_1b10b6 == [
  page  |-> \h1b10b6,
  spans |-> {<<\h0, 96>>, <<\hc0, 32>>, <<\h140, 800>>, <<\h4c0, 32>>,
             <<\h540, 32>>, <<\h640, 32>>, <<\h680, 32>>, <<\h6c0, 32>>,
             <<\h700, 32>>, <<\h740, 32>>, <<\h7c0, 32>>, <<\h840, 288>>,
             <<\h981, 31>>, <<\h9c0, 32>>, <<\ha00, 32>>, <<\ha40, 32>>,
             <<\ha80, 32>>, <<\hac0, 32>>, <<\hb00, 32>>, <<\hb40, 1216>>}]

Page_1b10b7 == [
  page  |-> \h1b10b7,
  spans |-> {<<\h0, 96>>, <<\h140, 32>>, <<\h240, 32>>, <<\h280, 32>>,
             <<\h2c0, 32>>, <<\h300, 32>>, <<\h340, 288>>, <<\h540, 544>>,
             <<\h780, 32>>, <<\h7c0, 32>>, <<\h800, 32>>, <<\h840, 1984>>}]

Page_1b10b8 == [
  page  |-> \h1b10b8,
  spans |-> {<<\h0, 4096>>}]

Page_1b10b9 == [
  page  |-> \h1b10b9,
  spans |-> {<<\h0, 2124>>, <<\hbb8, 1>>, <<\hbd0, 1072>>}]

Page_1b10ba == [
  page  |-> \h1b10ba,
  spans |-> {<<\h0, 1428>>}]

\* What the pointers of page 0x1aeab6000 point to, a few bytes past: the code
\* subtracts a constant of its own before it uses one.
Pointers ==
  {<<\h1a1312, \haf8>>, <<\h1a1314, \h300>>, <<\h1a1312, \h5c8>>,
   <<\h1a12a2, \h39f>>, <<\h1a12d0, \ha36>>, <<\h1a12a2, \ha7f>>,
   <<\h1b10b9, \hbd2>>, <<\h1a130a, \h86a>>, <<\h1a130c, \h6ba>>,
   <<\h1b10b9, \hbbb>>, <<\h1b10a3, \h812>>, <<\h1a1310, \hdea>>,
   <<\h1a12d6, \ha7a>>, <<\h1a1307, \h5b6>>, <<\h1a12c4, \h8aa>>,
   <<\h1a12d8, \hf63>>, <<\h1a12cc, \h13a>>, <<\h1b10ba, \h596>>,
   <<\h1b10b9, \hbe3>>, <<\h1a1312, \hd8>>, <<\h1aeab6, \h837>>,
   <<\h1aeab6, \h852>>, <<\h1a12d4, \h3fb>>, <<\h1a12c6, \h6d3>>,
   <<\h1a130e, \h503>>, <<\h1a12cd, \haab>>, <<\h1a12ae, \hd26>>,
   <<\h1a12d9, \h626>>, <<\h1a130e, \h91f>>, <<\h1a12d3, \h582>>,
   <<\h1a12d6, \hbb>>, <<\h1a1309, \h285>>, <<\h1aeab6, \h8d2>>,
   <<\h1b10ae, \h836>>, <<\h1a12cf, \h83f>>, <<\h1a12cb, \hdc7>>,
   <<\h1a130a, \h144>>, <<\h1807d4, \h787>>, <<\h1b10b9, \h84b>>,
   <<\h1a130d, \hd26>>, <<\h1a12d3, \hd9f>>, <<\h1a12bd, \h34b>>,
   <<\h1a130c, \hbd3>>, <<\h1a12ae, \h2d6>>, <<\h1b10ae, \h823>>,
   <<\h1a12d6, \hd3a>>, <<\h1a130c, \h687>>, <<\h1a1310, \h29f>>,
   <<\h1a1314, \hf6e>>, <<\h1a130e, \h951>>, <<\h1a12d5, \hd86>>,
   <<\h1a12b9, \h51a>>, <<\h1806ed, \h557>>, <<\h1a1312, \h9ea>>,
   <<\h1b10b9, \hbca>>, <<\h1a12cf, \h56b>>, <<\h1a12a6, \h1d3>>,
   <<\h1a1312, \ha37>>, <<\h1a130c, \h196>>, <<\h1a12c3, \h20f>>,
   <<\h1a130a, \h830>>}

\* The pages in the order of the snapshot.
GuestPages ==
  <<Page_80017, Page_1806ed, Page_1807d4, Page_1a12a2, Page_1a12a3,
    Page_1a12a4, Page_1a12a5, Page_1a12a6, Page_1a12ae, Page_1a12af,
    Page_1a12b9, Page_1a12ba, Page_1a12bd, Page_1a12bf, Page_1a12c0,
    Page_1a12c1, Page_1a12c2, Page_1a12c3, Page_1a12c4, Page_1a12c5,
    Page_1a12c6, Page_1a12c8, Page_1a12cb, Page_1a12cc, Page_1a12cd,
    Page_1a12ce, Page_1a12cf, Page_1a12d0, Page_1a12d1, Page_1a12d3,
    Page_1a12d4, Page_1a12d5, Page_1a12d6, Page_1a12d7, Page_1a12d8,
    Page_1a12d9, Page_1a1305, Page_1a1306, Page_1a1307, Page_1a1308,
    Page_1a1309, Page_1a130a, Page_1a130c, Page_1a130d, Page_1a130e,
    Page_1a1310, Page_1a1311, Page_1a1312, Page_1a1313, Page_1a1314,
    Page_1a1315, Page_1aeaaf, Page_1aeab6, Page_1b10a3, Page_1b10a4,
    Page_1b10a5, Page_1b10a6, Page_1b10a7, Page_1b10a8, Page_1b10a9,
    Page_1b10aa, Page_1b10ab, Page_1b10ac, Page_1b10ad, Page_1b10ae,
    Page_1b10af, Page_1b10b0, Page_1b10b1, Page_1b10b2, Page_1b10b3,
    Page_1b10b4, Page_1b10b5, Page_1b10b6, Page_1b10b7, Page_1b10b8,
    Page_1b10b9, Page_1b10ba>>

\* The named stubs and their addresses.
GuestStubs == {
  [at |-> <<\h20000, \h18>>, name |-> "_AES_CTR_Final"],
  [at |-> <<\h20000, \h1c>>, name |-> "_AES_CTR_Init"],
  [at |-> <<\h20000, \h20>>, name |-> "_AES_CTR_Update"],
  [at |-> <<\h20000, \h284>>, name |-> "_CC_SHA1_Final"],
  [at |-> <<\h20000, \h288>>, name |-> "_CC_SHA1_Init"],
  [at |-> <<\h20000, \h28c>>, name |-> "_CC_SHA1_Update"],
  [at |-> <<\h20000, \h290>>, name |-> "_CC_SHA512_Final"],
  [at |-> <<\h20000, \h294>>, name |-> "_CC_SHA512_Init"],
  [at |-> <<\h20000, \h298>>, name |-> "_CC_SHA512_Update"],
  [at |-> <<\h20000, \h3f8>>, name |-> "_CFRetain"],
  [at |-> <<\h20000, \h70c>>, name |-> "_FigGetUpTimeNanoseconds"],
  [at |-> <<\h20000, \h758>>, name |-> "_FigThreadRunOnce"],
  [at |-> <<\h20000, \h9a8>>, name |-> "___memcpy_chk"],
  [at |-> <<\h20000, \h9c0>>, name |-> "_bzero"],
  [at |-> <<\h20000, \h9c4>>, name |-> "_calloc"],
  [at |-> <<\h20000, \h9f4>>, name |-> "_dispatch_once"],
  [at |-> <<\h20000, \ha88>>, name |-> "_malloc"],
  [at |-> <<\h20000, \ha8c>>, name |-> "_memcmp"],
  [at |-> <<\h20000, \ha90>>, name |-> "_memcpy"],
  [at |-> <<\h20000, \ha94>>, name |-> "_memmove"],
  [at |-> <<\h20000, \ha9c>>, name |-> "_memset"],
  [at |-> <<\h20000, \had8>>, name |-> "_realloc"],
  [at |-> <<\h20000, \hafc>>, name |-> "_strlen"]}

\* The fixups: destination, source, number of bytes.
GuestFixups == <<
  <<<<\h1b10a8, \h20>>, <<\h1b10a6, \h820>>, 256>>,
  <<<<\h1b10a9, \h420>>, <<\h1b10a8, \hc20>>, 256>>,
  <<<<\h1b10aa, \hc20>>, <<\h1b10a5, \h20>>, 256>>,
  <<<<\h1b10ab, \h820>>, <<\h1b10a5, \h420>>, 256>>,
  <<<<\h1b10ac, \h420>>, <<\h1b10aa, \h20>>, 256>>,
  <<<<\h1b10b1, \h980>>, <<\h1b10b0, \hd80>>, 128>>,
  <<<<\h1b10b4, \h180>>, <<\h1b10b0, \hd80>>, 128>>,
  <<<<\h1b10b1, \h80>>, <<\h1b10af, \h880>>, 128>>,
  <<<<\h1b10a5, \h180>>, <<\h1b10a3, \h980>>, 128>>,
  <<<<\h1b10ac, \h180>>, <<\h1b10a3, \h980>>, 128>>,
  <<<<\h1b10a9, \h980>>, <<\h1b10a7, \h980>>, 128>>,
  <<<<\h1b10b7, \h480>>, <<\h1b10b4, \h880>>, 128>>,
  <<<<\h1b10b2, \h980>>, <<\h1b10b0, \h980>>, 128>>,
  <<<<\h1b10b5, \h480>>, <<\h1b10b3, \h80>>, 128>>,
  <<<<\h1b10b5, \hd80>>, <<\h1b10af, \h980>>, 128>>,
  <<<<\h1b10b7, \h80>>, <<\h1b10b3, \hc80>>, 128>>,
  <<<<\h1b10b2, \h480>>, <<\h1b10b1, \hc80>>, 128>>,
  <<<<\h1b10b6, \h580>>, <<\h1b10b2, \h580>>, 128>>,
  <<<<\h1b10a6, \h980>>, <<\h1b10a3, \hd80>>, 128>>,
  <<<<\h1b10a9, \h580>>, <<\h1b10a4, \h580>>, 128>>,
  <<<<\h1b10b5, \h980>>, <<\h1b10b5, \h180>>, 128>>,
  <<<<\h1b10b7, \h180>>, <<\h1b10b5, \h180>>, 128>>,
  <<<<\h1b10a8, \h980>>, <<\h1b10a7, \hd80>>, 128>>,
  <<<<\h1b10ab, \h180>>, <<\h1b10a7, \hd80>>, 128>>,
  <<<<\h1a12c6, \ha80>>, <<\h1a12c3, \h140>>, 32>>,
  <<<<\h1a12cd, \haa0>>, <<\h1a12bf, \hb80>>, 32>>,
  <<<<\h1a12d0, \haa0>>, <<\h1a12cf, \h5e0>>, 32>>,
  <<<<\h1a12d4, \h460>>, <<\h1a12cc, \h1a0>>, 96>>,
  <<<<\h1a12d4, \h620>>, <<\h1a12cc, \h360>>, 32>>,
  <<<<\h1a12d4, \h680>>, <<\h1a12cc, \h3c0>>, 32>>,
  <<<<\h1a12d4, \h6e0>>, <<\h1a12cc, \h420>>, 32>>,
  <<<<\h1a12d4, \h940>>, <<\h1a12cc, \h680>>, 32>>,
  <<<<\h1a12d4, \h9a0>>, <<\h1a12cc, \h6e0>>, 32>>,
  <<<<\h1a12d4, \ha60>>, <<\h1a12cc, \h7a0>>, 32>>,
  <<<<\h1a12d8, \h660>>, <<\h1a12cd, \ha40>>, 32>>,
  <<<<\h1a12d8, \h6a0>>, <<\h1a12cd, \ha80>>, 32>>,
  <<<<\h1a12d8, \h6c0>>, <<\h1a12c3, \h140>>, 32>>,
  <<<<\h1a130c, \h180>>, <<\h1a1307, \h5a0>>, 96>>,
  <<<<\h1a1315, \h1a0>>, <<\h1a1308, \h5c0>>, 32>>,
  <<<<\h1b10a3, \h180>>, <<\h1b10a3, \ha0>>, 32>>,
  <<<<\h1b10a3, \h320>>, <<\h1b10a3, \ha0>>, 32>>,
  <<<<\h1b10a3, \h560>>, <<\h1b10a3, \h480>>, 32>>,
  <<<<\h1b10a3, \h6a0>>, <<\h1b10a3, \ha0>>, 32>>,
  <<<<\h1b10a3, \h780>>, <<\h1b10a3, \h4e0>>, 32>>,
  <<<<\h1b10a5, \h120>>, <<\h1b10a3, \h920>>, 96>>,
  <<<<\h1b10a5, \h200>>, <<\h1b10a3, \ha00>>, 32>>,
  <<<<\h1b10a6, \h920>>, <<\h1b10a3, \hd20>>, 96>>,
  <<<<\h1b10a6, \ha00>>, <<\h1b10a3, \he00>>, 32>>,
  <<<<\h1b10a8, \h920>>, <<\h1b10a7, \hd20>>, 96>>,
  <<<<\h1b10a8, \ha00>>, <<\h1b10a7, \he00>>, 32>>,
  <<<<\h1b10a9, \h520>>, <<\h1b10a4, \h520>>, 96>>,
  <<<<\h1b10a9, \h600>>, <<\h1b10a4, \h600>>, 32>>,
  <<<<\h1b10a9, \h920>>, <<\h1b10a7, \h920>>, 96>>,
  <<<<\h1b10a9, \ha00>>, <<\h1b10a7, \ha00>>, 32>>,
  <<<<\h1b10ab, \h120>>, <<\h1b10a7, \hd20>>, 96>>,
  <<<<\h1b10ab, \h200>>, <<\h1b10a7, \he00>>, 32>>,
  <<<<\h1b10ac, \h120>>, <<\h1b10a3, \h920>>, 96>>,
  <<<<\h1b10ac, \h200>>, <<\h1b10a3, \ha00>>, 32>>,
  <<<<\h1b10b0, \h360>>, <<\h1b10af, \hba0>>, 32>>,
  <<<<\h1b10b0, \h3a0>>, <<\h1b10af, \hb60>>, 32>>,
  <<<<\h1b10b0, \h3e0>>, <<\h1b10af, \hc20>>, 32>>,
  <<<<\h1b10b0, \h420>>, <<\h1b10af, \hbe0>>, 32>>,
  <<<<\h1b10b1, \h60>>, <<\h1b10af, \h860>>, 32>>,
  <<<<\h1b10b1, \h100>>, <<\h1b10af, \h900>>, 64>>,
  <<<<\h1b10b1, \h260>>, <<\h1b10b0, \h6e0>>, 96>>,
  <<<<\h1b10b1, \h2e0>>, <<\h1b10b0, \h660>>, 96>>,
  <<<<\h1b10b1, \h560>>, <<\h1b10b0, \h9e0>>, 96>>,
  <<<<\h1b10b1, \h5e0>>, <<\h1b10b0, \h960>>, 96>>,
  <<<<\h1b10b1, \h960>>, <<\h1b10b0, \hd60>>, 32>>,
  <<<<\h1b10b1, \ha00>>, <<\h1b10b0, \he00>>, 64>>,
  <<<<\h1b10b2, \h460>>, <<\h1b10b1, \hc60>>, 32>>,
  <<<<\h1b10b2, \h500>>, <<\h1b10b1, \hd00>>, 64>>,
  <<<<\h1b10b2, \h960>>, <<\h1b10b0, \h960>>, 32>>,
  <<<<\h1b10b2, \ha00>>, <<\h1b10b0, \ha00>>, 64>>,
  <<<<\h1b10b3, \h60>>, <<\h1b10b2, \hce0>>, 32>>,
  <<<<\h1b10b3, \h100>>, <<\h1b10b2, \hc80>>, 64>>,
  <<<<\h1b10b3, \h360>>, <<\h1b10b0, \hfa0>>, 32>>,
  <<<<\h1b10b3, \h3a0>>, <<\h1b10b0, \hf60>>, 32>>,
  <<<<\h1b10b3, \h3e0>>, <<\h1b10b1, \h20>>, 32>>,
  <<<<\h1b10b3, \h420>>, <<\h1b10b0, \hfe0>>, 32>>,
  <<<<\h1b10b3, \h660>>, <<\h1b10af, \hee0>>, 96>>,
  <<<<\h1b10b3, \h6e0>>, <<\h1b10af, \he60>>, 96>>,
  <<<<\h1b10b3, \ha60>>, <<\h1b10b1, \h6a0>>, 32>>,
  <<<<\h1b10b3, \haa0>>, <<\h1b10b1, \h660>>, 32>>,
  <<<<\h1b10b3, \hae0>>, <<\h1b10b1, \h720>>, 32>>,
  <<<<\h1b10b3, \hb20>>, <<\h1b10b1, \h6e0>>, 32>>,
  <<<<\h1b10b4, \h160>>, <<\h1b10b0, \hd60>>, 32>>,
  <<<<\h1b10b4, \h200>>, <<\h1b10b0, \he00>>, 64>>,
  <<<<\h1b10b4, \h660>>, <<\h1b10b0, \h2a0>>, 32>>,
  <<<<\h1b10b4, \h6a0>>, <<\h1b10b0, \h260>>, 32>>,
  <<<<\h1b10b4, \h6e0>>, <<\h1b10b0, \h320>>, 32>>,
  <<<<\h1b10b4, \h720>>, <<\h1b10b0, \h2e0>>, 32>>,
  <<<<\h1b10b5, \h460>>, <<\h1b10b2, \hce0>>, 32>>,
  <<<<\h1b10b5, \h500>>, <<\h1b10b2, \hc80>>, 64>>,
  <<<<\h1b10b5, \h560>>, <<\h1b10b4, \h9a0>>, 32>>,
  <<<<\h1b10b5, \h5a0>>, <<\h1b10b4, \h960>>, 32>>,
  <<<<\h1b10b5, \h5e0>>, <<\h1b10b4, \ha20>>, 32>>,
  <<<<\h1b10b5, \h620>>, <<\h1b10b4, \h9e0>>, 32>>,
  <<<<\h1b10b5, \h660>>, <<\h1b10af, \h2e0>>, 96>>,
  <<<<\h1b10b5, \h6e0>>, <<\h1b10af, \h260>>, 96>>,
  <<<<\h1b10b5, \h960>>, <<\h1b10b5, \h160>>, 32>>,
  <<<<\h1b10b5, \ha00>>, <<\h1b10b5, \h200>>, 64>>,
  <<<<\h1b10b5, \hd60>>, <<\h1b10af, \h960>>, 32>>,
  <<<<\h1b10b5, \he00>>, <<\h1b10af, \ha00>>, 64>>,
  <<<<\h1b10b6, \h60>>, <<\h1b10b1, \h8e0>>, 96>>,
  <<<<\h1b10b6, \he0>>, <<\h1b10b1, \h860>>, 96>>,
  <<<<\h1b10b6, \h460>>, <<\h1b10b5, \h8e0>>, 96>>,
  <<<<\h1b10b6, \h4e0>>, <<\h1b10b5, \h860>>, 96>>,
  <<<<\h1b10b6, \h560>>, <<\h1b10b2, \h560>>, 32>>,
  <<<<\h1b10b6, \h600>>, <<\h1b10b2, \h600>>, 64>>,
  <<<<\h1b10b6, \h660>>, <<\h1b10b0, \hea0>>, 32>>,
  <<<<\h1b10b6, \h6a0>>, <<\h1b10b0, \he60>>, 32>>,
  <<<<\h1b10b6, \h6e0>>, <<\h1b10b0, \hf20>>, 32>>,
  <<<<\h1b10b6, \h720>>, <<\h1b10b0, \hee0>>, 32>>,
  <<<<\h1b10b6, \h760>>, <<\h1b10b1, \h3e0>>, 96>>,
  <<<<\h1b10b6, \h7e0>>, <<\h1b10b1, \h360>>, 96>>,
  <<<<\h1b10b6, \h960>>, <<\h1b10af, \h5a0>>, 32>>,
  <<<<\h1b10b6, \h9a0>>, <<\h1b10af, \h560>>, 32>>,
  <<<<\h1b10b6, \h9e0>>, <<\h1b10af, \h620>>, 32>>,
  <<<<\h1b10b6, \ha20>>, <<\h1b10af, \h5e0>>, 32>>,
  <<<<\h1b10b6, \ha60>>, <<\h1b10af, \haa0>>, 32>>,
  <<<<\h1b10b6, \haa0>>, <<\h1b10af, \ha60>>, 32>>,
  <<<<\h1b10b6, \hae0>>, <<\h1b10af, \hb20>>, 32>>,
  <<<<\h1b10b6, \hb20>>, <<\h1b10af, \hae0>>, 32>>,
  <<<<\h1b10b7, \h60>>, <<\h1b10b3, \hc60>>, 32>>,
  <<<<\h1b10b7, \h100>>, <<\h1b10b3, \hd00>>, 64>>,
  <<<<\h1b10b7, \h160>>, <<\h1b10b5, \h160>>, 32>>,
  <<<<\h1b10b7, \h200>>, <<\h1b10b5, \h200>>, 64>>,
  <<<<\h1b10b7, \h260>>, <<\h1b10af, \h6a0>>, 32>>,
  <<<<\h1b10b7, \h2a0>>, <<\h1b10af, \h660>>, 32>>,
  <<<<\h1b10b7, \h2e0>>, <<\h1b10af, \h720>>, 32>>,
  <<<<\h1b10b7, \h320>>, <<\h1b10af, \h6e0>>, 32>>,
  <<<<\h1b10b7, \h460>>, <<\h1b10b4, \h860>>, 32>>,
  <<<<\h1b10b7, \h500>>, <<\h1b10b4, \h900>>, 64>>,
  <<<<\h1b10b7, \h760>>, <<\h1b10b1, \hc20>>, 32>>,
  <<<<\h1b10b7, \h7a0>>, <<\h1b10b1, \hbe0>>, 32>>,
  <<<<\h1b10b7, \h7e0>>, <<\h1b10b1, \hba0>>, 32>>,
  <<<<\h1b10b7, \h820>>, <<\h1b10b1, \hb60>>, 32>>>>
=============================================================================
