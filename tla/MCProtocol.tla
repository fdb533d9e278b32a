------------------------------ MODULE MCProtocol ------------------------------
(* All 256 settings bitmaps; the bytes at every boundary of the UTF-8 table in *)
(* texts of up to four; names of up to four bytes where three are allowed.     *)
EXTENDS Protocol

\* "-", "--", "?" and "n/a"
MCPlaceholders == {<<45>>, <<45, 45>>, <<63>>, <<110, 47, 97>>}

MCStatusReports ==
  [status : {0, 1, 2, 4, 16, 23, 255}, soc : {0, 100, 101},
   powers : {<<0, 1, 256>>, <<255, 65535, 0>>, <<513, 32768, 1>>}]

MCSettingsReports ==
  {[flags |-> flags, eco_time |-> 6, hardware |-> \h12, firmware |-> \h9A] :
     flags \in Byte}
  \cup {[flags |-> flags, eco_time |-> hours, hardware |-> 0, firmware |-> 0] :
          flags \in {0, 255}, hours \in {0, 1}}
  \cup {[flags |-> 1, eco_time |-> 6, hardware |-> 16 * high + low,
          firmware |-> 16 * low + high] :
          high \in {0, 9, 10, 15}, low \in {0, 9, 10, 15}}

MCStationNames ==
  {<<>>, <<\h52>>, <<\hC3, \hB1>>, <<\hC3>>, <<\h52, \hC3, \hB1>>,
   <<\h52, \h36, \h30, \h30>>}

\* For names: tab, space, a control, "-", "/", "A", "N", DEL and the bytes of C1
\* controls and of U+00A0.
MCAlphabet ==
  [name |-> {\h09, \h20, \h1F, \h2D, \h2F, \h41, \h4E, \h7F, \hC2, \h9F, \hA0},
   text |-> {\h00, \h7F, \h80, \h8F, \h90, \h9F, \hA0, \hBF, \hC1, \hC2, \hDF,
             \hE0, \hE1, \hED, \hEF, \hF0, \hF1, \hF4, \hF5, \hFF}]

MCMaxText == [name |-> 4, text |-> 4]
=============================================================================
