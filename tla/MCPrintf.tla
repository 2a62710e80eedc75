------------------------------ MODULE MCPrintf ------------------------------
(***************************************************************************)
(* Formats of up to three parts, an ordinary character or a conversion     *)
(* each, a broken one included; words of seven bits with ints of five, so  *)
(* that three places overflow as the real twenty do; every status of the   *)
(* table, the bare EFI_ERROR and codes the table does not have; memory     *)
(* maps of up to three descriptors, with a type the table does not have,   *)
(* pages that overflow a word and totals that overrun the three places.    *)
(***************************************************************************)
EXTENDS MemoryMap

Parts ==
  {<<"a">>, <<"%">>, <<"%", "a">>, <<"%", "c">>, <<"%", "d">>, <<"%", "o">>,
   <<"%", "s">>, <<"%", "x">>, <<"%", "z", "u">>, <<"%", "z">>}

MCFormats == {f \o g \o h : f \in Parts \cup {<< >>}, g \in Parts, h \in Parts}

MCWords == {0, 15, 16, 99, 127}
MCArguments == {<<v, w, v>> : v \in MCWords, w \in MCWords}

MCCalls == MCFormats \X MCArguments
MCStatuses == Defined \cup [error: BOOLEAN, code: {0, 40}]
MCLineNumbers == {0, 11}

MCDescriptors == [type: {0, 7, 16}, pages: {1, 14, 16}] \cup {[type |-> 17, pages |-> 1]}
MCMaps == UNION {[1..n -> MCDescriptors] : n \in 0..3}
MCDescriptorSizes == {2, 3}
=============================================================================
