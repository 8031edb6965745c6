---------------------------- MODULE MCSheetSync ----------------------------
(***************************************************************************)
(* Instances of SheetSync for TLC: three endpoints, sheets in every layout *)
(* auditLayout tells apart.                                                *)
(***************************************************************************)
EXTENDS SheetSync

CONSTANTS a, b, c, yes, no, i1, i2, mine, yours

Endpoint(k, v, i) == [key |-> k, value |-> v, info |-> i]

SomeAudits ==
    {<<>>,
     <<Endpoint(a, yes, i1), Endpoint(b, no, i1)>>,
     <<Endpoint(b, yes, i2), Endpoint(a, yes, i1), Endpoint(c, no, i1)>>,
     <<Endpoint(c, no, i1), Endpoint(a, no, i2)>>,
     <<Endpoint(a, yes, i1), Endpoint(a, no, i1)>>}

(* Two figures: the endpoints with the value yes, those with the info i2.  *)
Figures == {{yes} \X {i1, i2, NA}, {yes, no, NA} \X {i2}}

HeaderRow == [BlankRow EXCEPT !.header = TRUE]
Body(k, v, n) == [header |-> FALSE, key |-> k, value |-> v, info |-> i1, log |-> 0, note |-> n]

Empty       == <<>>
HeaderFirst == <<HeaderRow, Body(a, yes, mine), Body(b, no, yours)>>
Headless    == <<Body(b, no, yours), Body(a, NA, mine)>>
Preamble    == <<BlankRow, [BlankRow EXCEPT !.note = mine], HeaderRow,
                 Body(c, no, mine), Body(a, yes, Blank), Body(c, no, yours), Body(b, yes, mine)>>

Layouts == {Empty, HeaderFirst, Headless, Preamble}

Runs == Permutations(Run)
=============================================================================
