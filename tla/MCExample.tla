----------------------------- MODULE MCExample -----------------------------
(* Example with arrays of four and two characters, a header of two bytes   *)
(* and numbers of six bits; a service that knows nobody, the speaker, or   *)
(* the speaker with an old speech; and parameters set to shorter and       *)
(* longer values, to a full array, twice, to a number and to no key.       *)
EXTENDS Example

CONSTANTS g1, n1, old, new, x, y

MCFileSizes == {-1, 0, 1, 2, 3, 6}

MCServes == [t \in Thread |-> Group \X Name]

MCParamSize == [key \in TextParams |-> IF key = "version" THEN 2 ELSE 4]

Text(size, value) ==
  [i \in 1 .. size |-> IF i <= Len(value) THEN value[i] ELSE ParamNul]

MCDefaults ==
  [key \in TextParams \cup {"type"} |->
     IF key = "type" THEN 0 ELSE Text(MCParamSize[key], IF key = "version"
                                                        THEN <<x>> ELSE <<x, x, x>>)]

MCSettings ==
  {<<<<"host", <<y>>>>, <<"version", <<y>>>>>>,
   <<<<"host", <<x, y, x, y>>>>, <<"host", <<y, y>>>>, <<"type", 200>>>>,
   <<<<"host", <<x, y, x, y, x>>>>, <<"version", <<x, y>>>>, <<"colour", <<x>>>>>>}

Known == [EmptyDatabase EXCEPT !.persons = {<<g1, n1>>}]
Recorded == WithSpeeches(Known, <<g1, n1>>, <<old>>)

MCDatabases == {EmptyDatabase, Known, Recorded, WithModel(Recorded, <<g1, n1>>),
                WithSpeeches(Known, <<g1, n1>>, <<new>>)}
=============================================================================
