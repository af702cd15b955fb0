---------------------------- MODULE MCRetrieval ----------------------------
(* A small instance: an incident in up to two chunks, and the write-up of  *)
(* an investigation of it, in one.                                         *)
EXTENDS Retrieval

Line(kind, pieces) == [kind |-> kind, level |-> 0, pieces |-> pieces]
Text(p) == Line("text", <<p>>)
Heading(level, p) == [Line("heading", <<p>>) EXCEPT !.level = level]
Blank == Line("blank", <<>>)
Fence(mark) == Line(mark, <<>>)

MCSize == (1 :> 2) @@ (2 :> 4) @@ (3 :> 1) @@ (4 :> 3) @@ (5 :> 1)

MCWritten ==
    (1 :> {<<Text(2), Blank, Text(3), Heading(2, 5),
             Fence("backticks"), Text(4), Fence("backticks")>>,
           <<Text(4), Blank, Text(1), Fence("backticks"), Fence("tildes"), Blank, Text(4)>>,
           <<Line("text", <<4, 3>>), Line("text", <<2>>)>>,
           <<Heading(2, 5), Text(1), Blank, Text(4)>>,
           <<Text(1), Line("item", <<1>>), Blank, Text(1)>>})
    @@ (2 :> {<<Heading(2, 5), Text(1)>>})

Says(type, value) == <<type, value>>
Name(value) == Says("text", value)

(* The second says nothing of a service.                                   *)
MCColumns ==
    (1 :> ("service" :> Name("orders") @@ "external_id" :> Name("INC-1")))
    @@ (2 :> ("service" :> Null @@ "external_id" :> Name("INC-1")))

MCFrontMatter ==
    (1 :> ("reviewed" :> Name("true") @@ "investigation_minutes" :> Name("47")))
    @@ (2 :> ("reviewed" :> Name("false")))

MCRequests ==
    {<<>>,
     "investigation_minutes" :> {Says("number", "47")},
     "reviewed" :> {Says("boolean", "false"), Name("no")},
     "service" :> {Name("orders"), Name("payments"), Null}
         @@ "reviewed" :> {Says("boolean", "false")},
     "service" :> {Null},
     "service" :> {Name("orders"), Says("array", "[]")},
     "" :> {Name("orders")}}

MCIncidentOf == (1 :> "INC-1") @@ (2 :> "INC-1")
============================================================================
