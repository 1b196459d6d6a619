---------------------------- MODULE MCJsonRebase ---------------------------
(***************************************************************************)
(* Rebase with the operations of JsonPatch below its two members,          *)
(* "x" and "0", the latter a legal name as well as an index.  Documents    *)
(* agree or differ in either member, lack one, and may be so large that an *)
(* operation fits into one of the two copies only.                         *)
(***************************************************************************)
EXTENDS RebasePatch, JsonLimits, TLC

Numerals == ("0" :> 0) @@ ("1" :> 1) @@ ("2" :> 2) @@ ("3" :> 3) @@ ("4" :> 4)
            @@ ("5" :> 5) @@ ("6" :> 6) @@ ("7" :> 7)

Pointers == {<<"x">>, <<"0">>, <<"x", "-">>, <<"x", "0">>, <<"x", "1">>, <<"x", "2">>,
             <<"x", "x">>, <<"x", "0", "x">>, <<"0", "0">>, <<"x", "-", "x">>}

\* Every pointer that can lead somewhere, and more: a document of depth four has none
\* longer than three.
MCPlaces == UNION {[1..n -> {"x", "0", "1", "2", "-"}] : n \in 0..3}

One == Scalar("one")
Two == Scalar("two")
Nested == Object("x" :> One)
Inner == {Nested, Array(<<Nested>>), Array(<<One, Two>>), Array(<<Array(<<Nested>>)>>),
          Array(<<Two, Two>>)}

MCMembers == {"x", "0"}
MCDocuments ==
    {("x" :> vx) @@ ("0" :> vy) :
        vx \in {NoValue, One} \cup (Inner \ {Array(<<Two, Two>>)}),
        vy \in {NoValue, Two, Array(<<Two, Two>>)}}
MCNewValues == {One, Two, Nested}
MCValues == {One, Two} \cup Inner \cup {AsObject(d) : d \in MCDocuments}

Operation(op, path, v) == [op |-> op, path |-> path, value |-> v]

MCBadPointer == {Operation("add", <<"x", "bad">>, One)}
MCBadValue == {Operation("remove", <<"0">>, One)}
MCOperations ==
    {Operation("add", <<"x">>, Nested), Operation("add", <<"0">>, Two),
     Operation("add", <<"x", "-">>, One), Operation("add", <<"x", "-">>, Nested),
     Operation("replace", <<"x">>, One), Operation("replace", <<"x", "x">>, Two),
     Operation("replace", <<"x", "1">>, Nested), Operation("replace", <<"x", "2">>, Two),
     Operation("replace", <<"x", "0", "x">>, Two),
     Operation("remove", <<"x">>, Two), Operation("remove", <<"x", "0">>, Two),
     Operation("remove", <<"0", "0">>, Two), Operation("remove", <<"x", "-", "x">>, Two)}
    \cup MCBadPointer \cup MCBadValue
MCMemberOf == [o \in MCOperations |-> o.path[1]]

None == [kind |-> "none"]
=============================================================================
