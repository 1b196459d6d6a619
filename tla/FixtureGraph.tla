---------------------------- MODULE FixtureGraph ----------------------------
(***************************************************************************)
(* The language in which the fixture generators of scripts/contracts are   *)
(* modelled.  A generator loads documents, rewrites some members of some   *)
(* of them, computes digests of the result and puts those digests into     *)
(* other documents.  Three things decide whether its output is coherent:   *)
(* which members a statement rewrites, which documents it reads, and       *)
(* whether it reads them as they are now or through a descriptor that an   *)
(* earlier statement computed.  The rest (names, dates, layout) is left    *)
(* out.                                                                    *)
(*                                                                         *)
(* A document is <<kind, renderer, platform>>.  Its text is a function     *)
(* from the members a generator rewrites to a content, and a content is    *)
(* the set of source editions it was computed from, each with the checked- *)
(* in file it was read through (the source, or a projection such as the    *)
(* schema inventory): <<source, edition, file>>.  A digest is represented  *)
(* by the content of what was hashed, so two digests are told apart        *)
(* exactly when some edition behind them, or the way it came, differs.     *)
(*                                                                         *)
(* The memory of a running generator is a record:                          *)
(*   docs  the documents it holds                                          *)
(*   seal  the descriptors it has computed: document |-> content hashed    *)
(*   cas   the blobs registered: <<document, content>>                     *)
(***************************************************************************)
EXTENDS Naturals, Sequences, SequencesExt, TLC

CONSTANTS Renderers,      \* the renderers of the product release
          Platforms(_)    \* the platforms one renderer is built for

One(kind) == <<kind, "", "">>
PerRenderer(kind) == {<<kind, r, "">> : r \in Renderers}
PerPlatform(kind) == UNION {{<<kind, r, p>> : p \in Platforms(r)} : r \in Renderers}
Of(kind, d) == <<kind, d[2], "">>          \* the document of d's renderer
Beside(kind, d) == <<kind, d[2], d[3]>>    \* the document of d's renderer and platform

Join(f) == UNION {f[x] : x \in DOMAIN f}

(* What a document's bytes were computed from; {} for one not in memory. *)
Content(docs, d) == IF d \in DOMAIN docs THEN Join(docs[d]) ELSE {}

-----------------------------------------------------------------------------
(* A statement, or a group of statements on the same member: for every     *)
(* document of DOMAIN on, rewrite `part` from the documents on[d].         *)
Bytes(part, on) == [how |-> "bytes", part |-> part, on |-> on]  \* their text now
Cite(part, on)  == [how |-> "cite",  part |-> part, on |-> on]  \* their descriptors
(* Bytes of a source, kept in a projection that other documents read.      *)
Project(part, on) == [how |-> "project", part |-> part, on |-> on]
(* Compute the descriptor of a document and register its bytes as a blob.  *)
Seal(D) == [how |-> "seal", part |-> "", on |-> [d \in D |-> {}]]
(* A signature covers the document without its signature, and cites the    *)
(* policy and the schemas of the signing result it is wrapped in.          *)
Sign(on) == [how |-> "sign", part |-> "signature", on |-> on]
(* A document that repeats another one under a new name.                   *)
Copy(on) == [how |-> "copy", part |-> "", on |-> on]
(* A blob of another run, copied by the descriptor that run computed.      *)
Import(D) == << [how |-> "import", part |-> "", on |-> [d \in D |-> {}]] >>
(* A descriptor the document was loaded with: when its blob has not been   *)
(* registered by now, a synthetic one is registered in its place.          *)
Materialize(part, on) == [how |-> "materialize", part |-> part, on |-> on]

Text(docs, d) == IF d \in DOMAIN docs THEN docs[d] ELSE "text" :> {}
Synthetic(d, part) == <<<<"synthetic", d, part>>, {}>>
Unresolved(m, step, d) ==
  LET recorded == Text(m.docs, d)
  IN \/ step.part \notin DOMAIN recorded
     \/ \E e \in step.on[d] : <<e, recorded[step.part]>> \notin m.cas

Rewritten(m, step, d) ==
  LET now == Text(m.docs, d)
      bytes == UNION {Content(m.docs, e) : e \in step.on[d]}
      cited == UNION {m.seal[e] : e \in step.on[d] \cap DOMAIN m.seal}
  IN CASE step.how = "bytes" -> (step.part :> bytes) @@ now
       [] step.how = "project" -> (step.part :> {<<x[1], x[2], d>> : x \in bytes}) @@ now
       [] step.how = "cite"  -> (step.part :> cited) @@ now
       [] step.how = "sign"  ->
            ("signature" :> UNION {now[p] : p \in DOMAIN now \ {"signature"}} \cup bytes) @@ now
       [] step.how = "copy"  -> Text(m.docs, CHOOSE e \in step.on[d] : TRUE)
       [] step.how = "materialize" ->
            IF Unresolved(m, step, d) THEN (step.part :> {}) @@ now ELSE now

Perform(m, step) ==
  IF step.how = "seal"
  THEN LET sealed == [d \in DOMAIN step.on |-> Content(m.docs, d)]
       IN [m EXCEPT !.seal = sealed @@ m.seal,
                    !.cas = @ \cup {<<d, sealed[d]>> : d \in DOMAIN sealed}]
  ELSE IF step.how = "import"
  THEN [m EXCEPT !.cas = @ \cup {<<d, m.seal[d]>> : d \in DOMAIN step.on}]
  ELSE [m EXCEPT
          !.docs = [d \in DOMAIN step.on |-> Rewritten(m, step, d)] @@ m.docs,
          !.cas = IF step.how = "materialize"
                  THEN @ \cup {Synthetic(d, step.part) :
                                 d \in {e \in DOMAIN step.on : Unresolved(m, step, e)}}
                  ELSE @]

(* A generator is a sequence of statements, performed in their order.  The *)
(* sequence is split in halves so that evaluation nests log(n) deep.       *)
RECURSIVE Execute(_, _)
Execute(m, steps) ==
  LET half == Len(steps) \div 2
  IN IF Len(steps) = 1 THEN Perform(m, steps[1])
     ELSE CHOOSE after \in {Execute(mid, SubSeq(steps, half + 1, Len(steps))) :
                              mid \in {Execute(m, SubSeq(steps, 1, half))}} : TRUE
=============================================================================
