-------------------------- MODULE Manifest_proofs --------------------------
(***************************************************************************)
(* A walk over the manifest pays for a COMMIT that raises with at most one *)
(* more entry, stores all it can when nothing disturbs it, and implements  *)
(* the knowledge base with one atomic effect per entry: for every number   *)
(* of walks, entries, sources and faults.                                  *)
(***************************************************************************)
EXTENDS Manifest, TLAPS

\* Where a walk is decides what its locals hold, and the entries it has not
\* come to are pending.
Located ==
  \A w \in Walks :
    /\ pc[w] \in {"lookup", "settle"} =>
         index[w] <= last[w] /\ Source(w) \in Sources /\ text[w] \in Texts
    /\ pc[w] = "settle" => Publishable(text[w])
    /\ pc[w] # "done" => \A e \in Entries : index[w] <= e => result[w][e] = "pending"
    /\ pc[w] = "idle" => \A e \in Entries : result[w][e] = "pending"

TypeInv == TypeOK /\ Located

\* The last entry that reached the database was the one whose COMMIT raised.
StuckAfterBroken ==
  \A w \in Walks :
    session[w] = "stuck" =>
      \E b \in 1 .. index[w] - 1 :
        /\ result[w][b] = "broken"
        /\ \A i \in b + 1 .. index[w] - 1 : result[w][i] \notin ReachedDatabase

\* A calm walk is alone, and what it has read is still so.
Undisturbed ==
  \A w \in Walks :
    calm[w] /\ Running(w) =>
      /\ session[w] = "closed"
      /\ \A v \in Walks \ {w} : ~ Running(v)
      /\ pc[w] \in {"lookup", "settle"} => text[w] = content[index[w]]
      /\ pc[w] = "settle" => seen[w] = stored[Source(w)]

-----------------------------------------------------------------------------
\* Types and places.

\* The current entry of a walk that looks at one.
LEMMA Current ==
  ASSUME TypeInv, NEW w \in Walks, index[w] <= last[w]
  PROVE  /\ index[w] \in Entries /\ index[w] + 1 \in 1 .. Size + 1
         /\ Source(w) \in Sources \cup {Malformed}
<1>1. Size \in Nat /\ index[w] \in 1 .. Size + 1 /\ last[w] \in 1 .. Size
  BY ManifestAssumption DEF TypeInv, TypeOK, Entries
<1>2. manifest \in [Entries -> Sources \cup {Malformed}]
  BY ManifestAssumption DEF TypeInv, TypeOK
<1>3. index[w] \in Entries
  BY <1>1 DEF Entries
<1> QED BY <1>1, <1>2, <1>3 DEF Source

\* Counting an entry keeps the locals in shape.
LEMMA RecordType ==
  ASSUME TypeInv, NEW w \in Walks, index[w] <= last[w], pc[w] # "done",
         NEW r \in Stored \cup Failed, Record(w, r),
         manifest' = manifest, content' \in [Entries -> Texts \cup {Unreadable}],
         stored' \in [Sources -> {c \in Texts : Publishable(c)} \cup {NoText}],
         session' \in [Walks -> {"closed", "stuck"}],
         faults' \in 0 .. MaxFaults, calm' \in [Walks -> BOOLEAN]
  PROVE  TypeInv'
<1>1. TypeOK'
  <2>1. index' \in [Walks -> 1 .. Size + 1]
    BY Current DEF TypeInv, TypeOK, Record
  <2>2. result' \in [Walks -> [Entries -> Stored \cup Failed \cup {"pending"}]]
    BY Current DEF TypeInv, TypeOK, Record
  <2> QED BY <2>1, <2>2 DEF TypeInv, TypeOK, Record
<1>2. Located'
  <2> SUFFICES ASSUME NEW v \in Walks
               PROVE  /\ pc'[v] \in {"lookup", "settle"} =>
                           /\ index'[v] <= last'[v] /\ Source(v)' \in Sources
                           /\ text'[v] \in Texts
                      /\ pc'[v] = "settle" => Publishable(text'[v])
                      /\ pc'[v] # "done" => \A e \in Entries :
                           index'[v] <= e => result'[v][e] = "pending"
                      /\ pc'[v] = "idle" => \A e \in Entries : result'[v][e] = "pending"
    BY DEF Located, Publishable
  <2>1. CASE v = w
    <3>1. pc'[v] = "entry" /\ index'[v] = index[v] + 1
      BY <2>1 DEF Record, TypeInv, TypeOK
    <3>2. \A e \in Entries : e # index[w] => result'[v][e] = result[v][e]
      BY <2>1 DEF Record, TypeInv, TypeOK
    <3>3. \A e \in Entries : index[w] + 1 <= e => e # index[w] /\ index[w] <= e
      BY Current DEF Entries
    <3>4. pc[w] # "done" => \A e \in Entries : index[w] + 1 <= e => result[w][e] = "pending"
      BY <3>3 DEF TypeInv, Located
    <3> QED BY <2>1, <3>1, <3>2, <3>3, <3>4
  <2>2. CASE v # w
    BY <2>2 DEF TypeInv, TypeOK, Located, Record, Source
  <2> QED BY <2>1, <2>2
<1> QED BY <1>1, <1>2 DEF TypeInv

\* Leaving a walk keeps the locals in shape.
LEMMA LeaveType ==
  ASSUME TypeInv, NEW w \in Walks,
         NEW r \in {"200", "500", "0", "1", "2", "3", "died"}, Leave(w, r),
         UNCHANGED <<world, stored, index, last, faults, calm>>,
         result' \in [Walks -> [Entries -> Stored \cup Failed \cup {"pending"}]],
         \A v \in Walks \ {w} : result'[v] = result[v]
  PROVE  TypeInv'
<1>1. TypeOK'
  BY DEF TypeInv, TypeOK, Leave, world
<1>2. Located'
  <2> SUFFICES ASSUME NEW v \in Walks
               PROVE  /\ pc'[v] \in {"lookup", "settle"} =>
                           /\ index'[v] <= last'[v] /\ Source(v)' \in Sources
                           /\ text'[v] \in Texts
                      /\ pc'[v] = "settle" => Publishable(text'[v])
                      /\ pc'[v] # "done" => \A e \in Entries :
                           index'[v] <= e => result'[v][e] = "pending"
                      /\ pc'[v] = "idle" => \A e \in Entries : result'[v][e] = "pending"
    BY DEF Located, Publishable
  <2>1. CASE v = w
    BY <2>1 DEF TypeInv, TypeOK, Leave
  <2>2. CASE v # w
    BY <2>2 DEF TypeInv, TypeOK, Located, Leave, Source, world
  <2> QED BY <2>1, <2>2
<1> QED BY <1>1, <1>2 DEF TypeInv

\* Faults are counted and end the calm; other steps keep both.
LEMMA Counted ==
  ASSUME TypeInv, Fault \/ NoFault
  PROVE  faults' \in 0 .. MaxFaults /\ calm' \in [Walks -> BOOLEAN]
<1>1. faults \in 0 .. MaxFaults /\ calm \in [Walks -> BOOLEAN] /\ MaxFaults \in Nat
  BY ManifestAssumption DEF TypeInv, TypeOK
<1>2. CASE NoFault
  BY <1>1, <1>2 DEF NoFault
<1>3. CASE Fault
  <2>1. faults < MaxFaults /\ faults' = faults + 1 /\ calm' = [w \in Walks |-> FALSE]
    BY <1>3 DEF Fault
  <2>2. calm' \in [Walks -> BOOLEAN]
    BY <2>1
  <2> QED BY <1>1, <2>1, <2>2
<1> QED BY <1>2, <1>3

\* What is published is a text with chunks.
LEMMA PublishType ==
  ASSUME TypeInv, NEW w \in Walks, pc[w] = "settle", Publish(w)
  PROVE  stored' \in [Sources -> {c \in Texts : Publishable(c)} \cup {NoText}]
  BY DEF TypeInv, TypeOK, Located, Publish

\* A step that changes the place of one walk, and its locals with it.
LEMMA MoveType ==
  ASSUME TypeInv, NEW w \in Walks,
         UNCHANGED <<manifest, stored, result, session, reply>>,
         content' \in [Entries -> Texts \cup {Unreadable}],
         pc' \in [Walks -> {"idle", "entry", "lookup", "settle", "done"}],
         index' \in [Walks -> 1 .. Size + 1], last' \in [Walks -> Entries],
         text' \in [Walks -> Texts \cup {NoText}], seen' \in [Walks -> Texts \cup {NoText}],
         faults' \in 0 .. MaxFaults, calm' \in [Walks -> BOOLEAN],
         \A v \in Walks \ {w} : /\ pc'[v] = pc[v] /\ index'[v] = index[v]
                                /\ last'[v] = last[v] /\ text'[v] = text[v],
         pc'[w] \in {"lookup", "settle"} =>
           /\ index'[w] <= last'[w] /\ manifest[index'[w]] \in Sources /\ text'[w] \in Texts,
         pc'[w] = "settle" => Publishable(text'[w]),
         \A e \in Entries : index'[w] <= e => result[w][e] = "pending",
         pc'[w] # "idle"
  PROVE  TypeInv'
<1>1. TypeOK'
  BY DEF TypeInv, TypeOK
<1>2. Located'
  <2> SUFFICES ASSUME NEW v \in Walks
               PROVE  /\ pc'[v] \in {"lookup", "settle"} =>
                           /\ index'[v] <= last'[v] /\ Source(v)' \in Sources
                           /\ text'[v] \in Texts
                      /\ pc'[v] = "settle" => Publishable(text'[v])
                      /\ pc'[v] # "done" => \A e \in Entries :
                           index'[v] <= e => result'[v][e] = "pending"
                      /\ pc'[v] = "idle" => \A e \in Entries : result'[v][e] = "pending"
    BY DEF Located, Publishable
  <2>1. CASE v = w
    BY <2>1 DEF Source
  <2>2. CASE v # w
    BY <2>2 DEF TypeInv, TypeOK, Located, Source
  <2> QED BY <2>1, <2>2
<1> QED BY <1>1, <1>2 DEF TypeInv

\* The first states.
LEMMA InitialType == Init => TypeInv
<1> SUFFICES ASSUME Init PROVE TypeInv
  OBVIOUS
<1>1. 1 \in 1 .. Size + 1 /\ Size \in Entries /\ 0 \in 0 .. MaxFaults
  BY ManifestAssumption DEF Entries
<1>2. TypeOK
  <2>1. content \in [Entries -> Texts \cup {Unreadable}]
    BY ManifestAssumption DEF Init
  <2> QED BY <1>1, <2>1 DEF Init, TypeOK
<1>3. Located
  BY DEF Init, Located
<1> QED BY <1>2, <1>3 DEF TypeInv

\* Every step keeps types and places.
LEMMA TypeStep ==
  ASSUME TypeInv, [Next]_vars
  PROVE  TypeInv'
<1>1. ASSUME NEW w \in Walks, Start(w) PROVE TypeInv'
  <2>1. /\ pc' = [pc EXCEPT ![w] = "entry"] /\ pc[w] = "idle"
        /\ UNCHANGED <<manifest, content, stored, text, seen, session, result, reply, faults>>
        /\ calm' \in [Walks -> BOOLEAN]
    BY <1>1 DEF Start, world
  <2>2. \/ UNCHANGED <<index, last>>
        \/ \E e \in Entries : index' = [index EXCEPT ![w] = e] /\ last' = [last EXCEPT ![w] = e]
    BY <1>1 DEF Start
  <2>3. \A e \in Entries : result[w][e] = "pending"
    BY <2>1 DEF TypeInv, Located
  <2>4. index' \in [Walks -> 1 .. Size + 1] /\ last' \in [Walks -> Entries]
    <3>1. Entries \subseteq 1 .. Size + 1
      BY ManifestAssumption DEF Entries
    <3>2. CASE UNCHANGED <<index, last>>
      BY <3>2 DEF TypeInv, TypeOK
    <3>3. ASSUME NEW e \in Entries, index' = [index EXCEPT ![w] = e], last' = [last EXCEPT ![w] = e]
          PROVE  index' \in [Walks -> 1 .. Size + 1] /\ last' \in [Walks -> Entries]
      BY <3>1, <3>3 DEF TypeInv, TypeOK
    <3> QED BY <2>2, <3>2, <3>3
  <2>5. \A v \in Walks \ {w} : pc'[v] = pc[v] /\ index'[v] = index[v] /\ last'[v] = last[v]
    BY <2>1, <2>2 DEF TypeInv, TypeOK
  <2>6. pc' \in [Walks -> {"idle", "entry", "lookup", "settle", "done"}] /\ pc'[w] = "entry"
    BY <2>1 DEF TypeInv, TypeOK
  <2>7. /\ content' \in [Entries -> Texts \cup {Unreadable}]
        /\ text' \in [Walks -> Texts \cup {NoText}] /\ seen' \in [Walks -> Texts \cup {NoText}]
        /\ faults' \in 0 .. MaxFaults
        /\ \A v \in Walks \ {w} : text'[v] = text[v]
    BY <2>1 DEF TypeInv, TypeOK
  <2> QED BY <2>1, <2>3, <2>4, <2>5, <2>6, <2>7, MoveType
<1>2. ASSUME NEW w \in Walks, Unloadable(w) PROVE TypeInv'
  <2>1. Leave(w, Crash(w)) /\ NoFault /\ UNCHANGED <<world, stored, index, last, result>>
    BY <1>2 DEF Unloadable
  <2>2. Crash(w) \in {"200", "500", "0", "1", "2", "3", "died"}
    BY DEF Crash
  <2> QED BY <2>1, <2>2, LeaveType DEF NoFault, TypeInv, TypeOK
<1>3. ASSUME NEW w \in Walks, Skip(w) \/ FetchFails(w) PROVE TypeInv'
  <2>1. /\ pc[w] = "entry" /\ index[w] <= last[w] /\ Record(w, "unread")
        /\ UNCHANGED <<world, stored, session>> /\ (Fault \/ NoFault)
    BY <1>3 DEF Skip, FetchFails
  <2>2. "unread" \in Stored \cup Failed
    BY DEF Failed
  <2> QED BY <2>1, <2>2, Counted, RecordType DEF TypeInv, TypeOK, world
<1>4. ASSUME NEW w \in Walks, Read(w) PROVE TypeInv'
  <2>1. /\ pc[w] = "entry" /\ index[w] <= last[w] /\ manifest[index[w]] # Malformed
        /\ content[index[w]] # Unreadable
        /\ text' = [text EXCEPT ![w] = content[index[w]]]
        /\ pc' = [pc EXCEPT ![w] = "lookup"] /\ NoFault
        /\ UNCHANGED <<world, stored, index, last, seen, session, result, reply>>
    BY <1>4 DEF Read
  <2>2. index[w] \in Entries /\ manifest[index[w]] \in Sources
    BY <2>1, Current DEF Source
  <2>3. content[index[w]] \in Texts
    BY <2>1, <2>2 DEF TypeInv, TypeOK
  <2>4. /\ text' \in [Walks -> Texts \cup {NoText}] /\ text'[w] = content[index[w]]
        /\ pc' \in [Walks -> {"idle", "entry", "lookup", "settle", "done"}]
        /\ pc'[w] = "lookup"
        /\ \A v \in Walks \ {w} : text'[v] = text[v] /\ pc'[v] = pc[v]
    BY <2>1, <2>3 DEF TypeInv, TypeOK
  <2>5. \A e \in Entries : index[w] <= e => result[w][e] = "pending"
    BY <2>1 DEF TypeInv, Located
  <2>6. /\ UNCHANGED <<manifest, content, stored, index, last, seen, session, result, reply>>
        /\ faults' \in 0 .. MaxFaults /\ calm' \in [Walks -> BOOLEAN]
    BY <2>1, Counted DEF world
  <2>7. /\ content' \in [Entries -> Texts \cup {Unreadable}]
        /\ index' \in [Walks -> 1 .. Size + 1] /\ last' \in [Walks -> Entries]
        /\ seen' \in [Walks -> Texts \cup {NoText}]
        /\ \A v \in Walks \ {w} : index'[v] = index[v] /\ last'[v] = last[v]
    BY <2>6 DEF TypeInv, TypeOK
  <2>8. index'[w] <= last'[w] /\ manifest[index'[w]] \in Sources /\ text'[w] \in Texts
    BY <2>1, <2>2, <2>3, <2>4, <2>6
  <2>9. \A e \in Entries : index'[w] <= e => result[w][e] = "pending"
    BY <2>5, <2>6
  <2> QED BY <2>4, <2>6, <2>7, <2>8, <2>9, MoveType
<1>5. ASSUME NEW w \in Walks, LookUp(w) PROVE TypeInv'
  <2>1. /\ pc[w] = "lookup" /\ NoFault /\ UNCHANGED <<world, stored>>
        /\ index[w] <= last[w] /\ Source(w) \in Sources /\ text[w] \in Texts
    BY <1>5 DEF LookUp, TypeInv, Located
  <2>2. CASE /\ Publishable(text[w]) \/ stored[Source(w)] = text[w]
             /\ seen' = [seen EXCEPT ![w] = stored[Source(w)]]
             /\ pc' = [pc EXCEPT ![w] = "settle"]
             /\ UNCHANGED <<index, last, text, session, result, reply>>
    <3>1. stored[Source(w)] \in {c \in Texts : Publishable(c)} \cup {NoText}
      BY <2>1 DEF TypeInv, TypeOK
    <3>2. Publishable(text[w])
      BY <2>1, <2>2, <3>1, ManifestAssumption
    <3>3. /\ seen' \in [Walks -> Texts \cup {NoText}]
          /\ pc' \in [Walks -> {"idle", "entry", "lookup", "settle", "done"}]
          /\ pc'[w] = "settle"
          /\ \A v \in Walks \ {w} : pc'[v] = pc[v]
      BY <2>2, <3>1 DEF TypeInv, TypeOK
    <3>4. \A e \in Entries : index[w] <= e => result[w][e] = "pending"
      BY <2>1 DEF TypeInv, Located
    <3>5. /\ UNCHANGED <<manifest, content, stored, index, last, text, session, result, reply>>
          /\ faults' \in 0 .. MaxFaults /\ calm' \in [Walks -> BOOLEAN]
      BY <2>1, <2>2, Counted DEF world
    <3>6. manifest[index[w]] \in Sources
      BY <2>1 DEF Source
    <3> QED BY <2>1, <3>2, <3>3, <3>4, <3>5, <3>6, MoveType DEF TypeInv, TypeOK
  <2>3. CASE Record(w, "empty") /\ Close(w)
    <3>1. "empty" \in Stored \cup Failed
      BY DEF Failed
    <3>2. session' \in [Walks -> {"closed", "stuck"}]
      BY <2>3 DEF TypeInv, TypeOK, Close
    <3> QED BY <2>1, <2>3, <3>1, <3>2, Counted, RecordType DEF TypeInv, TypeOK, world
  <2> QED BY <1>5, <2>2, <2>3 DEF LookUp
<1>6. ASSUME NEW w \in Walks, NEW r \in Stored \cup Failed,
             pc[w] \in {"lookup", "settle"}, Record(w, r),
             session' \in [Walks -> {"closed", "stuck"}],
             Fault \/ NoFault, manifest' = manifest, content' = content,
             stored' \in [Sources -> {c \in Texts : Publishable(c)} \cup {NoText}]
      PROVE  TypeInv'
  <2>1. index[w] <= last[w]
    BY <1>6 DEF TypeInv, Located
  <2> QED BY <1>6, <2>1, Counted, RecordType DEF TypeInv, TypeOK
<1>7. ASSUME NEW w \in Walks,
             \/ Spill(w) \/ Unchanged(w) \/ Ingest(w) \/ Conflict(w)
             \/ StatementFails(w) \/ CommitRaises(w)
      PROVE  TypeInv'
  <2>1. \A r \in {"spill", "unchanged", "ingested", "error", "broken"} : r \in Stored \cup Failed
    BY DEF Stored, Failed
  <2>2. /\ Close(w) => session' \in [Walks -> {"closed", "stuck"}]
        /\ session' = [session EXCEPT ![w] = "stuck"] =>
             session' \in [Walks -> {"closed", "stuck"}]
    BY DEF Close, TypeInv, TypeOK
  <2>3. CASE Spill(w)
    <3>1. /\ pc[w] \in {"lookup", "settle"} /\ Record(w, "spill")
          /\ Fault \/ NoFault
          /\ manifest' = manifest /\ content' = content
          /\ stored' = stored
          /\ Close(w)
      BY <2>3 DEF Spill, world
    <3>2. stored' \in [Sources -> {c \in Texts : Publishable(c)} \cup {NoText}]
      BY <3>1, PublishType DEF TypeInv, TypeOK
    <3> QED BY <1>6, <2>1, <2>2, <3>1, <3>2
  <2>4. CASE Unchanged(w)
    <3>1. /\ pc[w] \in {"lookup", "settle"} /\ Record(w, "unchanged")
          /\ Fault \/ NoFault
          /\ manifest' = manifest /\ content' = content
          /\ stored' = stored
          /\ Close(w)
      BY <2>4 DEF Unchanged, world
    <3>2. stored' \in [Sources -> {c \in Texts : Publishable(c)} \cup {NoText}]
      BY <3>1, PublishType DEF TypeInv, TypeOK
    <3> QED BY <1>6, <2>1, <2>2, <3>1, <3>2
  <2>5. CASE Ingest(w)
    <3>1. /\ pc[w] \in {"lookup", "settle"} /\ Record(w, "ingested")
          /\ Fault \/ NoFault
          /\ manifest' = manifest /\ content' = content
          /\ pc[w] = "settle" /\ Publish(w)
          /\ Close(w)
      BY <2>5 DEF Ingest, world
    <3>2. stored' \in [Sources -> {c \in Texts : Publishable(c)} \cup {NoText}]
      BY <3>1, PublishType DEF TypeInv, TypeOK
    <3> QED BY <1>6, <2>1, <2>2, <3>1, <3>2
  <2>6. CASE Conflict(w)
    <3>1. /\ pc[w] \in {"lookup", "settle"} /\ Record(w, "error")
          /\ Fault \/ NoFault
          /\ manifest' = manifest /\ content' = content
          /\ stored' = stored
          /\ Close(w)
      BY <2>6 DEF Conflict, world
    <3>2. stored' \in [Sources -> {c \in Texts : Publishable(c)} \cup {NoText}]
      BY <3>1, PublishType DEF TypeInv, TypeOK
    <3> QED BY <1>6, <2>1, <2>2, <3>1, <3>2
  <2>7. CASE StatementFails(w)
    <3>1. /\ pc[w] \in {"lookup", "settle"} /\ Record(w, "error")
          /\ Fault \/ NoFault
          /\ manifest' = manifest /\ content' = content
          /\ stored' = stored
          /\ Close(w)
      BY <2>7 DEF StatementFails, world
    <3>2. stored' \in [Sources -> {c \in Texts : Publishable(c)} \cup {NoText}]
      BY <3>1, PublishType DEF TypeInv, TypeOK
    <3> QED BY <1>6, <2>1, <2>2, <3>1, <3>2
  <2>8. CASE CommitRaises(w)
    <3>1. /\ pc[w] \in {"lookup", "settle"} /\ Record(w, "broken")
          /\ Fault \/ NoFault
          /\ manifest' = manifest /\ content' = content
          /\ session' = [session EXCEPT ![w] = "stuck"]
      BY <2>8 DEF CommitRaises, world
    <3>a. pc[w] = "settle" /\ (stored' = stored \/ Publish(w))
      BY <2>8 DEF CommitRaises
    <3>2. stored' \in [Sources -> {c \in Texts : Publishable(c)} \cup {NoText}]
      BY <3>a, PublishType DEF TypeInv, TypeOK
    <3> QED BY <1>6, <2>1, <2>2, <3>1, <3>2
  <2> QED BY <1>7, <2>3, <2>4, <2>5, <2>6, <2>7, <2>8
<1>8. ASSUME NEW w \in Walks, Finish(w) PROVE TypeInv'
  <2>1. NoFault /\ UNCHANGED <<world, stored, index, last, result>>
    BY <1>8 DEF Finish
  <2>2. \E r \in {"200", "500", "0", "1", "2", "3", "died"} : Leave(w, r)
    BY <1>8, ManifestAssumption DEF Finish
  <2> QED BY <2>1, <2>2, LeaveType DEF NoFault, TypeInv, TypeOK
<1>9. ASSUME NEW w \in Walks, Die(w) PROVE TypeInv'
  <2>1. Leave(w, "died") /\ NoFault /\ UNCHANGED <<world, stored, index, last>>
    BY <1>9 DEF Die
  <2>2. result' = result \/ result' = [result EXCEPT ![w][index[w]] = "error"]
    BY <1>9 DEF Die
  <2>3. /\ result' \in [Walks -> [Entries -> Stored \cup Failed \cup {"pending"}]]
        /\ \A v \in Walks \ {w} : result'[v] = result[v]
    <3>1. result \in [Walks -> [Entries -> Stored \cup Failed \cup {"pending"}]]
      BY DEF TypeInv, TypeOK
    <3>2. "error" \in Stored \cup Failed \cup {"pending"}
      BY DEF Failed
    <3> QED BY <2>2, <3>1, <3>2
  <2> QED BY <2>1, <2>3, LeaveType DEF NoFault
<1>10. ASSUME Edit PROVE TypeInv'
  <2>1. content' \in [Entries -> Texts \cup {Unreadable}]
    BY <1>10 DEF Edit, TypeInv, TypeOK
  <2>2. /\ UNCHANGED <<manifest, stored, pc, index, last, text, seen, session, result, reply>>
        /\ Fault
    BY <1>10 DEF Edit
  <2>3. TypeOK'
    BY <2>1, <2>2, Counted DEF TypeInv, TypeOK
  <2>4. Located'
    BY <2>2 DEF TypeInv, Located, Source, Publishable
  <2> QED BY <2>3, <2>4 DEF TypeInv
<1>11. CASE UNCHANGED vars
  BY <1>11 DEF vars, TypeInv, TypeOK, Located, Source, Publishable
<1> QED BY <1>1, <1>2, <1>3, <1>4, <1>5, <1>7, <1>8, <1>9, <1>10, <1>11
        DEF Next, Step, GoesWrong, Terminated

\* Types and places hold in every state.
THEOREM TypeInvariant == Spec => []TypeInv
<1>1. TypeInv /\ [Next]_vars => TypeInv'
  BY TypeStep
<1> QED BY InitialType, <1>1, PTL DEF Spec

\* Every variable keeps its shape.
THEOREM TypeCorrect == Spec => []TypeOK
<1>1. TypeInv => TypeOK
  BY DEF TypeInv
<1> QED BY TypeInvariant, <1>1, PTL

-----------------------------------------------------------------------------
\* A failed COMMIT and the entries after it.

\* One entry of one walk gets its result; the others keep theirs.
LEMMA OneResult ==
  ASSUME TypeInv, NEW w \in Walks, NEW r, index[w] <= last[w],
         result' = [result EXCEPT ![w][index[w]] = r]
  PROVE  /\ result'[w][index[w]] = r
         /\ \A e \in Entries : e # index[w] => result'[w][e] = result[w][e]
         /\ \A v \in Walks \ {w} : result'[v] = result[v]
  BY Current DEF TypeInv, TypeOK

SpillInv == SpillFollowsBrokenCommit /\ StuckAfterBroken

\* Counting an entry keeps the account of the session left open.
LEMMA RecordSpill ==
  ASSUME TypeInv, SpillInv, NEW w \in Walks, NEW r, index[w] <= last[w], pc[w] # "done",
         result' = [result EXCEPT ![w][index[w]] = r],
         r = "spill" => session[w] = "stuck",
         session'[w] = "stuck" =>
           /\ index'[w] = index[w] + 1
           /\ r = "broken" \/ (r \notin ReachedDatabase /\ session[w] = "stuck"),
         \A v \in Walks \ {w} : session'[v] = session[v] /\ index'[v] = index[v]
  PROVE  SpillInv'
<1>1. index[w] \in Entries /\ \A e \in Entries : e \in Nat \ {0}
  BY Current DEF Entries
<1>2. /\ result'[w][index[w]] = r
      /\ \A e \in Entries : e # index[w] => result'[w][e] = result[w][e]
      /\ \A v \in Walks \ {w} : result'[v] = result[v]
  BY OneResult
<1>3. \A e \in Entries : index[w] <= e => result[w][e] = "pending"
  BY DEF TypeInv, Located
<1>4. \A e \in Entries : e < index[w] => result'[w][e] = result[w][e]
  BY <1>1, <1>2
<1>5. \A e \in Entries : \A i \in 1 .. e : i \in Entries
  BY ManifestAssumption DEF Entries
<1>6. ASSUME NEW b \in 1 .. index[w] - 1
      PROVE  /\ b \in Entries /\ result'[w][b] = result[w][b]
             /\ \A i \in b + 1 .. index[w] - 1 : i \in Entries /\ result'[w][i] = result[w][i]
  <2>1. b \in Entries /\ b < index[w]
    BY <1>1, <1>5
  <2>2. \A i \in b + 1 .. index[w] - 1 : i \in Entries /\ i < index[w]
    BY <1>1, <1>5
  <2> QED BY <1>4, <2>1, <2>2
<1>7. SpillFollowsBrokenCommit'
  <2> SUFFICES ASSUME NEW v \in Walks, NEW e \in Entries, result'[v][e] = "spill"
               PROVE  \E b \in 1 .. e - 1 :
                        /\ result'[v][b] = "broken"
                        /\ \A i \in b + 1 .. e - 1 : result'[v][i] \notin ReachedDatabase
    BY DEF SpillFollowsBrokenCommit
  <2>1. CASE v # w
    BY <1>2, <2>1 DEF SpillInv, SpillFollowsBrokenCommit
  <2>2. CASE v = w /\ e = index[w]
    <3>1. session[w] = "stuck"
      BY <1>2, <2>2
    <3>2. PICK b \in 1 .. index[w] - 1 :
            /\ result[w][b] = "broken"
            /\ \A i \in b + 1 .. index[w] - 1 : result[w][i] \notin ReachedDatabase
      BY <3>1 DEF SpillInv, StuckAfterBroken
    <3> QED BY <2>2, <3>2, <1>6
  <2>3. CASE v = w /\ e # index[w]
    <3>1. result[w][e] = "spill" /\ e < index[w]
      BY <1>1, <1>2, <1>3, <2>3
    <3>2. PICK b \in 1 .. e - 1 :
            /\ result[w][b] = "broken"
            /\ \A i \in b + 1 .. e - 1 : result[w][i] \notin ReachedDatabase
      BY <3>1 DEF SpillInv, SpillFollowsBrokenCommit
    <3>3. b \in Entries /\ b < index[w]
          /\ \A i \in b + 1 .. e - 1 : i \in Entries /\ i < index[w]
      BY <1>1, <1>5, <3>1
    <3>4. result'[w][b] = "broken"
          /\ \A i \in b + 1 .. e - 1 : result'[w][i] \notin ReachedDatabase
      BY <1>4, <3>2, <3>3
    <3> QED BY <2>3, <3>4
  <2> QED BY <2>1, <2>2, <2>3
<1>8. StuckAfterBroken'
  <2> SUFFICES ASSUME NEW v \in Walks, session'[v] = "stuck"
               PROVE  \E b \in 1 .. index'[v] - 1 :
                        /\ result'[v][b] = "broken"
                        /\ \A i \in b + 1 .. index'[v] - 1 : result'[v][i] \notin ReachedDatabase
    BY DEF StuckAfterBroken
  <2>1. CASE v # w
    BY <1>2, <2>1 DEF SpillInv, StuckAfterBroken
  <2>2. CASE v = w /\ r = "broken"
    <3>1. index'[v] - 1 = index[w] /\ index[w] \in 1 .. index[w]
      BY <1>1, <2>2
    <3>2. index[w] + 1 .. index[w] = {}
      BY <1>1
    <3> QED BY <1>2, <2>2, <3>1, <3>2
  <2>3. CASE v = w /\ r \notin ReachedDatabase /\ session[w] = "stuck"
    <3>1. PICK b \in 1 .. index[w] - 1 :
            /\ result[w][b] = "broken"
            /\ \A i \in b + 1 .. index[w] - 1 : result[w][i] \notin ReachedDatabase
      BY <2>3 DEF SpillInv, StuckAfterBroken
    <3>2. index'[v] - 1 = index[w] /\ b \in 1 .. index[w]
      BY <1>1, <2>3
    <3>3. \A i \in b + 1 .. index[w] : i = index[w] \/ i \in b + 1 .. index[w] - 1
      BY <1>1
    <3>4. \A i \in b + 1 .. index[w] : result'[w][i] \notin ReachedDatabase
      BY <1>2, <1>6, <2>3, <3>1, <3>3
    <3> QED BY <1>6, <2>3, <3>1, <3>2, <3>4
  <2> QED BY <2>1, <2>2, <2>3
<1> QED BY <1>7, <1>8 DEF SpillInv

\* Every step keeps the account.
LEMMA SpillStep ==
  ASSUME TypeInv, SpillInv, [Next]_vars
  PROVE  SpillInv'
<1>1. ASSUME UNCHANGED result,
             \A w \in Walks : session'[w] = "stuck" =>
               session[w] = "stuck" /\ index'[w] = index[w]
      PROVE  SpillInv'
  BY <1>1 DEF SpillInv, SpillFollowsBrokenCommit, StuckAfterBroken
<1>2. ASSUME NEW w \in Walks, Start(w) PROVE SpillInv'
  <2>1. session[w] # "stuck"
    <3>1. \A e \in Entries : result[w][e] # "broken"
      BY <1>2 DEF Start, TypeInv, Located
    <3>2. index[w] - 1 \in 0 .. Size /\ Size \in Nat
      BY ManifestAssumption DEF TypeInv, TypeOK
    <3>3. \A b \in 1 .. index[w] - 1 : b \in Entries
      BY <3>2 DEF Entries
    <3> QED BY <3>1, <3>3 DEF SpillInv, StuckAfterBroken
  <2>2. UNCHANGED <<session, result>>
    BY <1>2 DEF Start
  <2>3. \A v \in Walks \ {w} : index'[v] = index[v]
    BY <1>2 DEF Start, TypeInv, TypeOK
  <2> QED BY <1>1, <2>1, <2>2, <2>3
<1>3. ASSUME NEW w \in Walks, Unloadable(w) \/ Finish(w) PROVE SpillInv'
  <2>1. UNCHANGED <<index, result>> /\ session' = [session EXCEPT ![w] = "closed"]
    BY <1>3 DEF Unloadable, Finish, Leave
  <2> QED BY <1>1, <2>1 DEF TypeInv, TypeOK
<1>4. ASSUME NEW w \in Walks, Read(w) PROVE SpillInv'
  BY <1>1, <1>4 DEF Read
<1>5. ASSUME NEW w \in Walks, NEW r, Record(w, r), index[w] <= last[w], pc[w] # "done",
             r = "spill" => session[w] = "stuck",
             \/ Close(w)
             \/ UNCHANGED session /\ r \notin ReachedDatabase
             \/ session' = [session EXCEPT ![w] = "stuck"] /\ r = "broken"
      PROVE  SpillInv'
  <2>1. /\ result' = [result EXCEPT ![w][index[w]] = r]
        /\ index'[w] = index[w] + 1
        /\ \A v \in Walks \ {w} : index'[v] = index[v] /\ session'[v] = session[v]
    BY <1>5 DEF Record, Close, TypeInv, TypeOK
  <2>2. session'[w] = "stuck" =>
          r = "broken" \/ (r \notin ReachedDatabase /\ session[w] = "stuck")
    BY <1>5 DEF Close, TypeInv, TypeOK
  <2> QED BY <1>5, <2>1, <2>2, RecordSpill
<1>6. ASSUME NEW w \in Walks, Skip(w) \/ FetchFails(w) PROVE SpillInv'
  <2>1. /\ Record(w, "unread") /\ index[w] <= last[w] /\ pc[w] # "done"
        /\ UNCHANGED session /\ "unread" \notin ReachedDatabase
    BY <1>6 DEF Skip, FetchFails, ReachedDatabase
  <2> QED BY <1>5, <2>1
<1>7. ASSUME NEW w \in Walks, pc[w] \in {"lookup", "settle"}
      PROVE  index[w] <= last[w] /\ pc[w] # "done"
  BY <1>7 DEF TypeInv, Located
<1>8. ASSUME NEW w \in Walks, LookUp(w) PROVE SpillInv'
  <2>1. CASE UNCHANGED <<index, session, result>>
    BY <1>1, <2>1
  <2>2. CASE Record(w, "empty") /\ Close(w)
    BY <1>5, <1>7, <1>8, <2>2 DEF LookUp
  <2> QED BY <1>8, <2>1, <2>2 DEF LookUp
<1>9. ASSUME NEW w \in Walks, Spill(w) PROVE SpillInv'
  BY <1>5, <1>7, <1>9 DEF Spill
<1>10. ASSUME NEW w \in Walks,
              Unchanged(w) \/ Ingest(w) \/ Conflict(w) \/ StatementFails(w)
       PROVE  SpillInv'
  <2>1. /\ pc[w] \in {"lookup", "settle"} /\ Close(w)
        /\ Record(w, "unchanged") \/ Record(w, "ingested") \/ Record(w, "error")
    BY <1>10 DEF Unchanged, Ingest, Conflict, StatementFails
  <2> QED BY <1>5, <1>7, <2>1
<1>11. ASSUME NEW w \in Walks, CommitRaises(w) PROVE SpillInv'
  <2>1. /\ pc[w] \in {"lookup", "settle"} /\ Record(w, "broken")
        /\ session' = [session EXCEPT ![w] = "stuck"]
    BY <1>11 DEF CommitRaises
  <2> QED BY <1>5, <1>7, <2>1
<1>12. ASSUME NEW w \in Walks, Die(w) PROVE SpillInv'
  <2>1. Leave(w, "died") /\ UNCHANGED index
    BY <1>12 DEF Die
  <2>2. session'[w] # "stuck" /\ \A v \in Walks \ {w} : session'[v] = session[v]
    BY <2>1 DEF Leave, TypeInv, TypeOK
  <2>3. CASE pc[w] = "entry"
    <3>1. UNCHANGED result
      BY <1>12, <2>3 DEF Die
    <3> QED BY <1>1, <2>1, <2>2, <3>1
  <2>4. CASE pc[w] # "entry"
    <3>1. result' = [result EXCEPT ![w][index[w]] = "error"] /\ pc[w] \in {"lookup", "settle"}
      BY <1>12, <2>4 DEF Die, Running
    <3>2. \A v \in Walks \ {w} : session'[v] = session[v] /\ index'[v] = index[v]
      BY <2>1, <2>2
    <3>3. index[w] <= last[w] /\ pc[w] # "done"
      BY <1>7, <3>1
    <3>4. session'[w] = "stuck" =>
            /\ index'[w] = index[w] + 1
            /\ "error" = "broken" \/ ("error" \notin ReachedDatabase /\ session[w] = "stuck")
      BY <2>2
    <3>5. "error" = "spill" => session[w] = "stuck"
      OBVIOUS
    <3> QED BY <3>1, <3>2, <3>3, <3>4, <3>5, RecordSpill
  <2> QED BY <2>3, <2>4
<1>13. ASSUME Edit PROVE SpillInv'
  BY <1>1, <1>13 DEF Edit
<1>14. CASE UNCHANGED vars
  BY <1>1, <1>14 DEF vars
<1> QED BY <1>2, <1>3, <1>4, <1>6, <1>8, <1>9, <1>10, <1>11, <1>12, <1>13, <1>14
        DEF Next, Step, GoesWrong, Terminated

\* The account of the session left open holds in every state.
THEOREM SpillInvariant == Spec => []SpillInv
<1>1. Init => SpillInv
  BY DEF Init, SpillInv, SpillFollowsBrokenCommit, StuckAfterBroken
<1>2. TypeInv /\ SpillInv /\ [Next]_vars => SpillInv'
  BY SpillStep
<1> QED BY TypeInvariant, <1>1, <1>2, PTL DEF Spec

\* A COMMIT that raises costs at most one entry after its own.
THEOREM OneSpillPerBrokenCommit == Spec => []SpillFollowsBrokenCommit
<1>1. SpillInv => SpillFollowsBrokenCommit
  BY DEF SpillInv
<1> QED BY SpillInvariant, <1>1, PTL

-----------------------------------------------------------------------------
\* What a failed entry leaves behind.

\* The entry that a step gives a result is the current one of its walk, and
\* names a source.
LEMMA ResultStep ==
  ASSUME TypeInv, Next
  PROVE  \/ UNCHANGED result
         \/ \E w \in Walks, r \in Stored \cup Failed :
              /\ index[w] <= last[w] /\ pc[w] # "done" /\ Source(w) \in Sources
              /\ result' = [result EXCEPT ![w][index[w]] = r]
              /\ stored' = stored \/ r \in {"ingested", "broken"}
<1>1. ASSUME NEW w \in Walks, pc[w] \in {"lookup", "settle"}
      PROVE  index[w] <= last[w] /\ pc[w] # "done" /\ Source(w) \in Sources
  BY <1>1 DEF TypeInv, Located
<1>2. ASSUME NEW w \in Walks, Skip(w) \/ FetchFails(w)
      PROVE  /\ index[w] <= last[w] /\ pc[w] # "done" /\ Source(w) \in Sources
             /\ result' = [result EXCEPT ![w][index[w]] = "unread"]
             /\ stored' = stored
  <2>1. /\ index[w] <= last[w] /\ pc[w] # "done" /\ Source(w) # Malformed
        /\ Record(w, "unread") /\ stored' = stored
    BY <1>2 DEF Skip, FetchFails, Source
  <2> QED BY <2>1, Current DEF Record
<1>3. ASSUME NEW w \in Walks, LookUp(w)
      PROVE  \/ UNCHANGED result
             \/ /\ pc[w] \in {"lookup", "settle"}
                /\ result' = [result EXCEPT ![w][index[w]] = "empty"] /\ stored' = stored
  BY <1>3 DEF LookUp, Record
<1>4. ASSUME NEW w \in Walks,
             Spill(w) \/ Unchanged(w) \/ Conflict(w) \/ StatementFails(w)
      PROVE  \E r \in {"spill", "unchanged", "error"} :
               /\ pc[w] \in {"lookup", "settle"}
               /\ result' = [result EXCEPT ![w][index[w]] = r] /\ stored' = stored
  BY <1>4 DEF Spill, Unchanged, Conflict, StatementFails, Record
<1>5. ASSUME NEW w \in Walks, Ingest(w) \/ CommitRaises(w)
      PROVE  \E r \in {"ingested", "broken"} :
               /\ pc[w] \in {"lookup", "settle"}
               /\ result' = [result EXCEPT ![w][index[w]] = r]
  BY <1>5 DEF Ingest, CommitRaises, Record
<1>6. ASSUME NEW w \in Walks, Die(w)
      PROVE  \/ UNCHANGED result
             \/ /\ pc[w] \in {"lookup", "settle"}
                /\ result' = [result EXCEPT ![w][index[w]] = "error"] /\ stored' = stored
  BY <1>6 DEF Die, Running
<1>7. ASSUME NEW w \in Walks, Start(w) \/ Unloadable(w) \/ Read(w) \/ Finish(w)
      PROVE  UNCHANGED result
  BY <1>7 DEF Start, Unloadable, Read, Finish
<1>8. Edit \/ Terminated => UNCHANGED result
  BY DEF Edit, Terminated, vars
<1>9. {"unread", "empty", "spill", "unchanged", "error", "ingested", "broken"}
        \subseteq Stored \cup Failed
  BY DEF Stored, Failed
<1> QED BY <1>1, <1>2, <1>3, <1>4, <1>5, <1>6, <1>7, <1>8, <1>9 DEF Next, Step, GoesWrong

\* An entry that is counted as failed has changed nothing, unless it was the
\* confirmation of its COMMIT that got lost.
THEOREM FailedEntriesChangeNothing == Spec => FailureLeavesStore
<1>1. ASSUME TypeInv, [Next]_vars
      PROVE  [\A w \in Walks, e \in Entries :
                result[w][e] = "pending" /\ result'[w][e] \in Failed \ {"broken"}
                  => stored' = stored]_vars
  <2>1. CASE UNCHANGED vars
    BY <2>1
  <2>2. CASE Next
    <3> SUFFICES ASSUME NEW w \in Walks, NEW e \in Entries,
                        result[w][e] = "pending", result'[w][e] \in Failed \ {"broken"}
                 PROVE  stored' = stored
      OBVIOUS
    <3>1. result' # result
      BY DEF Failed
    <3>2. PICK v \in Walks, r \in Stored \cup Failed :
            /\ index[v] <= last[v]
            /\ result' = [result EXCEPT ![v][index[v]] = r]
            /\ stored' = stored \/ r \in {"ingested", "broken"}
      BY <1>1, <2>2, <3>1, ResultStep
    <3>3. /\ result'[v][index[v]] = r
          /\ \A i \in Entries : i # index[v] => result'[v][i] = result[v][i]
          /\ \A x \in Walks \ {v} : result'[x] = result[x]
      BY <1>1, <3>2, OneResult
    <3>4. w = v /\ e = index[v]
      BY <3>3 DEF Failed
    <3>5. r \in Failed \ {"broken"}
      BY <3>3, <3>4
    <3> QED BY <3>2, <3>5 DEF Failed
  <2> QED BY <1>1, <2>1, <2>2
<1> QED BY TypeInvariant, <1>1, PTL DEF Spec, FailureLeavesStore

-----------------------------------------------------------------------------
\* A walk that nothing disturbs.

\* Only an entry that names a source gets a result.
Named == \A w \in Walks, e \in Entries : result[w][e] # "pending" => manifest[e] \in Sources

\* Every step keeps results to entries that name a source.
LEMMA NamedStep ==
  ASSUME TypeInv, Named, [Next]_vars
  PROVE  Named'
<1>1. UNCHANGED manifest
  BY DEF Next, Step, GoesWrong, Terminated, vars, world, Start, Unloadable, Skip, Read,
         LookUp, Spill, Unchanged, Ingest, Conflict, Finish, FetchFails, StatementFails,
         CommitRaises, Die, Edit
<1>2. CASE UNCHANGED result
  BY <1>1, <1>2 DEF Named
<1>3. CASE result' # result
  <2>1. Next
    BY <1>3 DEF vars
  <2>2. PICK w \in Walks, r \in Stored \cup Failed :
          /\ index[w] <= last[w] /\ Source(w) \in Sources
          /\ result' = [result EXCEPT ![w][index[w]] = r]
    BY <1>3, <2>1, ResultStep
  <2>3. /\ \A i \in Entries : i # index[w] => result'[w][i] = result[w][i]
        /\ \A x \in Walks \ {w} : result'[x] = result[x]
    BY <2>2, OneResult
  <2> QED BY <1>1, <2>2, <2>3 DEF Named, Source
<1> QED BY <1>2, <1>3

CalmInv == Undisturbed /\ CalmWalkStores

\* What a calm walk counts next agrees with what the entry holds.
LEMMA RecordCalm ==
  ASSUME TypeInv, Named, CalmWalkStores, NEW w \in Walks, NEW r,
         calm[w], Running(w), index[w] <= last[w], Source(w) \in Sources,
         result' = [result EXCEPT ![w][index[w]] = r],
         UNCHANGED <<manifest, content>>,
         (r \in Stored) = Publishable(content[index[w]]),
         r \in Stored => stored'[Source(w)] = content[index[w]],
         r \notin Stored => stored' = stored,
         \A s \in Sources \ {Source(w)} : stored'[s] = stored[s]
  PROVE  \A e \in Entries :
           result'[w][e] # "pending" =>
             /\ (result'[w][e] \in Stored) = Publishable(content'[e])
             /\ Publishable(content'[e]) =>
                  \/ stored'[manifest'[e]] = content'[e]
                  \/ \E later \in Entries :
                       /\ later > e
                       /\ manifest'[later] = manifest'[e]
                       /\ result'[w][later] \in Stored
<1>1. index[w] \in Entries /\ \A e \in Entries : e \in Nat
  BY Current DEF Entries
<1>2. /\ result'[w][index[w]] = r
      /\ \A e \in Entries : e # index[w] => result'[w][e] = result[w][e]
  BY OneResult
<1>3. \A e \in Entries : index[w] <= e => result[w][e] = "pending"
  BY DEF TypeInv, Located, Running
<1> SUFFICES ASSUME NEW e \in Entries, result'[w][e] # "pending"
             PROVE  /\ (result'[w][e] \in Stored) = Publishable(content[e])
                    /\ Publishable(content[e]) =>
                         \/ stored'[manifest[e]] = content[e]
                         \/ \E later \in Entries :
                              /\ later > e
                              /\ manifest[later] = manifest[e]
                              /\ result'[w][later] \in Stored
  OBVIOUS
<1>4. CASE e = index[w]
  BY <1>2, <1>4 DEF Source
<1>5. CASE e # index[w]
  <2>1. e < index[w] /\ result[w][e] # "pending" /\ result'[w][e] = result[w][e]
    BY <1>1, <1>2, <1>3, <1>5
  <2>2. manifest[e] \in Sources
    BY <2>1 DEF Named
  <2>3. /\ (result[w][e] \in Stored) = Publishable(content[e])
        /\ Publishable(content[e]) =>
             \/ stored[manifest[e]] = content[e]
             \/ \E later \in Entries :
                  /\ later > e
                  /\ manifest[later] = manifest[e]
                  /\ result[w][later] \in Stored
    BY <2>1 DEF CalmWalkStores
  <2>4. ASSUME Publishable(content[e]), stored[manifest[e]] = content[e]
        PROVE  \/ stored'[manifest[e]] = content[e]
               \/ \E later \in Entries :
                    /\ later > e
                    /\ manifest[later] = manifest[e]
                    /\ result'[w][later] \in Stored
    <3>1. CASE manifest[e] = Source(w) /\ r \in Stored
      BY <1>1, <1>2, <2>1, <3>1 DEF Source
    <3>2. CASE manifest[e] # Source(w)
      BY <2>2, <2>4, <3>2
    <3>3. CASE r \notin Stored
      BY <2>4, <3>3
    <3> QED BY <3>1, <3>2, <3>3
  <2>5. ASSUME NEW later \in Entries, later > e, manifest[later] = manifest[e],
               result[w][later] \in Stored
        PROVE  result'[w][later] \in Stored
    <3>1. result[w][later] # "pending"
      BY <2>5 DEF Stored
    <3>2. later # index[w]
      BY <1>1, <1>3, <3>1
    <3> QED BY <1>2, <2>5, <3>2
  <2> QED BY <2>1, <2>3, <2>4, <2>5
<1> QED BY <1>4, <1>5

\* What has to be shown of one walk.
CalmWalk(w) ==
  calm[w] /\ Running(w) =>
    /\ session[w] = "closed"
    /\ \A v \in Walks \ {w} : ~ Running(v)
    /\ pc[w] \in {"lookup", "settle"} => text[w] = content[index[w]]
    /\ pc[w] = "settle" => seen[w] = stored[Source(w)]
    /\ \A e \in Entries :
         result[w][e] # "pending" =>
           /\ (result[w][e] \in Stored) = Publishable(content[e])
           /\ Publishable(content[e]) =>
                \/ stored[manifest[e]] = content[e]
                \/ \E later \in Entries :
                     /\ later > e
                     /\ manifest[later] = manifest[e]
                     /\ result[w][later] \in Stored

\* Walk by walk.
LEMMA CalmWalks == CalmInv <=> \A w \in Walks : CalmWalk(w)
  BY DEF CalmInv, Undisturbed, CalmWalkStores, CalmWalk

\* A step of a calm walk itself.
LEMMA CalmOwnStep ==
  ASSUME TypeInv, Named, StuckAfterBroken, CalmInv, NEW w \in Walks, calm'[w], Running(w)',
         Step(w) \/ GoesWrong(w)
  PROVE  CalmWalk(w)'
<1> USE CalmWalks
<1>1. ASSUME Start(w) PROVE CalmWalk(w)'
  <2>1. /\ pc[w] = "idle" /\ pc' = [pc EXCEPT ![w] = "entry"]
        /\ calm' = [v \in Walks |-> v = w /\ \A x \in Walks : ~ Running(x)]
        /\ UNCHANGED <<content, session, result>>
    BY <1>1 DEF Start, world
  <2>2. \A e \in Entries : result[w][e] = "pending"
    BY <2>1 DEF TypeInv, Located
  <2>3. session[w] = "closed"
    <3>1. index[w] - 1 \in 0 .. Size /\ Size \in Nat
      BY ManifestAssumption DEF TypeInv, TypeOK
    <3>2. \A b \in 1 .. index[w] - 1 : b \in Entries
      BY <3>1 DEF Entries
    <3>3. session[w] # "stuck"
      BY <2>2, <3>2 DEF StuckAfterBroken
    <3> QED BY <3>3 DEF TypeInv, TypeOK
  <2>4. \A v \in Walks \ {w} : ~ Running(v)'
    BY <2>1 DEF Running, TypeInv, TypeOK
  <2>5. pc'[w] = "entry"
    BY <2>1 DEF TypeInv, TypeOK
  <2> QED BY <2>1, <2>2, <2>3, <2>4, <2>5 DEF CalmWalk
<1>2. ASSUME Unloadable(w) \/ Finish(w) \/ Die(w) PROVE FALSE
  BY <1>2 DEF Unloadable, Finish, Die, Leave, Running, TypeInv, TypeOK
<1>3. ASSUME Fault PROVE FALSE
  BY <1>3 DEF Fault
<1>4. ASSUME NoFault, Running(w)
      PROVE  /\ session[w] = "closed" /\ calm[w]
             /\ \A v \in Walks \ {w} : ~ Running(v)
             /\ pc[w] \in {"lookup", "settle"} => text[w] = content[index[w]]
             /\ pc[w] = "settle" => seen[w] = stored[Source(w)]
  BY <1>4 DEF NoFault, CalmWalk
<1>5. ASSUME Read(w) PROVE CalmWalk(w)'
  <2>1. /\ pc[w] = "entry" /\ NoFault /\ index[w] <= last[w]
        /\ text' = [text EXCEPT ![w] = content[index[w]]]
        /\ pc' = [pc EXCEPT ![w] = "lookup"]
        /\ UNCHANGED <<manifest, content, stored, index, session, result>>
    BY <1>5 DEF Read, world
  <2>2. Running(w)
    BY <2>1 DEF Running
  <2>3. \A v \in Walks \ {w} : ~ Running(v)'
    BY <1>4, <2>1, <2>2 DEF Running, TypeInv, TypeOK
  <2>4. pc'[w] = "lookup" /\ text'[w] = content[index[w]]
    BY <2>1 DEF TypeInv, TypeOK
  <2> QED BY <1>4, <2>1, <2>2, <2>3, <2>4 DEF CalmWalk, Publishable
<1>6. ASSUME LookUp(w), pc' = [pc EXCEPT ![w] = "settle"],
             seen' = [seen EXCEPT ![w] = stored[Source(w)]],
             UNCHANGED <<index, text, session, result>>
      PROVE  CalmWalk(w)'
  <2>1. /\ pc[w] = "lookup" /\ NoFault
        /\ UNCHANGED <<manifest, content, stored>>
    BY <1>6 DEF LookUp, world
  <2>2. Running(w)
    BY <2>1 DEF Running
  <2>3. \A v \in Walks \ {w} : ~ Running(v)'
    BY <1>4, <1>6, <2>1, <2>2 DEF Running, TypeInv, TypeOK
  <2>4. seen'[w] = stored[Source(w)]
    BY <1>6 DEF TypeInv, TypeOK
  <2>5. stored'[Source(w)'] = stored[Source(w)]
    BY <1>6, <2>1 DEF Source
  <2> QED BY <1>4, <1>6, <2>1, <2>2, <2>3, <2>4, <2>5 DEF CalmWalk, Publishable
<1>7. ASSUME NEW r, Record(w, r), Running(w), NoFault, UNCHANGED session \/ Close(w),
             index[w] <= last[w], Source(w) \in Sources, UNCHANGED <<manifest, content>>,
             (r \in Stored) = Publishable(content[index[w]]),
             r \in Stored => stored'[Source(w)] = content[index[w]],
             r \notin Stored => stored' = stored,
             \A s \in Sources \ {Source(w)} : stored'[s] = stored[s]
      PROVE  CalmWalk(w)'
  <2>1. /\ result' = [result EXCEPT ![w][index[w]] = r]
        /\ pc' = [pc EXCEPT ![w] = "entry"]
    BY <1>7 DEF Record
  <2>2. pc'[w] = "entry" /\ session'[w] = "closed"
    BY <1>4, <1>7, <2>1 DEF Close, TypeInv, TypeOK
  <2>3. \A v \in Walks \ {w} : ~ Running(v)'
    BY <1>4, <1>7, <2>1 DEF Running, TypeInv, TypeOK
  <2>4. CalmWalkStores /\ calm[w]
    BY <1>4, <1>7 DEF CalmInv
  <2>5. \A e \in Entries :
          result'[w][e] # "pending" =>
            /\ (result'[w][e] \in Stored) = Publishable(content'[e])
            /\ Publishable(content'[e]) =>
                 \/ stored'[manifest'[e]] = content'[e]
                 \/ \E later \in Entries :
                      /\ later > e
                      /\ manifest'[later] = manifest'[e]
                      /\ result'[w][later] \in Stored
    BY <1>7, <2>1, <2>4, RecordCalm
  <2> QED BY <2>2, <2>3, <2>5 DEF CalmWalk, Publishable
<1>8. ASSUME Skip(w) PROVE CalmWalk(w)'
  <2>1. /\ Record(w, "unread") /\ pc[w] = "entry" /\ NoFault /\ index[w] <= last[w]
        /\ Source(w) # Malformed /\ content[index[w]] = Unreadable
        /\ UNCHANGED <<manifest, content, stored, session>>
    BY <1>8 DEF Skip, world, Source
  <2>2. Running(w) /\ Source(w) \in Sources
    BY <2>1, Current DEF Running
  <2>3. "unread" \notin Stored /\ ~ Publishable(content[index[w]])
    BY <2>1, ManifestAssumption DEF Stored, Publishable
  <2>4. ("unread" \in Stored) = Publishable(content[index[w]])
    BY <2>3 DEF Publishable
  <2> QED BY <1>7, <2>1, <2>2, <2>3, <2>4
<1>9. ASSUME pc[w] \in {"lookup", "settle"}
      PROVE  /\ Running(w) /\ index[w] <= last[w] /\ Source(w) \in Sources
             /\ text[w] \in Texts /\ index[w] \in Entries
             /\ pc[w] = "settle" => Publishable(text[w])
  BY <1>9, Current DEF Running, TypeInv, Located
<1>10. ASSUME LookUp(w), Record(w, "empty"), Close(w), ~ Publishable(text[w])
       PROVE  CalmWalk(w)'
  <2>1. pc[w] = "lookup" /\ NoFault /\ UNCHANGED <<manifest, content, stored>>
    BY <1>10 DEF LookUp, world
  <2>2. text[w] = content[index[w]]
    BY <1>4, <1>9, <2>1
  <2>3. "empty" \notin Stored /\ ~ Publishable(content[index[w]])
    BY <1>10, <2>2 DEF Stored
  <2>4. ("empty" \in Stored) = Publishable(content[index[w]])
    BY <2>3 DEF Publishable
  <2> QED BY <1>7, <1>9, <1>10, <2>1, <2>3, <2>4
<1>11. ASSUME Spill(w) PROVE FALSE
  BY <1>4, <1>9, <1>11 DEF Spill
<1>12. ASSUME Conflict(w) PROVE FALSE
  BY <1>4, <1>9, <1>12 DEF Conflict
<1>13. ASSUME pc[w] = "settle", NoFault
       PROVE  /\ text[w] = content[index[w]] /\ Publishable(content[index[w]])
              /\ seen[w] = stored[Source(w)]
              /\ ("unchanged" \in Stored) = Publishable(content[index[w]])
              /\ ("ingested" \in Stored) = Publishable(content[index[w]])
  <2>1. text[w] = content[index[w]] /\ seen[w] = stored[Source(w)]
    BY <1>4, <1>9, <1>13
  <2>2. Publishable(content[index[w]])
    BY <1>9, <1>13, <2>1
  <2>3. "unchanged" \in Stored /\ "ingested" \in Stored
    BY DEF Stored
  <2> QED BY <2>1, <2>2, <2>3 DEF Publishable
<1>14. ASSUME Unchanged(w) PROVE CalmWalk(w)'
  <2>1. /\ pc[w] = "settle" /\ seen[w] = text[w] /\ NoFault
        /\ Record(w, "unchanged") /\ Close(w) /\ UNCHANGED <<manifest, content, stored>>
    BY <1>14 DEF Unchanged, world
  <2>2. stored'[Source(w)] = content[index[w]]
    BY <1>13, <2>1
  <2> QED BY <1>7, <1>9, <1>13, <2>1, <2>2
<1>15. ASSUME Ingest(w) PROVE CalmWalk(w)'
  <2>1. /\ pc[w] = "settle" /\ NoFault
        /\ stored' = [stored EXCEPT ![Source(w)] = text[w]]
        /\ Record(w, "ingested") /\ Close(w) /\ UNCHANGED <<manifest, content>>
    BY <1>15 DEF Ingest, Publish, world
  <2>2. /\ stored'[Source(w)] = content[index[w]]
        /\ \A s \in Sources \ {Source(w)} : stored'[s] = stored[s]
    BY <1>9, <1>13, <2>1 DEF TypeInv, TypeOK
  <2>3. "ingested" \in Stored
    BY DEF Stored
  <2> QED BY <1>7, <1>9, <1>13, <2>1, <2>2, <2>3
<1>16. FetchFails(w) \/ StatementFails(w) \/ CommitRaises(w) => Fault
  BY DEF FetchFails, StatementFails, CommitRaises
<1> QED BY <1>1, <1>2, <1>3, <1>5, <1>6, <1>8, <1>10, <1>11, <1>12, <1>14, <1>15, <1>16
        DEF Step, GoesWrong, LookUp

\* A step of another walk: it cannot be on its way, and to start ends the calm.
LEMMA CalmOtherStep ==
  ASSUME TypeInv, CalmInv, NEW w \in Walks, calm'[w], Running(w)',
         NEW v \in Walks \ {w}, Step(v) \/ GoesWrong(v)
  PROVE  CalmWalk(w)'
<1> USE CalmWalks
<1>1. /\ pc'[w] = pc[w] /\ index'[w] = index[w] /\ text'[w] = text[w]
      /\ seen'[w] = seen[w] /\ session'[w] = session[w] /\ result'[w] = result[w]
  <2>1. ASSUME NEW r, Record(v, r) \/ Leave(v, r)
        PROVE  pc'[w] = pc[w] /\ text'[w] = text[w] /\ seen'[w] = seen[w]
    BY <2>1 DEF Record, Leave, TypeInv, TypeOK
  <2>2. ASSUME NEW r, Record(v, r)
        PROVE  index'[w] = index[w] /\ result'[w] = result[w]
    BY <2>2 DEF Record, TypeInv, TypeOK
  <2>3. ASSUME NEW r, Close(v) \/ Leave(v, r) PROVE session'[w] = session[w]
    BY <2>3 DEF Close, Leave, TypeInv, TypeOK
  <2>4. CASE Start(v) \/ Read(v)
    BY <2>4 DEF Start, Read, TypeInv, TypeOK
  <2>5. CASE Unloadable(v) \/ Finish(v)
    BY <2>1, <2>3, <2>5 DEF Unloadable, Finish
  <2>6. CASE Skip(v) \/ FetchFails(v)
    BY <2>1, <2>2, <2>6 DEF Skip, FetchFails
  <2>7. CASE LookUp(v)
    <3>1. CASE Record(v, "empty") /\ Close(v)
      BY <2>1, <2>2, <2>3, <3>1
    <3>2. CASE /\ seen' = [seen EXCEPT ![v] = stored[Source(v)]]
               /\ pc' = [pc EXCEPT ![v] = "settle"]
               /\ UNCHANGED <<index, last, text, session, result, reply>>
      BY <3>2 DEF TypeInv, TypeOK
    <3> QED BY <2>7, <3>1, <3>2 DEF LookUp
  <2>8. CASE Spill(v) \/ Unchanged(v) \/ Ingest(v) \/ Conflict(v) \/ StatementFails(v)
    BY <2>1, <2>2, <2>3, <2>8 DEF Spill, Unchanged, Ingest, Conflict, StatementFails
  <2>9. CASE CommitRaises(v)
    BY <2>1, <2>2, <2>9 DEF CommitRaises, TypeInv, TypeOK
  <2>10. CASE Die(v)
    <3>1. Leave(v, "died") /\ UNCHANGED index
      BY <2>10 DEF Die
    <3>2. result'[w] = result[w]
      BY <2>10 DEF Die, TypeInv, TypeOK
    <3> QED BY <2>1, <2>3, <3>1, <3>2
  <2> QED BY <2>4, <2>5, <2>6, <2>7, <2>8, <2>9, <2>10 DEF Step, GoesWrong
<1>2. ~ Start(v) /\ ~ Fault
  BY DEF Start, Fault
<1>3. calm[w]
  <2>1. Step(v) \/ GoesWrong(v) => Start(v) \/ Fault \/ NoFault
    BY DEF Step, GoesWrong, Unloadable, Skip, Read, LookUp, Spill, Unchanged, Ingest,
           Conflict, Finish, FetchFails, StatementFails, CommitRaises, Die
  <2> QED BY <1>2, <2>1 DEF NoFault
<1>4. Running(w) /\ \A x \in Walks \ {w} : ~ Running(x)
  BY <1>1, <1>3 DEF CalmWalk, Running
<1>5. Unloadable(v)
  BY <1>2, <1>4 DEF Step, GoesWrong, Running, Skip, Read, LookUp, Spill, Unchanged, Ingest,
                    Conflict, Finish, FetchFails, StatementFails, CommitRaises, Die
<1>6. UNCHANGED <<manifest, content, stored>> /\ pc' = [pc EXCEPT ![v] = "done"]
  BY <1>5 DEF Unloadable, Leave, world
<1>7. \A x \in Walks \ {w} : ~ Running(x)'
  BY <1>4, <1>6 DEF Running, TypeInv, TypeOK
<1> QED BY <1>1, <1>3, <1>4, <1>6, <1>7 DEF CalmWalk, Publishable, Source

\* Every step keeps the calm walks in order.
LEMMA CalmStep ==
  ASSUME TypeInv, Named, StuckAfterBroken, CalmInv, [Next]_vars
  PROVE  CalmInv'
<1>1. ASSUME NEW w \in Walks PROVE CalmWalk(w)'
  <2>1. CASE ~ (calm'[w] /\ Running(w)')
    BY <2>1 DEF CalmWalk
  <2>2. CASE calm'[w] /\ Running(w)'
    <3>1. CASE \E v \in Walks : Step(v) \/ GoesWrong(v)
      BY <2>2, <3>1, CalmOwnStep, CalmOtherStep
    <3>2. CASE Edit
      BY <2>2, <3>2 DEF Edit, Fault
    <3>3. CASE UNCHANGED vars
      <4>1. CalmWalk(w)
        BY CalmWalks
      <4> QED BY <3>3, <4>1 DEF CalmWalk, vars, Running, Source, Publishable
    <3> QED BY <3>1, <3>2, <3>3 DEF Next, Terminated
  <2> QED BY <2>1, <2>2
<1>2. (\A w \in Walks : CalmWalk(w))' <=> CalmInv'
  BY DEF CalmInv, Undisturbed, CalmWalkStores, CalmWalk
<1> QED BY <1>1, <1>2

\* The calm walks are in order in every state.
THEOREM CalmInvariant == Spec => [](Named /\ CalmInv)
<1>1. Init => Named /\ CalmInv
  BY DEF Init, Named, CalmInv, Undisturbed, CalmWalkStores
<1>2. TypeInv /\ SpillInv /\ Named /\ CalmInv /\ [Next]_vars => (Named /\ CalmInv)'
  BY NamedStep, CalmStep DEF SpillInv
<1> QED BY TypeInvariant, SpillInvariant, <1>1, <1>2, PTL DEF Spec

\* A walk that nothing disturbs stores every entry that can be read and has
\* chunks, whatever earlier walks left behind.
THEOREM CalmWalksStoreAll == Spec => []CalmWalkStores
<1>1. Named /\ CalmInv => CalmWalkStores
  BY DEF CalmInv
<1> QED BY CalmInvariant, <1>1, PTL

-----------------------------------------------------------------------------
\* One effect on the knowledge base per entry.

\* The reply that an entry's result stands for.
ReplyOf(r) == IF r \in Stored THEN r ELSE IF r \in {"unread", "empty"} THEN "failed" ELSE "error"

\* An entry whose text is found stored, and has not been counted yet.
SeenSame(w, e) == pc[w] = "settle" /\ index[w] = e /\ seen[w] = text[w]

\* The phase of an entry.
PhaseAt(w, e) ==
  IF result[w][e] = "pending" THEN IF SeenSame(w, e) THEN "same" ELSE "pending"
  ELSE ReplyOf(result[w][e])

\* Entry by entry, the phases are those.
LEMMA PhaseOf ==
  ASSUME NEW w \in Walks, NEW e \in Entries
  PROVE  EntryPhase[<<w, e>>] = PhaseAt(w, e) /\ EntryPhase'[<<w, e>>] = PhaseAt(w, e)'
  BY DEF EntryPhase, ReplyOf, PhaseAt, SeenSame

\* Phases that agree entry by entry are the same.
LEMMA PhaseChange ==
  ASSUME NEW t \in Walks \X Entries,
         \A w \in Walks, e \in Entries :
           <<w, e>> # t => EntryPhase'[<<w, e>>] = EntryPhase[<<w, e>>]
  PROVE  EntryPhase' = [EntryPhase EXCEPT ![t] = EntryPhase'[t]]
<1>1. \A x \in (Walks \X Entries) \ {t} : EntryPhase'[x] = EntryPhase[x]
  OBVIOUS
<1>2. /\ EntryPhase = [x \in Walks \X Entries |-> EntryPhase[x]]
      /\ EntryPhase' = [x \in Walks \X Entries |-> EntryPhase'[x]]
  BY DEF EntryPhase
<1>3. EntryPhase' = [x \in Walks \X Entries |-> IF x = t THEN EntryPhase'[t] ELSE EntryPhase[x]]
  BY <1>1, <1>2
<1> QED BY <1>2, <1>3

\* What is searchable is the chunking of the stored text.
LEMMA SearchableText ==
  ASSUME TypeInv, NEW u \in Sources, stored[u] # NoText
  PROVE  /\ stored[u] \in Texts /\ ChunkCount[stored[u]] > 0
         /\ Searchable[u] = KB!Chunking(stored[u]) /\ Searchable[u] # {}
<1>1. stored[u] \in Texts /\ ChunkCount[stored[u]] \in Nat /\ ChunkCount[stored[u]] > 0
  BY ManifestAssumption DEF TypeInv, TypeOK, Publishable
<1>2. Searchable[u] = {[order |-> i, text |-> stored[u]] : i \in 0 .. ChunkCount[stored[u]] - 1}
  BY DEF Searchable
<1>3. 0 \in 0 .. ChunkCount[stored[u]] - 1
  BY <1>1
<1>4. [order |-> 0, text |-> stored[u]] \in Searchable[u]
  BY <1>2, <1>3
<1> QED BY <1>1, <1>2, <1>4 DEF KB!Chunking

\* To publish a text is to replace the chunking of its source.
LEMMA PublishSearchable ==
  ASSUME TypeInv, NEW w \in Walks, pc[w] = "settle", Publish(w)
  PROVE  /\ Source(w) \in Sources /\ text[w] \in Texts /\ ChunkCount[text[w]] > 0
         /\ Searchable' = [Searchable EXCEPT ![Source(w)] = KB!Chunking(text[w])]
<1>1. /\ Source(w) \in Sources /\ text[w] \in Texts
      /\ ChunkCount[text[w]] > 0 /\ text[w] # NoText
  BY ManifestAssumption DEF TypeInv, Located, Publishable
<1>2. stored' = [stored EXCEPT ![Source(w)] = text[w]] /\ stored \in [Sources -> Texts \cup {NoText}]
  BY DEF Publish, TypeInv, TypeOK
<1>3. ASSUME NEW u \in Sources
      PROVE  Searchable'[u] = [Searchable EXCEPT ![Source(w)] = KB!Chunking(text[w])][u]
  <2>1. CASE u = Source(w)
    <3>1. stored'[u] = text[w]
      BY <1>2, <2>1
    <3>2. Searchable'[u] = {[order |-> i, text |-> text[w]] : i \in 0 .. ChunkCount[text[w]] - 1}
      BY <1>1, <3>1 DEF Searchable
    <3>3. [Searchable EXCEPT ![Source(w)] = KB!Chunking(text[w])][u] = KB!Chunking(text[w])
      BY <2>1 DEF Searchable
    <3> QED BY <3>2, <3>3 DEF KB!Chunking
  <2>2. CASE u # Source(w)
    <3>1. stored'[u] = stored[u]
      BY <1>2, <2>2
    <3> QED BY <2>2, <3>1 DEF Searchable
  <2> QED BY <2>1, <2>2
<1>4. DOMAIN Searchable' = Sources /\ DOMAIN Searchable = Sources
  BY DEF Searchable
<1>5. Searchable' = [u \in Sources |-> Searchable'[u]]
  BY DEF Searchable
<1> QED BY <1>1, <1>3, <1>4, <1>5

\* The first states are first states of the knowledge base.
LEMMA RefinementInit == Init => KB!Init
<1> SUFFICES ASSUME Init PROVE KB!Init
  OBVIOUS
<1>1. TypeInv
  BY InitialType
<1>2. Searchable \in [Sources -> {{}} \cup {KB!Chunking(c) : c \in Texts}]
  <2>1. ASSUME NEW u \in Sources
        PROVE  Searchable[u] \in {{}} \cup {KB!Chunking(c) : c \in Texts}
    <3>1. CASE stored[u] = NoText
      <4>1. Searchable[u] = {}
        BY <3>1 DEF Searchable
      <4> QED BY <4>1
    <3>2. CASE stored[u] # NoText
      BY <1>1, <3>2, SearchableText
    <3> QED BY <3>1, <3>2
  <2>2. Searchable = [u \in Sources |-> Searchable[u]]
    BY DEF Searchable
  <2> QED BY <2>1, <2>2
<1>3. EntryPhase = [t \in Walks \X Entries |-> "pending"]
  <2>1. \A w \in Walks, e \in Entries : EntryPhase[<<w, e>>] = "pending"
    BY PhaseOf DEF Init, PhaseAt, SeenSame
  <2>2. \A t \in Walks \X Entries : EntryPhase[t] = "pending"
    BY <2>1
  <2>3. EntryPhase = [t \in Walks \X Entries |-> EntryPhase[t]]
    BY DEF EntryPhase
  <2> QED BY <2>2, <2>3
<1> QED BY <1>2, <1>3 DEF KB!Init

\* Moves within a walk that settle nothing are not seen from outside.
LEMMA QuietStep ==
  ASSUME UNCHANGED <<stored, result>>,
         \A w \in Walks :
           \/ pc[w] # "settle" /\ pc'[w] # "settle"
           \/ pc'[w] = pc[w] /\ index'[w] = index[w] /\ seen'[w] = seen[w] /\ text'[w] = text[w]
           \/ pc[w] # "settle" /\ seen'[w] # text'[w]
  PROVE  UNCHANGED KB!kbVars
<1>1. \A w \in Walks, e \in Entries : EntryPhase'[<<w, e>>] = EntryPhase[<<w, e>>]
  <2> SUFFICES ASSUME NEW w \in Walks, NEW e \in Entries
               PROVE  PhaseAt(w, e)' = PhaseAt(w, e)
    BY PhaseOf
  <2>1. result[w][e] # "pending" => PhaseAt(w, e)' = PhaseAt(w, e)
    BY DEF PhaseAt
  <2>2. SeenSame(w, e)' <=> SeenSame(w, e)
    BY DEF SeenSame
  <2> QED BY <2>1, <2>2 DEF PhaseAt
<1>2. \A t \in Walks \X Entries : EntryPhase'[t] = EntryPhase[t]
  BY <1>1
<1>3. /\ EntryPhase = [x \in Walks \X Entries |-> EntryPhase[x]]
      /\ EntryPhase' = [x \in Walks \X Entries |-> EntryPhase'[x]]
  BY DEF EntryPhase
<1>4. EntryPhase' = EntryPhase
  BY <1>2, <1>3
<1>5. Searchable' = Searchable
  BY DEF Searchable
<1> QED BY <1>4, <1>5 DEF KB!kbVars

\* Counting an entry settles its phase and no other.
LEMMA CountedPhase ==
  ASSUME TypeInv, NEW w \in Walks, NEW r \in Stored \cup Failed,
         index[w] <= last[w], pc[w] \in {"entry", "lookup", "settle"}, pc'[w] # "settle",
         result' = [result EXCEPT ![w][index[w]] = r],
         \A v \in Walks \ {w} : /\ pc'[v] = pc[v] /\ index'[v] = index[v]
                                /\ seen'[v] = seen[v] /\ text'[v] = text[v]
  PROVE  /\ <<w, index[w]>> \in Walks \X Entries
         /\ EntryPhase[<<w, index[w]>>] =
              IF pc[w] = "settle" /\ seen[w] = text[w] THEN "same" ELSE "pending"
         /\ EntryPhase' = [EntryPhase EXCEPT ![<<w, index[w]>>] = ReplyOf(r)]
<1>1. /\ index[w] \in Entries /\ result[w][index[w]] = "pending"
      /\ index[w] <= index[w]
  BY Current DEF TypeInv, Located, Entries
<1>2. /\ result'[w][index[w]] = r
      /\ \A e \in Entries : e # index[w] => result'[w][e] = result[w][e]
      /\ \A v \in Walks \ {w} : result'[v] = result[v]
  BY OneResult
<1>3. r # "pending"
  BY DEF Stored, Failed
<1>4. EntryPhase[<<w, index[w]>>] =
        IF pc[w] = "settle" /\ seen[w] = text[w] THEN "same" ELSE "pending"
  BY <1>1, PhaseOf DEF PhaseAt, SeenSame
<1>5. EntryPhase'[<<w, index[w]>>] = ReplyOf(r)
  BY <1>1, <1>2, <1>3, PhaseOf DEF PhaseAt
<1>6. ASSUME NEW v \in Walks, NEW e \in Entries, <<v, e>> # <<w, index[w]>>
      PROVE  EntryPhase'[<<v, e>>] = EntryPhase[<<v, e>>]
  <2>1. result'[v][e] = result[v][e]
    BY <1>2, <1>6
  <2>2. SeenSame(v, e)' <=> SeenSame(v, e)
    BY <1>6 DEF SeenSame
  <2> QED BY <2>1, <2>2, PhaseOf DEF PhaseAt
<1>7. <<w, index[w]>> \in Walks \X Entries
  BY <1>1
<1> QED BY <1>4, <1>5, <1>6, <1>7, PhaseChange

\* A failed entry is a failed call.
LEMMA FailStep ==
  ASSUME TypeInv, NEW w \in Walks, NEW r \in {"unread", "empty", "error", "broken", "spill"},
         index[w] <= last[w], pc[w] \in {"entry", "lookup", "settle"}, pc'[w] # "settle",
         result' = [result EXCEPT ![w][index[w]] = r], stored' = stored,
         \A v \in Walks \ {w} : /\ pc'[v] = pc[v] /\ index'[v] = index[v]
                                /\ seen'[v] = seen[v] /\ text'[v] = text[v]
  PROVE  KB!Next
<1>1. r \in Stored \cup Failed /\ ReplyOf(r) \in {"failed", "error"}
  BY DEF Failed, Stored, ReplyOf
<1>2. /\ <<w, index[w]>> \in Walks \X Entries
      /\ EntryPhase[<<w, index[w]>>] \in {"pending", "same"}
      /\ EntryPhase' = [EntryPhase EXCEPT ![<<w, index[w]>>] = ReplyOf(r)]
  BY <1>1, CountedPhase
<1>3. Searchable' = Searchable
  BY DEF Searchable
<1> QED BY <1>1, <1>2, <1>3 DEF KB!Next, KB!Fail

\* A published entry is a published call.
LEMMA PublishStep ==
  ASSUME TypeInv, NEW w \in Walks, NEW r \in {"ingested", "broken"},
         pc[w] = "settle", CanPublish(w), Publish(w), Record(w, r)
  PROVE  KB!Next
<1>1. index[w] <= last[w] /\ seen[w] # text[w] /\ pc'[w] # "settle"
  BY DEF TypeInv, TypeOK, Located, CanPublish, Record
<1>2. r \in Stored \cup Failed /\ ReplyOf(r) \in {"ingested", "error"}
  BY DEF Failed, Stored, ReplyOf
<1>3. /\ result' = [result EXCEPT ![w][index[w]] = r]
      /\ \A v \in Walks \ {w} : /\ pc'[v] = pc[v] /\ index'[v] = index[v]
                                /\ seen'[v] = seen[v] /\ text'[v] = text[v]
  BY DEF Record, TypeInv, TypeOK
<1>4. /\ <<w, index[w]>> \in Walks \X Entries
      /\ EntryPhase[<<w, index[w]>>] = "pending"
      /\ EntryPhase' = [EntryPhase EXCEPT ![<<w, index[w]>>] = ReplyOf(r)]
  BY <1>1, <1>2, <1>3, CountedPhase
<1>5. /\ Source(w) \in Sources /\ text[w] \in Texts /\ ChunkCount[text[w]] > 0
      /\ Searchable' = [Searchable EXCEPT ![Source(w)] = KB!Chunking(text[w])]
  BY PublishSearchable
<1>6. KB!Publish(<<w, index[w]>>)
  BY <1>2, <1>4, <1>5 DEF KB!Publish
<1> QED BY <1>4, <1>6 DEF KB!Next

\* Every step is one of the knowledge base's, or none.
LEMMA RefinementStep ==
  ASSUME TypeInv, [Next]_vars
  PROVE  [KB!Next]_(KB!kbVars)
<1>1. ASSUME NEW w \in Walks, NEW r, Record(w, r)
      PROVE  /\ pc'[w] = "entry" /\ result' = [result EXCEPT ![w][index[w]] = r]
             /\ \A v \in Walks \ {w} : /\ pc'[v] = pc[v] /\ index'[v] = index[v]
                                       /\ seen'[v] = seen[v] /\ text'[v] = text[v]
  BY <1>1 DEF Record, TypeInv, TypeOK
<1>2. ASSUME NEW w \in Walks, Start(w) PROVE UNCHANGED KB!kbVars
  BY <1>2, QuietStep DEF Start, TypeInv, TypeOK
<1>3. ASSUME NEW w \in Walks, Unloadable(w) \/ Finish(w) PROVE UNCHANGED KB!kbVars
  <2>1. \E r : Leave(w, r)
    BY <1>3, ManifestAssumption DEF Unloadable, Finish
  <2>2. /\ pc[w] # "settle" /\ pc'[w] # "settle" /\ UNCHANGED <<stored, index, result>>
        /\ \A v \in Walks \ {w} : pc'[v] = pc[v] /\ seen'[v] = seen[v] /\ text'[v] = text[v]
    BY <1>3, <2>1 DEF Unloadable, Finish, Leave, TypeInv, TypeOK
  <2> QED BY <2>2, QuietStep
<1>4. ASSUME NEW w \in Walks, Read(w) PROVE UNCHANGED KB!kbVars
  BY <1>4, QuietStep DEF Read, TypeInv, TypeOK
<1>5. ASSUME NEW w \in Walks, pc[w] \in {"lookup", "settle"} PROVE index[w] <= last[w]
  BY <1>5 DEF TypeInv, Located
<1>6. ASSUME NEW w \in Walks, NEW r \in {"unread", "empty", "error", "broken", "spill"},
             Record(w, r), index[w] <= last[w],
             pc[w] \in {"entry", "lookup", "settle"}, stored' = stored
      PROVE  KB!Next
  <2>1. /\ pc'[w] # "settle" /\ result' = [result EXCEPT ![w][index[w]] = r]
        /\ \A v \in Walks \ {w} : /\ pc'[v] = pc[v] /\ index'[v] = index[v]
                                  /\ seen'[v] = seen[v] /\ text'[v] = text[v]
    BY <1>1, <1>6
  <2> QED BY <1>6, <2>1, FailStep
<1>7. ASSUME NEW w \in Walks, Skip(w) \/ FetchFails(w) PROVE KB!Next
  BY <1>6, <1>7 DEF Skip, FetchFails
<1>8. ASSUME NEW w \in Walks, LookUp(w) PROVE [KB!Next]_(KB!kbVars)
  <2>1. pc[w] = "lookup" /\ index[w] <= last[w] /\ Source(w) \in Sources /\ text[w] \in Texts
    BY <1>8 DEF LookUp, TypeInv, Located
  <2>2. CASE Record(w, "empty") /\ Close(w)
    BY <1>6, <1>8, <2>1, <2>2 DEF LookUp
  <2>3. CASE /\ seen' = [seen EXCEPT ![w] = stored[Source(w)]]
             /\ pc' = [pc EXCEPT ![w] = "settle"]
             /\ UNCHANGED <<index, last, text, session, result, reply>>
    <3>1. stored' = stored /\ seen'[w] = stored[Source(w)] /\ pc'[w] = "settle"
      BY <1>8, <2>3 DEF LookUp, TypeInv, TypeOK
    <3>2. \A v \in Walks \ {w} : pc'[v] = pc[v] /\ seen'[v] = seen[v]
      BY <2>3 DEF TypeInv, TypeOK
    <3>3. CASE stored[Source(w)] # text[w]
      BY <2>1, <2>3, <3>1, <3>2, <3>3, QuietStep
    <3>4. CASE stored[Source(w)] = text[w]
      <4>1. index[w] \in Entries /\ result[w][index[w]] = "pending"
        BY <2>1, Current DEF TypeInv, Located, Entries
      <4>2. /\ EntryPhase[<<w, index[w]>>] = "pending"
            /\ EntryPhase'[<<w, index[w]>>] = "same"
        BY <2>1, <2>3, <3>1, <3>4, <4>1, PhaseOf DEF PhaseAt, SeenSame
      <4>3. ASSUME NEW v \in Walks, NEW e \in Entries, <<v, e>> # <<w, index[w]>>
            PROVE  EntryPhase'[<<v, e>>] = EntryPhase[<<v, e>>]
        <5>1. SeenSame(v, e)' <=> SeenSame(v, e)
          BY <2>1, <2>3, <3>2, <4>3 DEF SeenSame
        <5> QED BY <2>3, <5>1, PhaseOf DEF PhaseAt
      <4>4. <<w, index[w]>> \in Walks \X Entries
        BY <4>1
      <4>5. EntryPhase' = [EntryPhase EXCEPT ![<<w, index[w]>>] = "same"]
        BY <4>2, <4>3, <4>4, PhaseChange
      <4>6. /\ Searchable' = Searchable
            /\ Searchable[Source(w)] = KB!Chunking(text[w]) /\ Searchable[Source(w)] # {}
        BY <2>1, <3>1, <3>4, ManifestAssumption, SearchableText DEF Searchable
      <4> QED BY <2>1, <4>2, <4>4, <4>5, <4>6 DEF KB!Next, KB!FindSame
    <3> QED BY <3>3, <3>4
  <2> QED BY <1>8, <2>2, <2>3 DEF LookUp
<1>9. ASSUME NEW w \in Walks, Spill(w) \/ Conflict(w) \/ StatementFails(w) PROVE KB!Next
  <2>1. /\ pc[w] \in {"lookup", "settle"} /\ stored' = stored
        /\ Record(w, "spill") \/ Record(w, "error")
    BY <1>9 DEF Spill, Conflict, StatementFails
  <2> QED BY <1>5, <1>6, <2>1
<1>10. ASSUME NEW w \in Walks, Unchanged(w) PROVE KB!Next
  <2>1. /\ pc[w] = "settle" /\ seen[w] = text[w] /\ stored' = stored
        /\ Record(w, "unchanged") /\ index[w] <= last[w]
    BY <1>5, <1>10 DEF Unchanged
  <2>2. "unchanged" \in Stored \cup Failed /\ ReplyOf("unchanged") = "unchanged"
    BY DEF Stored, ReplyOf
  <2>3. /\ pc'[w] # "settle" /\ result' = [result EXCEPT ![w][index[w]] = "unchanged"]
        /\ \A v \in Walks \ {w} : /\ pc'[v] = pc[v] /\ index'[v] = index[v]
                                  /\ seen'[v] = seen[v] /\ text'[v] = text[v]
    BY <1>1, <2>1
  <2>4. /\ <<w, index[w]>> \in Walks \X Entries
        /\ EntryPhase[<<w, index[w]>>] = "same"
        /\ EntryPhase' = [EntryPhase EXCEPT ![<<w, index[w]>>] = "unchanged"]
    BY <2>1, <2>2, <2>3, CountedPhase
  <2>5. Searchable' = Searchable
    BY <2>1 DEF Searchable
  <2> QED BY <2>4, <2>5 DEF KB!Next, KB!ReplySame
<1>11. ASSUME NEW w \in Walks, Ingest(w) PROVE KB!Next
  BY <1>11, PublishStep DEF Ingest
<1>12. ASSUME NEW w \in Walks, CommitRaises(w) PROVE KB!Next
  <2>1. CASE CanPublish(w) /\ Publish(w)
    BY <1>12, <2>1, PublishStep DEF CommitRaises
  <2>2. CASE stored' = stored
    BY <1>5, <1>6, <1>12, <2>2 DEF CommitRaises
  <2> QED BY <1>12, <2>1, <2>2 DEF CommitRaises
<1>13. ASSUME NEW w \in Walks, Die(w) PROVE [KB!Next]_(KB!kbVars)
  <2>1. /\ pc'[w] # "settle" /\ UNCHANGED <<stored, index>>
        /\ \A v \in Walks \ {w} : pc'[v] = pc[v] /\ seen'[v] = seen[v] /\ text'[v] = text[v]
    BY <1>13 DEF Die, Leave, TypeInv, TypeOK
  <2>2. CASE pc[w] = "entry"
    <3>1. UNCHANGED result
      BY <1>13, <2>2 DEF Die
    <3> QED BY <2>1, <2>2, <3>1, QuietStep
  <2>3. CASE pc[w] # "entry"
    <3>1. result' = [result EXCEPT ![w][index[w]] = "error"] /\ pc[w] \in {"lookup", "settle"}
      BY <1>13, <2>3 DEF Die, Running
    <3>2. "error" \in {"unread", "empty", "error", "broken", "spill"} /\ index[w] <= last[w]
      BY <1>5, <3>1
    <3> QED BY <2>1, <3>1, <3>2, FailStep
  <2> QED BY <2>2, <2>3
<1>14. Edit \/ UNCHANGED vars => UNCHANGED KB!kbVars
  BY QuietStep DEF Edit, vars
<1> QED BY <1>2, <1>3, <1>4, <1>7, <1>8, <1>9, <1>10, <1>11, <1>12, <1>13, <1>14
        DEF Next, Step, GoesWrong, Terminated

\* A walk implements the knowledge base: one atomic effect per entry.
THEOREM Refinement == Spec => ImplementsKnowledgeBase
<1>1. TypeInv /\ [Next]_vars => [KB!Next]_(KB!kbVars)
  BY RefinementStep
<1> QED BY TypeInvariant, RefinementInit, <1>1, PTL
        DEF Spec, ImplementsKnowledgeBase, KB!Spec
=============================================================================
