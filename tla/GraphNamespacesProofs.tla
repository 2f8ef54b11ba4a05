------------------------- MODULE GraphNamespacesProofs -------------------------
(***************************************************************************)
(* For every number of backends, graphs, labels, addresses and             *)
(* transactions: the shared cache of graph rows never shows what was rolled *)
(* back, once the callback of the abort has run, and the relations of a    *)
(* graph that no two transactions work on at once, and whose entry nobody  *)
(* overwrites under a call, stand where they are looked for.               *)
(***************************************************************************)
EXTENDS GraphNamespaces, FiniteSetTheorems, SequenceTheorems, TLAPS

\* A row of np_graph, whatever its id, name and namespace.
IsGraphRow(r) ==
    /\ r = [id |-> r.id, name |-> r.name, ns |-> r.ns, xmin |-> r.xmin, xmax |-> r.xmax]
    /\ r.xmin \in XidsOf(xact) /\ r.xmax \in XidsOf(xact)

RowsAreRows == \A r \in rows : IsGraphRow(r)

\* An open transaction is running, and no other backend has it.
OpenXactsRun ==
    \A b \in Backend : xid[b] # NoXid =>
        /\ xact[xid[b]] = "running"
        /\ \A c \in Backend \ {b} : xid[c] # xid[b]

\* Whatever is to be read at an address was a row once.
EntriesAreRows ==
    /\ used \subseteq Slot /\ shown = [s \in Slot |-> shown[s]]
    /\ \A s \in Slot : shown[s] = Nothing \/ \E r \in rows : Copy(r) = shown[s]

(***************************************************************************)
(* An entry may be made from a row its own transaction has just written,   *)
(* and shown to everybody.  That it is gone when the transaction aborts    *)
(* follows from the flush; that it is right until then needs to be known   *)
(* of the rows a backend can see: their writers have committed or run.     *)
(***************************************************************************)
CacheInv ==
    /\ xact \in Seq(XactStatus)
    /\ xid \in [Backend -> XidsOf(xact)]
    /\ RowsAreRows
    /\ OpenXactsRun
    /\ EntriesAreRows /\ call = [b \in Backend |-> call[b]]
    /\ CopiesWereWritten

\* Rows are stamped and added, and every copy keeps a row, one that may count if
\* it had one.
RowsKept ==
    \A r \in rows : \E s \in rows' :
        Copy(s) = Copy(r) /\ (~DidAbort(xact, r.xmin) => ~DidAbort(xact', s.xmin))

\* What an address shows it has shown before or is of a row the backend sees.
CacheFed(b) ==
    /\ used' \subseteq Slot /\ shown' = [s \in Slot |-> shown'[s]]
    /\ \A s \in Slot : \/ shown'[s] = shown[s] /\ (s \in used' => s \in used)
                       \/ \E r \in LiveRows(b) : shown'[s] = Copy(r)

\* A callback that is to come still is.
FlushesStay ==
    /\ call' = [c \in Backend |-> call'[c]]
    /\ \A c \in Backend : call[c].op = "flush" => call'[c].op = "flush"

LEMMA InitCache == Init => CacheInv
  <1> SUFFICES ASSUME Init PROVE CacheInv
    OBVIOUS
  <1>1. xact = <<"committed">> /\ "committed" \in XactStatus
    BY DEF Init, XactStatus
  <1>2. xact \in Seq(XactStatus) /\ DOMAIN xact = {1}
    BY <1>1
  <1>3. xid \in [Backend -> XidsOf(xact)] /\ OpenXactsRun
    BY DEF Init, XidsOf, OpenXactsRun
  <1>4. RowsAreRows
    <2>1. PICK name \in Name, ns \in Namespace :
             rows = {[id |-> 1, name |-> name, ns |-> ns, xmin |-> 1, xmax |-> NoXid]}
      BY DEF Init
    <2>2. 1 \in XidsOf(xact) /\ NoXid \in XidsOf(xact)
      BY <1>2 DEF XidsOf
    <2>3. QED  BY <2>1, <2>2 DEF RowsAreRows, IsGraphRow
  <1>5. CopiesWereWritten /\ EntriesAreRows /\ call = [b \in Backend |-> call[b]]
    BY DEF Init, CopiesWereWritten, EntriesAreRows
  <1>6. QED  BY <1>2, <1>3, <1>4, <1>5 DEF CacheInv

\* What a backend sees was written by itself or by a committed transaction.
LEMMA LiveRowsStand ==
    ASSUME CacheInv, NEW b \in Backend, NEW r \in LiveRows(b)
    PROVE  r \in rows /\ ~DidAbort(xact, r.xmin)
    BY DEF LiveRows, Live, TupleIsLive, IsOwn, DidCommit, DidAbort, CacheInv, OpenXactsRun

\* So it is enough to know what a step does to rows and cache.
LEMMA CopiesKept ==
    ASSUME CacheInv, NEW b \in Backend, RowsKept, CacheFed(b), FlushesStay
    PROVE  CopiesWereWritten' /\ EntriesAreRows'
  <1>1. ASSUME NEW s \in used', \A c \in Backend : call[c].op # "flush"
        PROVE  \E q \in rows' : Copy(q) = shown'[s] /\ ~DidAbort(xact', q.xmin)
    <2>1. PICK r \in rows : Copy(r) = shown'[s] /\ ~DidAbort(xact, r.xmin)
      <3>1. CASE shown'[s] = shown[s] /\ s \in used
        BY <1>1, <3>1 DEF CacheInv, CopiesWereWritten
      <3>2. CASE \E r \in LiveRows(b) : shown'[s] = Copy(r)
        BY <3>2, LiveRowsStand
      <3>3. QED  BY <3>1, <3>2 DEF CacheFed
    <2>2. QED  BY <2>1 DEF RowsKept
  <1>2. CopiesWereWritten'
    <2>1. \A r : Copy(r)' = Copy(r)
      BY DEF Copy
    <2>2. QED  BY <1>1, <2>1 DEF CopiesWereWritten, FlushesStay
  <1>3. ASSUME NEW s \in Slot, shown'[s] # Nothing PROVE \E q \in rows' : Copy(q) = shown'[s]
    <2>1. PICK r \in rows : Copy(r) = shown'[s]
      <3>1. CASE shown'[s] = shown[s]
        BY <1>3, <3>1 DEF CacheInv, EntriesAreRows
      <3>2. CASE \E r \in LiveRows(b) : shown'[s] = Copy(r)
        BY <3>2, LiveRowsStand
      <3>3. QED  BY <3>1, <3>2 DEF CacheFed
    <2>2. QED  BY <2>1 DEF RowsKept
  <1>4. EntriesAreRows'
    BY <1>3 DEF EntriesAreRows, CacheFed, Copy, Nothing
  <1>5. QED  BY <1>2, <1>4

LEMMA EnteredFeeds ==
    ASSUME CacheInv, NEW b \in Backend, NEW s \in Slot, NEW r \in LiveRows(b), Enters(s, r)
    PROVE  CacheFed(b)
    BY DEF Enters, CacheFed, CacheInv, EntriesAreRows

LEMMA SameCacheFeeds ==
    ASSUME CacheInv, NEW b \in Backend, UNCHANGED <<used, shown>>
    PROVE  CacheFed(b)
    BY DEF CacheFed, CacheInv, EntriesAreRows

\* A step of a backend that has no callback to come.
LEMMA OtherFlushesStay ==
    ASSUME CacheInv, NEW b \in Backend, call[b].op # "flush",
           NEW c, call' = [call EXCEPT ![b] = c]
    PROVE  FlushesStay
    BY DEF CacheInv, FlushesStay

\* The lookups of a call change the cache and the call only.
LEMMA LookupStep ==
    ASSUME CacheInv, NEW b \in Backend, UNCHANGED <<xact, xid, rows>>, CacheFed(b), FlushesStay
    PROVE  CacheInv'
  <1>1. RowsKept
    BY DEF RowsKept
  <1>2. CopiesWereWritten' /\ EntriesAreRows'
    BY <1>1, CopiesKept
  <1>3. call' = [c \in Backend |-> call'[c]]
    BY DEF FlushesStay
  <1>4. QED  BY <1>2, <1>3 DEF CacheInv, RowsAreRows, IsGraphRow, OpenXactsRun

\* The cache is emptied.  Who holds an address still reads what was there.
LEMMA Emptied ==
    ASSUME CacheInv, UNCHANGED <<xact, xid, rows>>, used' = {}, NEW entries, shown' = Remains(entries),
           call' = [c \in Backend |-> call'[c]]
    PROVE  CacheInv'
  <1>1. CopiesWereWritten'
    BY DEF CopiesWereWritten
  <1>2. EntriesAreRows'
    <2>1. shown' = [s \in Slot |-> shown'[s]] /\ \A s \in Slot : shown'[s] \in {shown[s], Nothing}
      BY DEF Remains
    <2>2. QED  BY <2>1 DEF CacheInv, EntriesAreRows, Copy, Nothing
  <1>3. QED  BY <1>1, <1>2 DEF CacheInv, RowsAreRows, IsGraphRow, OpenXactsRun

LEMMA EndStep ==
    ASSUME CacheInv, NEW b \in Backend, Commit(b) \/ Abort(b)
    PROVE  CacheInv'
  <1>1. /\ xid[b] # NoXid /\ UNCHANGED <<rows, used, shown>> /\ xid' = [xid EXCEPT ![b] = NoXid]
        /\ \/ /\ xact' = [xact EXCEPT ![xid[b]] = "committed"]
              /\ call[b].op = "none" /\ call' = [call EXCEPT ![b] = NoCall]
           \/ /\ xact' = [xact EXCEPT ![xid[b]] = "aborted"]
              /\ call' = [call EXCEPT ![b] = Flushing]
    BY DEF Commit, Abort, End
  <1>2. /\ xact \in Seq(XactStatus) /\ xid[b] \in DOMAIN xact /\ xid \in [Backend -> XidsOf(xact)]
        /\ DOMAIN xact = 1 .. Len(xact) /\ {"committed", "aborted"} \subseteq XactStatus
    BY <1>1, LenProperties DEF CacheInv, XidsOf, XactStatus
  <1>3. xact' \in Seq(XactStatus) /\ DOMAIN xact' = DOMAIN xact
    BY <1>1, <1>2, ExceptSeq
  <1>4. xid' \in [Backend -> XidsOf(xact')] /\ RowsAreRows'
    BY <1>1, <1>2, <1>3 DEF CacheInv, XidsOf, RowsAreRows, IsGraphRow
  <1>5. OpenXactsRun'
    BY <1>1, <1>2 DEF CacheInv, OpenXactsRun, XidsOf
  <1>6. EntriesAreRows' /\ call' = [c \in Backend |-> call'[c]]
    BY <1>1 DEF CacheInv, EntriesAreRows, Copy, Nothing
  <1>7. CopiesWereWritten'
    <2>1. CASE xact' = [xact EXCEPT ![xid[b]] = "committed"] /\ call[b].op = "none" /\ call' = [call EXCEPT ![b] = NoCall]
      <3>1. RowsKept
        BY <1>1, <1>2, <2>1 DEF RowsKept, DidAbort
      <3>2. CacheFed(b) /\ FlushesStay
        BY <1>1, <2>1, SameCacheFeeds, OtherFlushesStay
      <3>3. QED  BY <3>1, <3>2, CopiesKept
    <2>2. CASE call' = [call EXCEPT ![b] = Flushing]
      BY <2>2 DEF CacheInv, CopiesWereWritten, Flushing
    <2>3. QED  BY <1>1, <2>1, <2>2
  <1>8. QED  BY <1>3, <1>4, <1>5, <1>6, <1>7 DEF CacheInv

\* A call does its work: it gets a transaction if it has none, stamps rows and
\* writes new ones.
LEMMA WorkStep ==
    ASSUME CacheInv, NEW b \in Backend, Assign(b), CacheFed(b), FlushesStay,
           NEW gone, NEW new, gone \subseteq rows,
           rows' = (rows \ gone) \cup {Stamped(b, r) : r \in gone} \cup {Written(b, r) : r \in new},
           \A r \in new : IsGraphRow(r)
    PROVE  CacheInv'
  <1>1. /\ xact \in Seq(XactStatus) /\ Len(xact) \in Nat /\ DOMAIN xact = 1 .. Len(xact)
        /\ xid \in [Backend -> XidsOf(xact)] /\ "running" \in XactStatus
    BY LenProperties DEF CacheInv, XactStatus
  <1>2. /\ xact' \in Seq(XactStatus) /\ \A x \in DOMAIN xact : xact'[x] = xact[x]
        /\ XidsOf(xact) \subseteq XidsOf(xact') /\ TopXid(b) \in DOMAIN xact'
        /\ xact'[TopXid(b)] = "running"
    <2>1. CASE xid[b] = NoXid
      <3>1. xact' = Append(xact, "running") /\ TopXid(b) = Len(xact) + 1
        BY <2>1 DEF Assign, TopXid
      <3>2. xact' \in Seq(XactStatus) /\ Len(xact') = Len(xact) + 1 /\ DOMAIN xact' = 1 .. Len(xact')
        BY <1>1, <3>1
      <3>3. QED  BY <1>1, <3>1, <3>2 DEF XidsOf
    <2>2. CASE xid[b] # NoXid
      BY <1>1, <2>2 DEF Assign, TopXid, XidsOf, CacheInv, OpenXactsRun
    <2>3. QED  BY <2>1, <2>2
  <1>3. /\ xid'[b] = TopXid(b) /\ \A c \in Backend \ {b} : xid'[c] = xid[c]
        /\ xid' \in [Backend -> XidsOf(xact')]
    BY <1>1, <1>2 DEF Assign, XidsOf
  <1>4. OpenXactsRun'
    <2>1. \A c \in Backend : xid[c] # NoXid => xid[c] \in DOMAIN xact
      BY <1>1 DEF XidsOf
    <2>2. \A c \in Backend \ {b} : xid[c] # TopXid(b)
      BY <1>1, <2>1 DEF TopXid, CacheInv, OpenXactsRun, NoXid
    <2>3. QED  BY <1>2, <1>3, <2>1, <2>2 DEF CacheInv, OpenXactsRun
  <1>5. RowsAreRows'
    <2>1. SUFFICES ASSUME NEW s \in rows' PROVE IsGraphRow(s)'
      BY DEF RowsAreRows
    <2>2. ASSUME NEW r \in rows, s = r \/ s = Stamped(b, r) PROVE IsGraphRow(s)'
      <3>1. /\ r = [id |-> r.id, name |-> r.name, ns |-> r.ns, xmin |-> r.xmin, xmax |-> r.xmax]
            /\ r.xmin \in XidsOf(xact') /\ r.xmax \in XidsOf(xact')
        BY <1>2 DEF CacheInv, RowsAreRows, IsGraphRow
      <3>2. s = r \/ s = [id |-> r.id, name |-> r.name, ns |-> r.ns, xmin |-> r.xmin, xmax |-> TopXid(b)]
        BY <2>2, <3>1 DEF Stamped
      <3>3. QED  BY <1>2, <3>1, <3>2 DEF IsGraphRow, XidsOf
    <2>3. ASSUME NEW r \in new, s = Written(b, r) PROVE IsGraphRow(s)'
      <3>1. r = [id |-> r.id, name |-> r.name, ns |-> r.ns, xmin |-> r.xmin, xmax |-> r.xmax]
        BY DEF IsGraphRow
      <3>2. s = [id |-> r.id, name |-> r.name, ns |-> r.ns, xmin |-> TopXid(b), xmax |-> NoXid]
        BY <2>3, <3>1 DEF Written
      <3>3. QED  BY <1>2, <3>2 DEF IsGraphRow, XidsOf
    <2>4. QED  BY <2>2, <2>3
  <1>6. RowsKept
    <2>1. SUFFICES ASSUME NEW r \in rows
                   PROVE  \E s \in rows' :
                            Copy(s) = Copy(r) /\ (~DidAbort(xact, r.xmin) => ~DidAbort(xact', s.xmin))
      BY DEF RowsKept
    <2>2. ~DidAbort(xact, r.xmin) => ~DidAbort(xact', r.xmin)
      BY <1>2 DEF CacheInv, RowsAreRows, IsGraphRow, XidsOf, DidAbort
    <2>3. Copy(Stamped(b, r)) = Copy(r) /\ Stamped(b, r).xmin = r.xmin
      BY DEF CacheInv, RowsAreRows, IsGraphRow, Stamped, Copy
    <2>4. r \in rows' \/ Stamped(b, r) \in rows'
      OBVIOUS
    <2>5. QED  BY <2>2, <2>3, <2>4
  <1>7. CopiesWereWritten' /\ EntriesAreRows'
    BY <1>6, CopiesKept
  <1>8. call' = [c \in Backend |-> call'[c]]
    BY DEF FlushesStay
  <1>9. QED  BY <1>2, <1>3, <1>4, <1>5, <1>7, <1>8 DEF CacheInv

LEMMA InvalidateStep == ASSUME CacheInv, Invalidate PROVE CacheInv'
  <1>1. PICK entries : /\ entries = Flushed(used) /\ used' = entries /\ shown' = Remains(entries)
                       /\ UNCHANGED <<xact, xid, rows, call>>
    BY DEF Invalidate
  <1>2. used' = {} /\ call' = [c \in Backend |-> call'[c]]
    BY <1>1 DEF Flushed, CacheInv
  <1>3. QED  BY <1>1, <1>2, Emptied

LEMMA FlushStep == ASSUME CacheInv, NEW b \in Backend, Flush(b) PROVE CacheInv'
  <1>1. PICK entries : /\ entries = AfterAbort(used) /\ used' = entries /\ shown' = Remains(entries)
                       /\ UNCHANGED <<xact, xid, rows>> /\ call' = [call EXCEPT ![b] = NoCall]
    BY DEF Flush
  <1>2. used' = {} /\ call' = [c \in Backend |-> call'[c]]
    BY <1>1 DEF AfterAbort, Flushed, CacheInv
  <1>3. QED  BY <1>1, <1>2, Emptied

LEMMA FailStep == ASSUME CacheInv, NEW b \in Backend, Fail(b) PROVE CacheInv'
  <1>1. /\ UNCHANGED <<xact, xid, rows, used, shown>> /\ call[b].op # "flush"
        /\ call' = [call EXCEPT ![b] = Flushing]
    BY DEF Fail
  <1>2. QED  BY <1>1, SameCacheFeeds, OtherFlushesStay, LookupStep

\* Calls that look a graph up.
LEMMA LooksFacts ==
    ASSUME CacheInv, NEW b \in Backend, NEW r \in LiveRows(b), NEW c,
           LooksByName(b, r, c) \/ LooksById(b, c)
    PROVE  /\ CacheFed(b) /\ UNCHANGED <<xact, xid, rows, rels>>
           /\ \E d : call' = [call EXCEPT ![b] = d]
  <1>1. CASE LooksByName(b, r, c)
    <2>1. PICK s \in Slot : Enters(s, r) /\ Looks(b, [c EXCEPT !.entry = s], Overwritten(b, s, r))
      BY <1>1 DEF LooksByName
    <2>2. QED  BY <2>1, EnteredFeeds DEF Looks
  <1>2. CASE LooksById(b, c)
    <2>1. PICK s \in Slot :
        \/ UNCHANGED cache /\ Looks(b, [c EXCEPT !.entry = s, !.row = shown[s]], {})
        \/ \E t \in LiveRows(b) :
             Enters(s, t) /\ Looks(b, [c EXCEPT !.entry = s, !.row = Copy(t)], Overwritten(b, s, t))
      BY <1>2 DEF LooksById
    <2>2. CASE UNCHANGED cache /\ Looks(b, [c EXCEPT !.entry = s, !.row = shown[s]], {})
      BY <2>2, SameCacheFeeds DEF Looks, cache
    <2>3. ASSUME NEW t \in LiveRows(b), Enters(s, t),
                 Looks(b, [c EXCEPT !.entry = s, !.row = Copy(t)], Overwritten(b, s, t))
          PROVE  /\ CacheFed(b) /\ UNCHANGED <<xact, xid, rows, rels>>
                 /\ \E d : call' = [call EXCEPT ![b] = d]
      BY <2>3, EnteredFeeds DEF Looks
    <2>4. QED  BY <2>1, <2>2, <2>3
  <1>3. QED  BY <1>1, <1>2

\* Steps of a call that look a graph up.
StartsCall(b, r) ==
    \/ StartDrop(b, r) \/ StartLabel(b, r)
    \/ \E to \in Namespace : StartAlter(b, r, to)
    \/ StartSetLabel(b, r) \/ StartEdgeLabel(b, r) \/ StartReducedLabel(b, r)
    \/ \E path \in Namespace : NameLabel(b, r, path)

LEMMA StartStep ==
    ASSUME CacheInv, NEW b \in Backend, NEW r \in LiveRows(b), StartsCall(b, r)
    PROVE  CacheInv'
  <1>1. /\ call[b].op # "flush"
        /\ \E c : LooksByName(b, r, c) \/ LooksById(b, c)
    BY DEF StartsCall, StartDrop, StartLabel, StartAlter, StartSetLabel, StartEdgeLabel,
           StartReducedLabel, NameLabel, Calls
  <1>2. /\ CacheFed(b) /\ UNCHANGED <<xact, xid, rows>>
        /\ \E d : call' = [call EXCEPT ![b] = d]
    BY <1>1, LooksFacts
  <1>3. QED  BY <1>1, <1>2, OtherFlushesStay, LookupStep

\* Steps of a call that read through its entry.
LEMMA ReadStep ==
    ASSUME CacheInv, NEW b \in Backend, Collect(b) \/ FirstRead(b)
    PROVE  CacheInv'
  <1>1. /\ UNCHANGED <<xact, xid, rows, used, shown>> /\ call[b].op # "flush"
        /\ call' = [c \in Backend |-> call'[c]] /\ \A c \in Backend \ {b} : call'[c] = call[c]
    BY DEF Collect, FirstRead, CacheInv
  <1>2. QED  BY <1>1, SameCacheFeeds, LookupStep DEF FlushesStay

LEMMA CreateStep ==
    ASSUME CacheInv, NEW b \in Backend, NEW name \in Name, NEW ns \in Namespace,
           CreateGraph(b, name, ns)
    PROVE  CacheInv'
  <1> DEFINE r == [id |-> Cardinality(Ids) + 1, name |-> name, ns |-> ns,
                   xmin |-> NoXid, xmax |-> NoXid]
  <1>1. Assign(b) /\ rows' = rows \cup {Written(b, r)} /\ CacheFed(b) /\ FlushesStay
    <2>1. /\ Assign(b) /\ UNCHANGED <<used, shown>> /\ rows' = rows \cup {Written(b, r)}
          /\ call[b].op # "flush" /\ call' = [call EXCEPT ![b] = NoCall]
      BY DEF CreateGraph, Ends, Calls
    <2>2. QED  BY <2>1, SameCacheFeeds, OtherFlushesStay
  <1>2. IsGraphRow(r)
    BY DEF IsGraphRow, XidsOf
  <1> HIDE DEF r
  <1>3. PICK gone, new : gone = {} /\ new = {r}
    OBVIOUS
  <1>4. /\ rows' = (rows \ gone) \cup {Stamped(b, t) : t \in gone} \cup {Written(b, t) : t \in new}
        /\ gone \subseteq rows /\ \A t \in new : IsGraphRow(t)
    BY <1>1, <1>2, <1>3
  <1>5. QED  BY <1>1, <1>4, WorkStep

\* A row is replaced by another version: by a rename or a move, or by none, by a drop.
LEMMA ReplaceStep ==
    ASSUME CacheInv, NEW b \in Backend, Assign(b), CacheFed(b), FlushesStay, NEW r \in rows, NEW s,
           s \in {[r EXCEPT !.name = x] : x \in Name} \cup {[r EXCEPT !.ns = call[b].to]},
           \/ rows' = (rows \ {r}) \cup {Stamped(b, r), Written(b, s)}
           \/ rows' = (rows \ {r}) \cup {Stamped(b, r)}
    PROVE  CacheInv'
  <1>1. IsGraphRow(r)
    BY DEF CacheInv, RowsAreRows
  <1>2. IsGraphRow(s)
    <2>1. PICK n, w : s = [id |-> r.id, name |-> n, ns |-> w, xmin |-> r.xmin, xmax |-> r.xmax]
      BY <1>1 DEF IsGraphRow
    <2>2. QED  BY <1>1, <2>1 DEF IsGraphRow
  <1>3. CASE rows' = (rows \ {r}) \cup {Stamped(b, r), Written(b, s)}
    <2>1. PICK gone, new : gone = {r} /\ new = {s}
      OBVIOUS
    <2>2. /\ rows' = (rows \ gone) \cup {Stamped(b, t) : t \in gone} \cup {Written(b, t) : t \in new}
          /\ gone \subseteq rows /\ \A t \in new : IsGraphRow(t)
      BY <1>2, <1>3, <2>1
    <2>3. QED  BY <2>2, WorkStep
  <1>4. CASE rows' = (rows \ {r}) \cup {Stamped(b, r)}
    <2>1. PICK gone, new : gone = {r} /\ new = {}
      OBVIOUS
    <2>2. /\ rows' = (rows \ gone) \cup {Stamped(b, t) : t \in gone} \cup {Written(b, t) : t \in new}
          /\ gone \subseteq rows /\ \A t \in new : IsGraphRow(t)
      BY <1>2, <1>4, <2>1
    <2>3. QED  BY <2>2, WorkStep
  <1>5. QED  BY <1>3, <1>4

LEMMA FinishLabelStep ==
    ASSUME CacheInv, NEW b \in Backend, FinishLabel(b) PROVE CacheInv'
  <1>1. Assign(b) /\ CacheFed(b) /\ FlushesStay /\ rows' = rows
    <2>1. /\ Assign(b) /\ UNCHANGED <<rows, used, shown>>
          /\ call[b].op # "flush" /\ call' = [call EXCEPT ![b] = NoCall]
      BY DEF FinishLabel, Ends
    <2>2. QED  BY <2>1, SameCacheFeeds, OtherFlushesStay
  <1>2. PICK gone, new : gone = {} /\ new = {}
    OBVIOUS
  <1>3. /\ rows' = (rows \ gone) \cup {Stamped(b, t) : t \in gone} \cup {Written(b, t) : t \in new}
        /\ gone \subseteq rows /\ \A t \in new : IsGraphRow(t)
    BY <1>1, <1>2
  <1>4. QED  BY <1>1, <1>3, WorkStep

LEMMA CacheNext == CacheInv /\ [Next]_vars => CacheInv'
  <1> SUFFICES ASSUME CacheInv, [Next]_vars PROVE CacheInv'
    OBVIOUS
  <1>1. CASE UNCHANGED vars
    BY <1>1 DEF vars, CacheInv, RowsAreRows, IsGraphRow, OpenXactsRun, CopiesWereWritten,
                EntriesAreRows, Copy, Nothing
  <1>2. CASE Invalidate
    BY <1>2, InvalidateStep
  <1>3. ASSUME NEW b \in Backend, Commit(b) \/ Abort(b) \/ Fail(b) \/ Flush(b) PROVE CacheInv'
    BY <1>3, EndStep, FailStep, FlushStep
  <1>4. ASSUME NEW b \in Backend, FinishAlter(b) PROVE CacheInv'
    <2>1. PICK r \in LiveRows(b) :
             /\ rows' = (rows \ {r}) \cup {Stamped(b, r), Written(b, [r EXCEPT !.ns = call[b].to])}
             /\ Assign(b) /\ call' = [call EXCEPT ![b] = NoCall]
      BY <1>4 DEF FinishAlter, Ends
    <2>2. UNCHANGED <<used, shown>> /\ call[b].op # "flush"
      BY <1>4 DEF FinishAlter
    <2>3. Assign(b) /\ CacheFed(b) /\ FlushesStay /\ r \in rows
      BY <2>1, <2>2, SameCacheFeeds, OtherFlushesStay DEF LiveRows
    <2>4. QED  BY <2>1, <2>3, ReplaceStep
  <1>5. ASSUME NEW b \in Backend, FinishDrop(b) PROVE CacheInv'
    <2>1. PICK r \in LiveRows(b) : /\ rows' = (rows \ {r}) \cup {Stamped(b, r)}
                                   /\ Assign(b) /\ call' = [call EXCEPT ![b] = NoCall]
      BY <1>5 DEF FinishDrop, Ends
    <2>2. UNCHANGED <<used, shown>> /\ call[b].op # "flush"
      BY <1>5 DEF FinishDrop
    <2>3. Assign(b) /\ CacheFed(b) /\ FlushesStay /\ r \in rows
      BY <2>1, <2>2, SameCacheFeeds, OtherFlushesStay DEF LiveRows
    <2>4. QED  BY <2>1, <2>3, ReplaceStep
  <1>6. ASSUME NEW b \in Backend, FinishLabel(b) PROVE CacheInv'
    BY <1>6, FinishLabelStep
  <1>7. ASSUME NEW b \in Backend, NEW name \in Name, NEW ns \in Namespace,
               CreateGraph(b, name, ns)
        PROVE  CacheInv'
    BY <1>7, CreateStep
  <1>8. ASSUME NEW b \in Backend, NEW r \in LiveRows(b), NEW name \in Name,
               RenameGraph(b, r, name)
        PROVE  CacheInv'
    <2>1. /\ rows' = (rows \ {r}) \cup {Stamped(b, r), Written(b, [r EXCEPT !.name = name])}
          /\ Assign(b) /\ call' = [call EXCEPT ![b] = NoCall] /\ call[b].op # "flush"
          /\ \E s \in Slot : Enters(s, r)
      BY <1>8 DEF RenameGraph, Calls
    <2>2. Assign(b) /\ CacheFed(b) /\ FlushesStay /\ r \in rows
      BY <2>1, EnteredFeeds, OtherFlushesStay DEF LiveRows
    <2>3. QED  BY <2>1, <2>2, ReplaceStep
  <1>9. ASSUME NEW b \in Backend, NEW r \in LiveRows(b), StartsCall(b, r) PROVE CacheInv'
    BY <1>9, StartStep
  <1>10. ASSUME NEW b \in Backend, Collect(b) \/ FirstRead(b) PROVE CacheInv'
    BY <1>10, ReadStep
  <1>11. QED
    BY <1>1, <1>2, <1>3, <1>4, <1>5, <1>6, <1>7, <1>8, <1>9, <1>10 DEF Next, StartsCall

\* np_cache.c:880: an entry always shows a row that a running transaction or one
\* that committed wrote, whatever the lookups of other backends put in between;
\* what is rolled back is gone once the callbacks of the aborts have run.
THEOREM CopiesWereWrittenHolds == Spec => []CopiesWereWritten
  <1>1. CacheInv => CopiesWereWritten
    BY DEF CacheInv
  <1>2. QED  BY <1>1, InitCache, CacheNext, PTL DEF Spec
-----------------------------------------------------------------------------
(***************************************************************************)
(* Relations and labels.  A graph nobody raced for has one backend that    *)
(* works on it.  The others see what stands, this one sees what will stand *)
(* once it commits; in both views the relations are where they belong, and *)
(* what a call has looked up is still so when it does its work.  Its entry *)
(* still shows the row it found there.                                     *)
(***************************************************************************)

\* A relation without its versions.
Bare(x) == [kind |-> x.kind, graph |-> x.graph, label |-> x.label, ns |-> x.ns,
            asked |-> x.asked, how |-> x.how]

\* What transaction me sees of a graph; NoXid sees what stands.
RowsFor(me, g) == {Copy(r) : r \in {s \in rows : s.id = g /\ TupleIsLive(xact, me, s)}}
RelsFor(me, g) == {Bare(x) : x \in {y \in rels : y.graph = g /\ TupleIsLive(xact, me, y)}}
RowsStanding(g) == RowsFor(NoXid, g)
RelsStanding(g) == RelsFor(NoXid, g)
RowsSeen(b, g) == RowsFor(xid[b], g)
RelsSeen(b, g) == RelsFor(xid[b], g)

\* A row of the graph was replaced by one with another name or namespace.
Differ(g) == \E r, s \in rows : r.id = g /\ s.id = g /\ Copy(r) # Copy(s)
Left(g) == \E r, s \in rows : r.id = g /\ s.id = g /\ r.ns = Own /\ s.ns # Own

\* StandWithGraph and MadeWhereAsked, of copies R of rows and D of relations.
Placed(g, r, x) ==
    /\ x.kind = "own" => x.ns = r.ns
    /\ x.kind = "table" => x.ns = r.ns \/ x.how = "fixed" \/ (x.how = "copy" /\ Differ(g))
    /\ x.kind \notin {"own", "table"} => x.ns = Own \/ Left(g)
RightlyAsked(g, asked, how) ==
    asked = g \/ asked \in raced \/ (how = "name" /\ Differ(asked)) \/ how = "path"
InPlace(g, R, D) ==
    /\ R = {} => D = {} \/ Left(g)
    /\ \A r \in R, x \in D : Placed(g, r, x)
    /\ \A x \in D : RightlyAsked(g, x.asked, x.how)

Touches(x, g) == x # NoXid /\ \E t \in {r \in rows : r.id = g} \cup Of(g) : x \in {t.xmin, t.xmax}
InCall(b) == call[b].op \notin {"none", "flush"}
Works(b, g) == (InCall(b) /\ call[b].graph = g) \/ Touches(xid[b], g)
Alone(g) == \A b, c \in Backend : Works(b, g) /\ Works(c, g) => b = c

\* What a call has found is still right.
Movable(D) == {Oid(x) : x \in {y \in D : y.kind \in {"own", "catalog", "table"} \/ y.ns = Own}}
MovableOf(D, kinds) == Movable({x \in D : x.kind \in kinds})
CallFits(c, R, D) ==
    /\ c.op \in {"alter", "drop"} =>
         /\ c.reads # 0 => MovableOf(D, Part(0)) \subseteq c.oids
         /\ c.reads = 2 => Movable(D) \subseteq c.oids
    /\ c.op = "alter" => c.to # c.row.ns
    /\ c.op \notin {"alter", "drop", "set"} =>
         /\ \A r \in R : c.to = r.ns \/ c.how \in {"fixed", "copy"}
         /\ RightlyAsked(c.graph, c.asked, c.how)

GraphKept(g) ==
    /\ Alone(g)
    /\ InPlace(g, RowsStanding(g), RelsStanding(g))
    /\ \A b \in Backend : InPlace(g, RowsSeen(b, g), RelsSeen(b, g))
    /\ \A b \in Backend : InCall(b) /\ call[b].graph = g =>
         CallFits(call[b], RowsSeen(b, g), RelsSeen(b, g))

\* Versions are written and stamped by transactions, and stamped by others only
\* once they are committed.
VersionOK(t) ==
    /\ t.xmin \in DOMAIN xact /\ t.xmax \in XidsOf(xact)
    /\ t.xmax \in {NoXid, t.xmin} \/ DidCommit(xact, t.xmin)
VersionsOK == (\A r \in rows : VersionOK(r)) /\ (\A x \in rels : VersionOK(x))
IsRelation(x) ==
    /\ x.kind \in Part(0) \cup Part(1)
    /\ x = [kind |-> x.kind, graph |-> x.graph, label |-> x.label, ns |-> x.ns,
            asked |-> x.asked, how |-> x.how, xmin |-> x.xmin, xmax |-> x.xmax]
RelsAreRels == \A x \in rels : IsRelation(x)
RunningIsOpen == \A x \in DOMAIN xact : xact[x] = "running" => \E b \in Backend : xid[b] = x

\* Ids are handed out in order.
IdsInOrder == (\E n \in Nat : Ids = 1 .. n) /\ (\A x \in rels : x.graph \in Ids)

\* Of two rows of one graph, or of one name in one namespace, that may both
\* come to stand, one transaction has written one and stamped the other.
Dead(r) == DidAbort(xact, r.xmin) \/ DidCommit(xact, r.xmax)
Alike(r, s) == r.id = s.id \/ (r.name = s.name /\ r.ns = s.ns)
RivalsEnd ==
    \A r, s \in rows : r # s /\ Alike(r, s) /\ ~Dead(r) /\ ~Dead(s) =>
        r.xmax = s.xmin \/ s.xmax = r.xmin

\* A call has found a row of its graph, and its entry still shows it, or it is of a
\* graph that is raced for and shows another one.
IsCall(c) ==
    c = [op |-> c.op, graph |-> c.graph, row |-> c.row, to |-> c.to, asked |-> c.asked, how |-> c.how,
         entry |-> c.entry, first |-> c.first, oids |-> c.oids, reads |-> c.reads]
CallOK(c) ==
    /\ IsCall(c) /\ \E t \in rows : Copy(t) = c.row /\ t.id = c.graph
    /\ shown[c.entry] = c.row \/ {c.graph, shown[c.entry].id} \subseteq raced
    /\ c.entry \in Slot /\ c.reads \in 0 .. 2
CallsOK == \A b \in Backend : InCall(b) => CallOK(call[b])

BaseInv ==
    /\ CacheInv /\ VersionsOK /\ RelsAreRels /\ RunningIsOpen
    /\ IsFiniteSet(rows) /\ IdsInOrder /\ RivalsEnd
    /\ CallsOK
GraphInv == BaseInv /\ \A g \in Nat \ raced : GraphKept(g)
-----------------------------------------------------------------------------
(* What is looked up and written.                                           *)

LEMMA NewLabelRelations ==
    ASSUME NEW g, NEW label, NEW ns, NEW asked, NEW how
    PROVE  \A x \in LabelRelations(g, label, ns, asked, how) :
             /\ IsRelation(x) /\ x.graph = g /\ x.asked = asked /\ x.how = how
             /\ \/ x.kind = "table" /\ x.ns = ns
                \/ x.kind = "sequence" /\ x.ns = Own
             /\ x.xmin = NoXid /\ x.xmax = NoXid
  <1>1. SUFFICES ASSUME NEW y \in {Relation("table", g, label, ns), Relation("sequence", g, label, Own)},
                        NEW x, x = [y EXCEPT !.asked = asked, !.how = how]
                 PROVE  /\ IsRelation(x) /\ x.graph = g /\ x.asked = asked /\ x.how = how
                        /\ \/ x.kind = "table" /\ x.ns = ns
                           \/ x.kind = "sequence" /\ x.ns = Own
                        /\ x.xmin = NoXid /\ x.xmax = NoXid
    BY DEF LabelRelations
  <1>2. PICK kind, place :
          /\ y = [kind |-> kind, graph |-> g, label |-> label, ns |-> place,
                  asked |-> g, how |-> "create", xmin |-> NoXid, xmax |-> NoXid]
          /\ (kind = "table" /\ place = ns) \/ (kind = "sequence" /\ place = Own)
    BY DEF Relation
  <1>3. x = [kind |-> kind, graph |-> g, label |-> label, ns |-> place,
             asked |-> asked, how |-> how, xmin |-> NoXid, xmax |-> NoXid]
    BY <1>1, <1>2
  <1>4. QED  BY <1>2, <1>3 DEF IsRelation, Part

LEMMA NewGraphRelations ==
    ASSUME NEW g, NEW ns
    PROVE  \A x \in GraphRelations(g, ns) :
             /\ IsRelation(x) /\ x.graph = g /\ x.asked = g
             /\ \/ x.kind \in {"own", "table"} /\ x.ns = ns
                \/ x.kind \in {"catalog", "names", "sequence"} /\ x.ns = Own
             /\ x.xmin = NoXid /\ x.xmax = NoXid
  <1>1. \A x \in LabelRelations(g, 1, ns, g, "create") :
             /\ IsRelation(x) /\ x.graph = g /\ x.asked = g
             /\ (x.kind = "table" /\ x.ns = ns) \/ (x.kind = "sequence" /\ x.ns = Own)
             /\ x.xmin = NoXid /\ x.xmax = NoXid
    BY NewLabelRelations
  <1>2. \A x \in {Relation("own", g, 0, ns), Relation("catalog", g, 0, Own), Relation("names", g, 0, Own)} :
             /\ IsRelation(x) /\ x.graph = g /\ x.asked = g
             /\ (x.kind = "own" /\ x.ns = ns) \/ (x.kind \in {"catalog", "names"} /\ x.ns = Own)
             /\ x.xmin = NoXid /\ x.xmax = NoXid
    BY DEF Relation, IsRelation, Part
  <1>3. QED  BY <1>1, <1>2 DEF GraphRelations

\* Other stamps on a relation do not make it another one.
LEMMA BareStays ==
    ASSUME NEW x, IsRelation(x), NEW y, NEW n, NEW m,
           y \in {[x EXCEPT !.xmin = n], [x EXCEPT !.xmax = m], [x EXCEPT !.xmin = n, !.xmax = m]}
    PROVE  IsRelation(y) /\ Bare(y) = Bare(x)
    BY DEF IsRelation, Bare

LEMMA InPlaceOnlyOfOne ==
    ASSUME NEW g, NEW r, NEW D,
           \A x \in D : /\ x.asked = g
                        /\ \/ x.kind \in {"own", "table"} /\ x.ns = r.ns
                           \/ x.kind \in {"catalog", "names", "sequence"} /\ x.ns = Own
    PROVE  InPlace(g, {r}, D)
    BY DEF InPlace, Placed, RightlyAsked

LEMMA EmptyInPlace == ASSUME NEW g PROVE InPlace(g, {}, {})
    BY DEF InPlace

LEMMA InitGraph == Init => GraphInv
  <1> SUFFICES ASSUME Init PROVE GraphInv
    OBVIOUS
  <1>1. PICK name \in Name, ns \in Namespace :
          /\ rows = {[id |-> 1, name |-> name, ns |-> ns, xmin |-> 1, xmax |-> NoXid]}
          /\ rels = {[x EXCEPT !.xmin = 1] : x \in GraphRelations(1, ns)}
    BY DEF Init
  <1>2. /\ xact = <<"committed">> /\ DOMAIN xact = {1} /\ xact[1] = "committed"
        /\ xid = [b \in Backend |-> NoXid] /\ call = [b \in Backend |-> NoCall]
        /\ \A b \in Backend : xid[b] = NoXid /\ call[b].op = "none"
    BY DEF Init, NoCall
  <1>3. \A y \in rels : /\ IsRelation(y) /\ y.graph = 1 /\ y.asked = 1
                        /\ y.xmin = 1 /\ y.xmax = NoXid
                        /\ \/ y.kind \in {"own", "table"} /\ y.ns = ns
                           \/ y.kind \in {"catalog", "names", "sequence"} /\ y.ns = Own
    <2>1. SUFFICES ASSUME NEW x \in GraphRelations(1, ns), NEW y, y = [x EXCEPT !.xmin = 1]
                   PROVE  /\ IsRelation(y) /\ y.graph = 1 /\ y.asked = 1
                          /\ y.xmin = 1 /\ y.xmax = NoXid
                          /\ \/ y.kind \in {"own", "table"} /\ y.ns = ns
                             \/ y.kind \in {"catalog", "names", "sequence"} /\ y.ns = Own
      BY <1>1
    <2>2. /\ x.graph = 1 /\ x.asked = 1 /\ x.xmax = NoXid
          /\ \/ x.kind \in {"own", "table"} /\ x.ns = ns
             \/ x.kind \in {"catalog", "names", "sequence"} /\ x.ns = Own
          /\ IsRelation(x)
      BY NewGraphRelations
    <2>3. QED  BY <2>1, <2>2 DEF IsRelation
  <1>4. VersionsOK /\ RelsAreRels /\ RunningIsOpen /\ RivalsEnd
    <2>1. \A t \in rows \cup rels : t.xmin = 1 /\ t.xmax = NoXid
      BY <1>1, <1>3
    <2>2. VersionsOK
      BY <1>2, <2>1 DEF VersionsOK, VersionOK, XidsOf
    <2>3. RelsAreRels /\ RunningIsOpen /\ RivalsEnd
      BY <1>1, <1>2, <1>3 DEF RelsAreRels, RunningIsOpen, RivalsEnd
    <2>4. QED  BY <2>2, <2>3
  <1>5. IsFiniteSet(rows) /\ IdsInOrder
    <2>1. IsFiniteSet(rows)
      BY <1>1, FS_Singleton
    <2>2. Ids = {1} /\ {1} = 1 .. 1
      BY <1>1 DEF Ids
    <2>3. QED  BY <1>3, <2>1, <2>2 DEF IdsInOrder
  <1>6. ASSUME NEW g \in Nat PROVE GraphKept(g)
    <2>1. /\ \A t \in rows \cup rels : t.xmin = 1 /\ t.xmax = NoXid
          /\ \A t \in rows \cup rels : TupleIsLive(xact, NoXid, t)
      BY <1>1, <1>2, <1>3 DEF TupleIsLive, IsOwn, DidCommit, NoXid
    <2>2. InPlace(g, RowsFor(NoXid, g), RelsFor(NoXid, g))
      <3>1. CASE g = 1
        <4> DEFINE r == [id |-> 1, name |-> name, ns |-> ns]
        <4>1. RowsFor(NoXid, g) = {r}
          <5>1. {s \in rows : s.id = g /\ TupleIsLive(xact, NoXid, s)} = rows
            BY <1>1, <2>1, <3>1
          <5>2. \A s \in rows : Copy(s) = r
            BY <1>1 DEF Copy
          <5>3. rows # {}
            BY <1>1
          <5> HIDE DEF r
          <5>4. QED  BY <5>1, <5>2, <5>3 DEF RowsFor
        <4>2. \A x \in RelsFor(NoXid, g) :
                /\ x.asked = g
                /\ \/ x.kind \in {"own", "table"} /\ x.ns = r.ns
                   \/ x.kind \in {"catalog", "names", "sequence"} /\ x.ns = Own
          BY <1>3, <3>1 DEF RelsFor, Bare
        <4> HIDE DEF r
        <4>3. QED  BY <4>1, <4>2, InPlaceOnlyOfOne
      <3>2. CASE g # 1
        <4>1. RowsFor(NoXid, g) = {} /\ RelsFor(NoXid, g) = {}
          BY <1>1, <1>3, <3>2 DEF RowsFor, RelsFor
        <4>2. QED  BY <4>1, EmptyInPlace
      <3>3. QED  BY <3>1, <3>2
    <2>3. Alone(g)
      BY <1>2 DEF Alone, Works, InCall, Touches
    <2>4. QED  BY <1>2, <2>2, <2>3 DEF GraphKept, InCall, RowsStanding, RelsStanding, RowsSeen, RelsSeen
  <1>7. CallsOK
    BY <1>2 DEF CallsOK, InCall
  <1>8. QED  BY <1>2, <1>4, <1>5, <1>6, <1>7, InitCache DEF GraphInv, BaseInv
-----------------------------------------------------------------------------
(* What a step does to a graph it does not work on.                         *)

\* Copies of rows are never lost, so what is excepted stays excepted.
CopiesGrow ==
    /\ \A r \in rows : \E s \in rows' : Copy(s) = Copy(r)
    /\ raced \subseteq raced'

LEMMA ExceptionsStay ==
    ASSUME CopiesGrow, NEW g
    PROVE  (Differ(g) => Differ(g)') /\ (Left(g) => Left(g)')
  <1>1. \A r \in rows : \E s \in rows' : s.id = r.id /\ s.ns = r.ns /\ Copy(s) = Copy(r)
    BY DEF CopiesGrow, Copy
  <1>2. QED  BY <1>1 DEF Differ, Left

LEMMA InPlaceStays ==
    ASSUME CopiesGrow, NEW g, NEW R, NEW D, InPlace(g, R, D)
    PROVE  InPlace(g, R, D)'
    BY ExceptionsStay DEF InPlace, Placed, RightlyAsked, CopiesGrow

LEMMA CallFitsStays ==
    ASSUME CopiesGrow, NEW c, NEW R, NEW D, CallFits(c, R, D)
    PROVE  CallFits(c, R, D)'
  <1>1. \A g : Differ(g) => Differ(g)'
    BY ExceptionsStay
  <1>2. QED  BY <1>1 DEF CallFits, RightlyAsked, CopiesGrow, Movable, MovableOf, Oid, Part

\* A graph is kept if every view of it is one that was there before.
OldView(R, D, g) ==
    \/ R = RowsStanding(g) /\ D = RelsStanding(g)
    \/ \E b \in Backend : R = RowsSeen(b, g) /\ D = RelsSeen(b, g)

LEMMA KeptFromViews ==
    ASSUME NEW g, GraphKept(g), CopiesGrow, Alone(g)',
           OldView(RowsStanding(g)', RelsStanding(g)', g),
           \A b \in Backend : \/ OldView(RowsSeen(b, g)', RelsSeen(b, g)', g)
                              \/ InPlace(g, RowsSeen(b, g), RelsSeen(b, g))',
           \A b \in Backend : InCall(b)' /\ call'[b].graph = g =>
             \/ CallFits(call[b], RowsSeen(b, g), RelsSeen(b, g))'
             \/ /\ call'[b] = call[b]
                /\ RowsSeen(b, g)' = RowsSeen(b, g) /\ RelsSeen(b, g)' = RelsSeen(b, g)
    PROVE  GraphKept(g)'
  <1>1. ASSUME NEW R, NEW D, OldView(R, D, g) PROVE InPlace(g, R, D)'
    <2>1. InPlace(g, R, D)
      BY <1>1 DEF OldView, GraphKept
    <2>2. QED  BY <2>1, InPlaceStays
  <1>2. InPlace(g, RowsStanding(g), RelsStanding(g))'
    <2>1. PICK R, D : R = RowsStanding(g)' /\ D = RelsStanding(g)'
      OBVIOUS
    <2>2. InPlace(g, R, D)'
      BY <1>1, <2>1
    <2>3. QED  BY <2>1, <2>2 DEF InPlace, Placed, RightlyAsked
  <1>3. ASSUME NEW b \in Backend, OldView(RowsSeen(b, g)', RelsSeen(b, g)', g)
        PROVE  InPlace(g, RowsSeen(b, g), RelsSeen(b, g))'
    <2>1. PICK R, D : R = RowsSeen(b, g)' /\ D = RelsSeen(b, g)'
      OBVIOUS
    <2>2. InPlace(g, R, D)'
      BY <1>1, <1>3, <2>1
    <2>3. QED  BY <2>1, <2>2 DEF InPlace, Placed, RightlyAsked
  <1>4. ASSUME NEW b \in Backend, InCall(b)', call'[b].graph = g, call'[b] = call[b],
               RowsSeen(b, g)' = RowsSeen(b, g), RelsSeen(b, g)' = RelsSeen(b, g)
        PROVE  CallFits(call[b], RowsSeen(b, g), RelsSeen(b, g))'
    <2>1. PICK c, R, D : c = call[b] /\ R = RowsSeen(b, g) /\ D = RelsSeen(b, g)
      OBVIOUS
    <2>2. CallFits(c, R, D)
      BY <1>4, <2>1 DEF GraphKept, InCall
    <2>3. CallFits(c, R, D)'
      BY <2>2, CallFitsStays
    <2>4. c = call'[b] /\ R = RowsSeen(b, g)' /\ D = RelsSeen(b, g)'
      BY <1>4, <2>1
    <2>5. QED  BY <2>3, <2>4 DEF CallFits, RightlyAsked, Movable, MovableOf, Oid, Part
  <1>5. QED  BY <1>2, <1>3, <1>4 DEF GraphKept

LEMMA SameRowsGrow == ASSUME UNCHANGED rows, raced \subseteq raced' PROVE CopiesGrow
    BY DEF CopiesGrow

\* What a call reads through its entry is what it was, or its graph is raced for.
StillReads(d) ==
    \/ shown'[call[d].entry] = shown[call[d].entry]
    \/ {call[d].graph, shown'[call[d].entry].id} \subseteq raced'

LEMMA CallStaysOK ==
    ASSUME CallsOK, CopiesGrow, NEW d \in Backend, InCall(d), StillReads(d), NEW c, c = call[d]
    PROVE  CallOK(c)'
  <1>1. CallOK(c)
    BY DEF CallsOK
  <1>2. \E t \in rows' : Copy(t)' = c.row /\ t.id = c.graph
    <2>1. PICK r \in rows : Copy(r) = c.row /\ r.id = c.graph
      BY <1>1 DEF CallOK
    <2>2. QED  BY <2>1 DEF CopiesGrow, Copy
  <1>3. shown'[c.entry] = c.row \/ {c.graph, shown'[c.entry].id} \subseteq raced'
    BY <1>1 DEF CallOK, StillReads, CopiesGrow
  <1>4. QED  BY <1>1, <1>2, <1>3 DEF CallOK, IsCall

\* What others write into the cache.
LEMMA EntersRead ==
    ASSUME NEW b \in Backend, NEW s \in Slot, NEW r, Enters(s, r), Overwritten(b, s, r) \subseteq raced',
           CacheInv, NEW d \in Backend \ {b}, InCall(d)
    PROVE  StillReads(d)
  <1>1. CASE call[d].entry = s
    <2>1. d \in Holders(b, s)
      BY <1>1 DEF Holders, Holds, InCall
    <2>2. {call[d].graph, r.id} \subseteq raced'
      BY <2>1 DEF Overwritten
    <2>3. shown'[s].id = r.id
      BY DEF Enters, CacheInv, EntriesAreRows, Copy
    <2>4. QED  BY <1>1, <2>2, <2>3 DEF StillReads
  <1>2. CASE call[d].entry # s
    <2>1. shown'[call[d].entry] = shown[call[d].entry]
      BY <1>2 DEF Enters
    <2>2. QED  BY <2>1 DEF StillReads
  <1>3. QED  BY <1>1, <1>2

LEMMA RemainsRead ==
    ASSUME CallsOK, NEW entries, shown' = Remains(entries), NEW d \in Backend, InCall(d)
    PROVE  StillReads(d)
  <1>1. call[d].entry \in Slot /\ Legible(entries, call[d].entry)
    BY DEF CallsOK, CallOK, Legible, Holds, InCall
  <1>2. QED  BY <1>1 DEF Remains, StillReads

\* A step that writes nothing.
LEMMA SameViews ==
    ASSUME UNCHANGED <<xact, xid, rows, rels>>, NEW g
    PROVE  /\ RowsStanding(g)' = RowsStanding(g) /\ RelsStanding(g)' = RelsStanding(g)
           /\ \A b \in Backend : /\ RowsSeen(b, g)' = RowsSeen(b, g)
                                 /\ RelsSeen(b, g)' = RelsSeen(b, g)
           /\ \A x : Touches(x, g)' <=> Touches(x, g)
           /\ \A b \in Backend : xid'[b] = xid[b]
    BY DEF RowsStanding, RelsStanding, RowsSeen, RelsSeen, RowsFor, RelsFor, Touches, Of, TupleIsLive,
           IsOwn, DidCommit, Copy, Bare

LEMMA SameBase ==
    ASSUME BaseInv, UNCHANGED <<xact, xid, rows, rels>>, CacheInv',
           CallsOK'
    PROVE  BaseInv'
    BY DEF BaseInv, VersionsOK, VersionOK, RelsAreRels, IsRelation, RunningIsOpen, IdsInOrder, Ids,
           RivalsEnd, Alike, Dead, XidsOf, DidCommit, DidAbort

\* Calls may be over, and none is begun.
LEMMA QuietStep ==
    ASSUME GraphInv, UNCHANGED <<xact, xid, rows, rels, raced>>, CacheInv',
           \A b \in Backend : InCall(b)' => call'[b] = call[b] /\ StillReads(b)
    PROVE  GraphInv'
  <1>1. CopiesGrow /\ BaseInv /\ CallsOK
    BY SameRowsGrow DEF GraphInv, BaseInv
  <1>2. ASSUME NEW g \in Nat \ raced PROVE GraphKept(g)'
    <2>1. GraphKept(g)
      BY DEF GraphInv
    <2>2. Alone(g)'
      <3>1. \A b \in Backend : Works(b, g)' => Works(b, g)
        BY SameViews DEF Works, InCall
      <3>2. QED  BY <2>1, <3>1 DEF GraphKept, Alone
    <2>3. OldView(RowsStanding(g)', RelsStanding(g)', g)
      BY SameViews DEF OldView
    <2>4. \A b \in Backend : OldView(RowsSeen(b, g)', RelsSeen(b, g)', g)
      BY SameViews DEF OldView
    <2>5. QED  BY <1>1, <2>1, <2>2, <2>3, <2>4, SameViews, KeptFromViews
  <1>3. CallsOK'
    <2>1. SUFFICES ASSUME NEW b \in Backend, InCall(b)' PROVE CallOK(call[b])'
      BY DEF CallsOK
    <2>2. PICK c : c = call[b] /\ c = call'[b]
      BY <2>1
    <2>3. InCall(b) /\ StillReads(b)
      BY <2>1 DEF InCall
    <2>4. CallOK(c)'
      BY <1>1, <2>2, <2>3, CallStaysOK
    <2>5. QED  BY <2>2, <2>4 DEF CallOK, IsCall
  <1>4. QED  BY <1>1, <1>2, <1>3, SameBase DEF GraphInv
-----------------------------------------------------------------------------
(* The end of a transaction.                                                *)

\* What an open transaction, or NoXid, sees after transaction x has ended.
LEMMA EndLive ==
    ASSUME NEW x \in DOMAIN xact, xact \in Seq(XactStatus), xact[x] = "running", x # NoXid,
           NEW status \in {"committed", "aborted"}, xact' = [xact EXCEPT ![x] = status],
           NEW t, VersionOK(t), NEW me \in XidsOf(xact), me # x,
           me # NoXid => xact[me] = "running"
    PROVE  /\ x \notin {t.xmin, t.xmax} => (TupleIsLive(xact', me, t) <=> TupleIsLive(xact, me, t))
           /\ status = "aborted" => (TupleIsLive(xact', me, t) <=> TupleIsLive(xact, me, t))
           /\ status = "committed" /\ (me = NoXid \/ me \notin {t.xmin, t.xmax}) =>
                (TupleIsLive(xact', me, t) <=> TupleIsLive(xact, x, t))
  <1>1. \A y \in DOMAIN xact : xact'[y] = IF y = x THEN status ELSE xact[y]
    OBVIOUS
  <1>2. /\ t.xmin \in DOMAIN xact /\ t.xmax \in {NoXid} \cup DOMAIN xact
        /\ t.xmax \in {NoXid, t.xmin} \/ DidCommit(xact, t.xmin)
    BY DEF VersionOK, XidsOf
  <1>3. CASE x \notin {t.xmin, t.xmax}
    BY <1>1, <1>2, <1>3 DEF TupleIsLive, IsOwn, DidCommit, XidsOf
  <1>4. CASE status = "aborted"
    BY <1>1, <1>2, <1>4 DEF TupleIsLive, IsOwn, DidCommit, XidsOf
  <1>5. ASSUME status = "committed", me = NoXid \/ me \notin {t.xmin, t.xmax}
        PROVE  TupleIsLive(xact', me, t) <=> TupleIsLive(xact, x, t)
    BY <1>1, <1>2, <1>5 DEF TupleIsLive, IsOwn, DidCommit, XidsOf
  <1>6. QED  BY <1>3, <1>4, <1>5

LEMMA EndBase ==
    ASSUME BaseInv, NEW b \in Backend, Commit(b) \/ Abort(b) PROVE BaseInv'
  <1>1. /\ xid[b] # NoXid /\ UNCHANGED <<rows, rels>> /\ xid' = [xid EXCEPT ![b] = NoXid]
        /\ call' = [call EXCEPT ![b] = NoCall] \/ call' = [call EXCEPT ![b] = Flushing]
        /\ UNCHANGED <<shown, raced>>
        /\ \E s \in {"committed", "aborted"} : xact' = [xact EXCEPT ![xid[b]] = s]
    BY DEF Commit, Abort, End
  <1>2. CacheInv' /\ CacheInv
    BY EndStep DEF BaseInv
  <1>3. /\ xact \in Seq(XactStatus) /\ xid[b] \in DOMAIN xact /\ xact[xid[b]] = "running"
        /\ xid \in [Backend -> XidsOf(xact)]
        /\ \A c \in Backend \ {b} : xid[c] # xid[b]
    BY <1>1, <1>2 DEF CacheInv, XidsOf, OpenXactsRun
  <1>4. /\ DOMAIN xact' = DOMAIN xact
        /\ \A x \in DOMAIN xact : x # xid[b] => xact'[x] = xact[x]
        /\ xact'[xid[b]] # "running"
    BY <1>1, <1>3
  <1>5. VersionsOK'
    <2>1. ASSUME NEW t, VersionOK(t) PROVE VersionOK(t)'
      BY <1>3, <1>4, <2>1 DEF VersionOK, XidsOf, DidCommit
    <2>2. QED  BY <1>1, <2>1 DEF BaseInv, VersionsOK
  <1>6. RivalsEnd'
    <2>1. ASSUME NEW r \in rows, Dead(r) PROVE Dead(r)'
      BY <1>3, <1>4, <2>1 DEF BaseInv, VersionsOK, VersionOK, XidsOf, Dead, DidCommit, DidAbort
    <2>2. QED  BY <1>1, <2>1 DEF BaseInv, RivalsEnd, Alike
  <1>7. RunningIsOpen'
    BY <1>1, <1>3, <1>4 DEF BaseInv, RunningIsOpen
  <1>8. IdsInOrder' /\ RelsAreRels' /\ IsFiniteSet(rows')
    BY <1>1 DEF BaseInv, IdsInOrder, Ids, RelsAreRels, IsRelation
  <1>9. CallsOK'
    BY <1>1, <1>2 DEF BaseInv, CallsOK, CallOK, IsCall, InCall, CacheInv, NoCall, Flushing, Copy
  <1>10. QED  BY <1>2, <1>5, <1>6, <1>7, <1>8, <1>9 DEF BaseInv

\* The same rows are seen.
LEMMA SeenAlike ==
    ASSUME UNCHANGED <<rows, rels>>, NEW g, NEW me, NEW you,
           \A t \in {r \in rows : r.id = g} \cup Of(g) :
             TupleIsLive(xact', me, t) <=> TupleIsLive(xact, you, t)
    PROVE  /\ {Copy(r) : r \in {s \in rows' : s.id = g /\ TupleIsLive(xact', me, s)}} = RowsFor(you, g)
           /\ {Bare(x) : x \in {y \in rels' : y.graph = g /\ TupleIsLive(xact', me, y)}} = RelsFor(you, g)
  <1>1. {s \in rows' : s.id = g /\ TupleIsLive(xact', me, s)} = {s \in rows : s.id = g /\ TupleIsLive(xact, you, s)}
    OBVIOUS
  <1>2. {y \in rels' : y.graph = g /\ TupleIsLive(xact', me, y)} = {y \in rels : y.graph = g /\ TupleIsLive(xact, you, y)}
    BY DEF Of
  <1>3. QED  BY <1>1, <1>2 DEF RowsFor, RelsFor

LEMMA EndGraph ==
    ASSUME GraphInv, NEW b \in Backend, Commit(b) \/ Abort(b) PROVE GraphInv'
  <1>1. /\ xid[b] # NoXid /\ UNCHANGED <<rows, rels, raced>> /\ xid' = [xid EXCEPT ![b] = NoXid]
        /\ call' = [call EXCEPT ![b] = NoCall] \/ call' = [call EXCEPT ![b] = Flushing]
        /\ \E s \in {"committed", "aborted"} : xact' = [xact EXCEPT ![xid[b]] = s]
    BY DEF Commit, Abort, End
  <1>2. BaseInv /\ CacheInv /\ xact \in Seq(XactStatus)
    BY DEF GraphInv, BaseInv, CacheInv
  <1>3. /\ xid[b] \in DOMAIN xact /\ xact[xid[b]] = "running"
        /\ \A c \in Backend \ {b} : /\ xid[c] \in XidsOf(xact) /\ xid[c] # xid[b]
                                    /\ xid[c] # NoXid => xact[xid[c]] = "running"
    BY <1>1, <1>2 DEF CacheInv, XidsOf, OpenXactsRun
  <1>4. /\ xid'[b] = NoXid /\ \A c \in Backend \ {b} : xid'[c] = xid[c] /\ call'[c] = call[c]
        /\ ~InCall(b)' /\ \A c \in Backend \ {b} : InCall(c)' <=> InCall(c)
    BY <1>1, <1>2 DEF CacheInv, InCall, NoCall, Flushing
  <1>5. ASSUME NEW g \in Nat \ raced PROVE GraphKept(g)'
    <2>1. GraphKept(g) /\ CopiesGrow
      BY <1>1, SameRowsGrow DEF GraphInv
    <2>2. \A c \in Backend : Works(c, g)' => c # b /\ Works(c, g)
      BY <1>1, <1>4 DEF Works, Touches, Of
    <2>3. Alone(g)'
      BY <2>1, <2>2 DEF GraphKept, Alone
    <2> DEFINE T == {r \in rows : r.id = g} \cup Of(g)
    <2>4. \A t \in T : VersionOK(t)
      BY <1>2 DEF BaseInv, VersionsOK, Of
    <2> HIDE DEF T
    <2>5. PICK s \in {"committed", "aborted"} : xact' = [xact EXCEPT ![xid[b]] = s]
      BY <1>1
    <2>6. \E you \in {NoXid, xid[b]} : \A t \in T : TupleIsLive(xact', NoXid, t) <=> TupleIsLive(xact, you, t)
      <3>1. NoXid \in XidsOf(xact)
        BY DEF XidsOf
      <3>2. CASE s = "committed"
        BY <1>1, <1>2, <1>3, <2>4, <2>5, <3>1, <3>2, EndLive
      <3>3. CASE s = "aborted"
        BY <1>1, <1>2, <1>3, <2>4, <2>5, <3>1, <3>3, EndLive
      <3>4. QED  BY <3>2, <3>3
    <2>7. PICK you \in {NoXid, xid[b]} :
            /\ {Copy(r) : r \in {q \in rows' : q.id = g /\ TupleIsLive(xact', NoXid, q)}} = RowsFor(you, g)
            /\ {Bare(x) : x \in {y \in rels' : y.graph = g /\ TupleIsLive(xact', NoXid, y)}} = RelsFor(you, g)
      BY <1>1, <2>6, SeenAlike DEF T
    <2>8. /\ RowsStanding(g)' = RowsFor(you, g) /\ RelsStanding(g)' = RelsFor(you, g)
          /\ RowsSeen(b, g)' = RowsFor(you, g) /\ RelsSeen(b, g)' = RelsFor(you, g)
      <3>1. /\ RowsStanding(g)' = {Copy(r) : r \in {q \in rows' : q.id = g /\ TupleIsLive(xact', NoXid, q)}}
            /\ RelsStanding(g)' = {Bare(x) : x \in {y \in rels' : y.graph = g /\ TupleIsLive(xact', NoXid, y)}}
        BY DEF RowsStanding, RelsStanding, RowsFor, RelsFor, Copy, Bare
      <3>2. /\ RowsSeen(b, g)' = {Copy(r) : r \in {q \in rows' : q.id = g /\ TupleIsLive(xact', xid'[b], q)}}
            /\ RelsSeen(b, g)' = {Bare(x) : x \in {y \in rels' : y.graph = g /\ TupleIsLive(xact', xid'[b], y)}}
        BY DEF RowsSeen, RelsSeen, RowsFor, RelsFor, Copy, Bare
      <3>3. QED  BY <1>4, <2>7, <3>1, <3>2
    <2>9. OldView(RowsFor(you, g), RelsFor(you, g), g)
      BY <2>7 DEF OldView, RowsStanding, RelsStanding, RowsSeen, RelsSeen
    <2>10. ASSUME NEW c \in Backend \ {b}
           PROVE  /\ OldView(RowsSeen(c, g)', RelsSeen(c, g)', g)
                  /\ Works(c, g) => RowsSeen(c, g)' = RowsSeen(c, g) /\ RelsSeen(c, g)' = RelsSeen(c, g)
      <3>1. /\ RowsSeen(c, g)' = {Copy(r) : r \in {q \in rows' : q.id = g /\ TupleIsLive(xact', xid[c], q)}}
            /\ RelsSeen(c, g)' = {Bare(x) : x \in {y \in rels' : y.graph = g /\ TupleIsLive(xact', xid[c], y)}}
        BY <1>4 DEF RowsSeen, RelsSeen, RowsFor, RelsFor, Copy, Bare
      <3>2. ASSUME NEW w, \A t \in T : TupleIsLive(xact', xid[c], t) <=> TupleIsLive(xact, w, t)
            PROVE  RowsSeen(c, g)' = RowsFor(w, g) /\ RelsSeen(c, g)' = RelsFor(w, g)
        BY <1>1, <3>1, <3>2, SeenAlike DEF T
      <3>3. CASE Works(c, g)
        <4>1. \A t \in T : xid[b] \notin {t.xmin, t.xmax}
          BY <1>1, <2>1, <3>3 DEF GraphKept, Alone, Works, Touches, T
        <4>2. \A t \in T : TupleIsLive(xact', xid[c], t) <=> TupleIsLive(xact, xid[c], t)
          BY <1>1, <1>2, <1>3, <2>4, <2>5, <4>1, EndLive
        <4>3. QED  BY <3>2, <4>2 DEF OldView, RowsSeen, RelsSeen
      <3>4. CASE ~Works(c, g)
        <4>1. \A t \in T : xid[c] = NoXid \/ xid[c] \notin {t.xmin, t.xmax}
          BY <3>4 DEF Works, Touches, T
        <4>2. CASE s = "committed"
          <5>1. \A t \in T : TupleIsLive(xact', xid[c], t) <=> TupleIsLive(xact, xid[b], t)
            BY <1>1, <1>2, <1>3, <2>4, <2>5, <4>1, <4>2, EndLive
          <5>2. QED  BY <3>2, <3>4, <5>1 DEF OldView, RowsSeen, RelsSeen
        <4>3. CASE s = "aborted"
          <5>1. \A t \in T : TupleIsLive(xact', xid[c], t) <=> TupleIsLive(xact, xid[c], t)
            BY <1>1, <1>2, <1>3, <2>4, <2>5, <4>3, EndLive
          <5>2. QED  BY <3>2, <3>4, <5>1 DEF OldView, RowsSeen, RelsSeen
        <4>4. QED  BY <4>2, <4>3
      <3>5. QED  BY <3>3, <3>4
    <2>11. OldView(RowsStanding(g)', RelsStanding(g)', g) /\ OldView(RowsSeen(b, g)', RelsSeen(b, g)', g)
      BY <2>8, <2>9
    <2>12. \A c \in Backend : OldView(RowsSeen(c, g)', RelsSeen(c, g)', g)
      BY <2>10, <2>11
    <2>13. ASSUME NEW c \in Backend, InCall(c)', call'[c].graph = g
           PROVE  /\ call'[c] = call[c]
                  /\ RowsSeen(c, g)' = RowsSeen(c, g) /\ RelsSeen(c, g)' = RelsSeen(c, g)
      <3>1. c # b
        BY <1>4, <2>13
      <3>2. call'[c] = call[c] /\ Works(c, g)
        BY <1>4, <2>13, <3>1 DEF Works
      <3>3. QED  BY <2>10, <3>1, <3>2
    <2>14. QED  BY <2>1, <2>3, <2>11, <2>12, <2>13, KeptFromViews
  <1>6. QED  BY <1>1, <1>2, <1>5, EndBase DEF GraphInv
-----------------------------------------------------------------------------
(* Lookups.                                                                 *)

\* Whoever works on a graph that is not raced for does so alone, and on no other.
Meets(b, gs) == raced \cup Met(b, gs) \subseteq raced'

LEMMA NobodyElse ==
    ASSUME NEW b \in Backend, NEW gs, Meets(b, gs)
    PROVE  /\ raced \subseteq raced'
           /\ \A g \in gs \ raced' : gs = {g} /\ \A c \in Backend \ {b} : ~Works(c, g)
  <1>1. \A g : Busy(b, g) <=> \E c \in Backend \ {b} : Works(c, g)
    BY DEF Busy, Works, InCall, Touches
  <1>2. QED  BY <1>1 DEF Meets, Met

\* A call goes on, or begins, with c.
LEMMA StartGraph ==
    ASSUME GraphInv, NEW b \in Backend, NEW g, CacheInv',
           UNCHANGED <<xact, xid, rows, rels>>, raced \subseteq raced',
           NEW c, call' = [call EXCEPT ![b] = c], c.graph = g, CallOK(c)',
           \A d \in Backend \ {b} : InCall(d) => StillReads(d),
           g \notin raced' => Works(b, g) \/ \A d \in Backend \ {b} : ~Works(d, g),
           g \in Nat \ raced' => CallFits(c, RowsSeen(b, g), RelsSeen(b, g))
    PROVE  GraphInv'
  <1>1. /\ call'[b] = c /\ \A d \in Backend \ {b} : call'[d] = call[d]
        /\ BaseInv /\ CallsOK /\ CopiesGrow
    BY SameRowsGrow DEF GraphInv, BaseInv, CacheInv
  <1>2. CallsOK'
    <2>1. ASSUME NEW d \in Backend, InCall(d)', d # b PROVE CallOK(call[d])'
      <3>1. PICK e : e = call[d] /\ e = call'[d] /\ InCall(d)
        BY <1>1, <2>1 DEF InCall
      <3>2. CallOK(e)'
        BY <1>1, <2>1, <3>1, CallStaysOK
      <3>3. QED  BY <3>1, <3>2 DEF CallOK, IsCall
    <2>2. CallOK(call[b])'
      BY <1>1 DEF CallOK, IsCall
    <2>3. QED  BY <2>1, <2>2 DEF CallsOK
  <1>3. ASSUME NEW h \in Nat \ raced' PROVE GraphKept(h)'
    <2>1. GraphKept(h)
      BY DEF GraphInv
    <2>2. ASSUME NEW d \in Backend, Works(d, h)' PROVE Works(d, h) \/ (d = b /\ h = g)
      BY <1>1, <2>2, SameViews DEF Works, InCall
    <2>3. Alone(h)'
      BY <2>1, <2>2 DEF GraphKept, Alone
    <2>4. OldView(RowsStanding(h)', RelsStanding(h)', h)
      BY SameViews DEF OldView
    <2>5. \A d \in Backend : OldView(RowsSeen(d, h)', RelsSeen(d, h)', h)
      BY SameViews DEF OldView
    <2>6. ASSUME NEW d \in Backend, InCall(d)', call'[d].graph = h
          PROVE  \/ CallFits(call[d], RowsSeen(d, h), RelsSeen(d, h))'
                 \/ /\ call'[d] = call[d]
                    /\ RowsSeen(d, h)' = RowsSeen(d, h) /\ RelsSeen(d, h)' = RelsSeen(d, h)
      <3>1. CASE d # b
        BY <1>1, <3>1, SameViews
      <3>2. CASE d = b
        <4>1. h = g
          BY <1>1, <2>6, <3>2
        <4>2. PICK R, D : R = RowsSeen(b, h) /\ D = RelsSeen(b, h)
          OBVIOUS
        <4>3. CallFits(c, R, D)
          BY <4>1, <4>2
        <4>4. CallFits(c, R, D)'
          BY <1>1, <4>3, CallFitsStays
        <4>5. c = call'[d] /\ R = RowsSeen(d, h)' /\ D = RelsSeen(d, h)'
          BY <1>1, <3>2, <4>2, SameViews
        <4>6. QED  BY <4>4, <4>5 DEF CallFits, RightlyAsked, Movable, MovableOf, Oid, Part
      <3>3. QED  BY <3>1, <3>2
    <2>7. QED  BY <1>1, <2>1, <2>3, <2>4, <2>5, <2>6, KeptFromViews
  <1>4. QED  BY <1>1, <1>2, <1>3, SameBase DEF GraphInv

\* Transactions and versions, for what a backend sees.
LEMMA VersionFacts ==
    ASSUME BaseInv, NEW b \in Backend
    PROVE  /\ xid[b] \in XidsOf(xact) /\ (xid[b] # NoXid => xact[xid[b]] = "running")
           /\ \A c \in Backend \ {b} : xid[b] # NoXid => xid[c] # xid[b]
           /\ \A r \in rows : IsGraphRow(r) /\ VersionOK(r)
           /\ \A x \in rels : IsRelation(x) /\ VersionOK(x)
    BY DEF BaseInv, CacheInv, OpenXactsRun, RowsAreRows, VersionsOK, RelsAreRels

\* Of rows that a backend sees, none is another's rival.
LEMMA OneLiveRow ==
    ASSUME BaseInv, NEW b \in Backend, NEW r \in LiveRows(b), NEW s \in LiveRows(b), Alike(r, s)
    PROVE  r = s
  <1>1. /\ r \in rows /\ s \in rows /\ TupleIsLive(xact, xid[b], r) /\ TupleIsLive(xact, xid[b], s)
    BY DEF LiveRows, Live
  <1>2. VersionOK(r) /\ VersionOK(s) /\ xid[b] \in XidsOf(xact) /\ (xid[b] # NoXid => xact[xid[b]] = "running")
    BY <1>1, VersionFacts
  <1>3. ~Dead(r) /\ ~Dead(s)
    BY <1>1, <1>2 DEF VersionOK, Dead, TupleIsLive, IsOwn, DidCommit, DidAbort, XidsOf
  <1>4. ~(r.xmax = s.xmin) /\ ~(s.xmax = r.xmin)
    BY <1>1, <1>2 DEF VersionOK, TupleIsLive, IsOwn, DidCommit, XidsOf
  <1>5. QED  BY <1>1, <1>3, <1>4 DEF BaseInv, RivalsEnd

LEMMA SeenIsLive ==
    ASSUME NEW b \in Backend, NEW g
    PROVE  /\ RowsSeen(b, g) = {Copy(r) : r \in {s \in LiveRows(b) : s.id = g}}
           /\ RelsSeen(b, g) = {Bare(x) : x \in LiveOf(b, g)}
  <1>1. {s \in rows : s.id = g /\ TupleIsLive(xact, xid[b], s)} = {s \in LiveRows(b) : s.id = g}
    BY DEF LiveRows, Live
  <1>2. {y \in rels : y.graph = g /\ TupleIsLive(xact, xid[b], y)} = LiveOf(b, g)
    BY DEF LiveOf, Of, Live
  <1>3. QED  BY <1>1, <1>2 DEF RowsSeen, RelsSeen, RowsFor, RelsFor

\* What a call collects in its two reads is all there is to move.
LEMMA CollectedIsMovable ==
    ASSUME BaseInv, NEW b \in Backend, NEW g
    PROVE  /\ \A kinds : Collected(b, g, kinds) = MovableOf(RelsSeen(b, g), kinds)
           /\ Movable(RelsSeen(b, g)) \subseteq Collected(b, g, Part(0)) \cup Collected(b, g, Part(1))
  <1>1. \A x : Oid(Bare(x)) = Oid(x) /\ Bare(x).kind = x.kind /\ Bare(x).ns = x.ns
    BY DEF Oid, Bare
  <1>2. RelsSeen(b, g) = {Bare(x) : x \in LiveOf(b, g)}
    BY SeenIsLive
  <1>3. \A x \in LiveOf(b, g) : x.kind \in Part(0) \cup Part(1)
    BY DEF LiveOf, Of, BaseInv, RelsAreRels, IsRelation
  <1>4. \A kinds : Collected(b, g, kinds) = MovableOf(RelsSeen(b, g), kinds)
    BY <1>1, <1>2 DEF Movable, MovableOf, Collected
  <1>5. Movable(RelsSeen(b, g)) \subseteq Collected(b, g, Part(0)) \cup Collected(b, g, Part(1))
    BY <1>1, <1>2, <1>3 DEF Movable, Collected
  <1>6. QED  BY <1>4, <1>5

LEMMA RowsSeenOf ==
    ASSUME BaseInv, NEW b \in Backend, NEW r \in LiveRows(b)
    PROVE  RowsSeen(b, r.id) = {Copy(r)}
  <1>1. \A s \in LiveRows(b) : s.id = r.id => s = r
    BY OneLiveRow DEF Alike
  <1>2. QED  BY <1>1, SeenIsLive

\* A call gets its entry and what it shows; the rest of it stays.
Enter(c, d, s) ==
    /\ IsCall(d) /\ d.op = c.op /\ d.graph = c.graph /\ d.entry = s /\ d.reads = c.reads
    /\ d.oids = c.oids /\ d.to = c.to /\ d.how = c.how /\ d.asked = c.asked

LEMMA Entered ==
    ASSUME NEW c, NEW d, NEW s, Enter(c, d, s), c.op # "alter" \/ d.row = c.row
    PROVE  \A R, D : CallFits(c, R, D) => CallFits(d, R, D)
  BY DEF Enter, CallFits

\* A call looks a graph up, and nobody else works on it or it is raced for.
LEMMA LooksGraph ==
    ASSUME GraphInv, CacheInv', NEW b \in Backend, NEW g, NEW over, NEW s \in Slot, NEW d,
           Looks(b, d, over), d.graph = g, IsCall(d), d.entry = s, d.reads \in 0 .. 2,
           shown'[s] = d.row, \E t \in rows : Copy(t) = d.row /\ t.id = g,
           \A e \in Backend \ {b} : InCall(e) => StillReads(e),
           g \in Nat \ raced' => CallFits(d, RowsSeen(b, g), RelsSeen(b, g))
    PROVE  GraphInv'
  <1>1. /\ call' = [call EXCEPT ![b] = d] /\ UNCHANGED <<xact, xid, rows, rels>>
        /\ raced' = raced \cup Met(b, {d.graph}) \cup over
    BY DEF Looks
  <1>2. raced \subseteq raced' /\ (g \notin raced' => \A e \in Backend \ {b} : ~Works(e, g))
    <2>1. PICK gs : gs = {g} /\ Meets(b, gs)
      BY <1>1 DEF Meets
    <2>2. QED  BY <2>1, NobodyElse
  <1>3. CallOK(d)'
    BY <1>1 DEF CallOK, IsCall, Copy
  <1>4. QED  BY <1>1, <1>2, <1>3, StartGraph

LEMMA LooksByNameGraph ==
    ASSUME GraphInv, CacheInv', NEW b \in Backend, NEW r \in LiveRows(b), NEW c, LooksByName(b, r, c),
           IsCall(c), c.graph = r.id, c.row = Copy(r), c.reads = 0,
           r.id \in Nat \ raced => CallFits(c, RowsSeen(b, r.id), RelsSeen(b, r.id))
    PROVE  GraphInv'
  <1>1. PICK s \in Slot : Enters(s, r) /\ Looks(b, [c EXCEPT !.entry = s], Overwritten(b, s, r))
    BY DEF LooksByName
  <1>2. PICK d, over : d = [c EXCEPT !.entry = s] /\ over = Overwritten(b, s, r) /\ Looks(b, d, over)
    BY <1>1
  <1>3. d.row = c.row
    BY <1>2 DEF IsCall
  <1>4. Enter(c, d, s)
    <2>1. d = [op |-> c.op, graph |-> c.graph, row |-> c.row, to |-> c.to, asked |-> c.asked, how |-> c.how,
               entry |-> s, first |-> c.first, oids |-> c.oids, reads |-> c.reads]
      BY <1>2 DEF IsCall
    <2>2. QED  BY <2>1 DEF Enter, IsCall
  <1>5. CacheInv /\ raced \cup over \subseteq raced' /\ r \in rows
    BY <1>2 DEF GraphInv, BaseInv, Looks, LiveRows
  <1>6. shown'[s] = d.row
    BY <1>1, <1>3, <1>5 DEF Enters, CacheInv, EntriesAreRows
  <1>7. \A e \in Backend \ {b} : InCall(e) => StillReads(e)
    BY <1>1, <1>2, <1>5, EntersRead
  <1>8. PICK g : /\ g = r.id /\ d.graph = g /\ \E t \in rows : Copy(t) = d.row /\ t.id = g
    BY <1>3, <1>4, <1>5 DEF Enter
  <1>9. g \in Nat \ raced' => CallFits(d, RowsSeen(b, g), RelsSeen(b, g))
    BY <1>3, <1>4, <1>5, <1>8, Entered
  <1>10. Looks(b, d, over) /\ IsCall(d) /\ d.entry = s /\ d.reads \in 0 .. 2 /\ d.graph = g
    BY <1>2, <1>4, <1>8 DEF Enter
  <1>11. QED  BY <1>6, <1>7, <1>8, <1>9, <1>10, LooksGraph

LEMMA LooksByIdGraph ==
    ASSUME GraphInv, CacheInv', NEW b \in Backend, NEW r \in LiveRows(b), NEW c, LooksById(b, c),
           IsCall(c), c.graph = r.id, c.reads = 0, c.op # "alter",
           r.id \in Nat \ raced => CallFits(c, RowsSeen(b, r.id), RelsSeen(b, r.id))
    PROVE  GraphInv'
  <1>1. PICK s \in Slot :
        \/ /\ FindsById(b, c.graph, s) /\ UNCHANGED cache
           /\ Looks(b, [c EXCEPT !.entry = s, !.row = shown[s]], {})
        \/ \E t \in LiveRows(b) :
             /\ EntersById(b, c.graph, s, t) /\ Enters(s, t)
             /\ Looks(b, [c EXCEPT !.entry = s, !.row = Copy(t)], Overwritten(b, s, t))
    BY DEF LooksById
  <1>2. BaseInv /\ CacheInv /\ r \in rows /\ r.id \in Nat /\ r.id # 0
    BY DEF GraphInv, BaseInv, IdsInOrder, Ids, LiveRows
  <1>3. ASSUME NEW w, NEW over, Looks(b, [c EXCEPT !.entry = s, !.row = w], over), shown'[s] = w,
               \E t \in rows : Copy(t) = w /\ t.id = r.id,
               \A e \in Backend \ {b} : InCall(e) => StillReads(e)
        PROVE  GraphInv'
    <2>1. PICK d : d = [c EXCEPT !.entry = s, !.row = w] /\ Looks(b, d, over)
      BY <1>3
    <2>2. Enter(c, d, s)
      <3>1. d = [op |-> c.op, graph |-> c.graph, row |-> w, to |-> c.to, asked |-> c.asked, how |-> c.how,
                 entry |-> s, first |-> c.first, oids |-> c.oids, reads |-> c.reads]
        BY <2>1 DEF IsCall
      <3>2. QED  BY <3>1 DEF Enter, IsCall
    <2>3. d.row = w /\ raced \subseteq raced'
      BY <2>1 DEF IsCall, Looks
    <2>4. PICK g : /\ g = r.id /\ d.graph = g /\ \E t \in rows : Copy(t) = d.row /\ t.id = g
      BY <1>3, <2>2, <2>3 DEF Enter
    <2>5. g \in Nat \ raced' => CallFits(d, RowsSeen(b, g), RelsSeen(b, g))
      BY <2>2, <2>3, <2>4, Entered
    <2>6. Looks(b, d, over) /\ IsCall(d) /\ d.entry = s /\ d.reads \in 0 .. 2 /\ d.graph = g /\ shown'[s] = d.row
      BY <1>3, <2>1, <2>2, <2>3, <2>4 DEF Enter
    <2>7. QED  BY <1>3, <2>4, <2>5, <2>6, LooksGraph
  <1>4. CASE FindsById(b, c.graph, s) /\ UNCHANGED cache /\ Looks(b, [c EXCEPT !.entry = s, !.row = shown[s]], {})
    <2>1. PICK t \in rows : Copy(t) = shown[s]
      BY <1>2, <1>4 DEF FindsById, CacheInv, EntriesAreRows, Nothing
    <2>2. t.id = r.id /\ shown'[s] = shown[s]
      BY <1>4, <2>1 DEF FindsById, Copy, cache
    <2>3. \A e \in Backend \ {b} : InCall(e) => StillReads(e)
      BY <1>4 DEF StillReads, cache
    <2>4. QED  BY <1>3, <1>4, <2>1, <2>2, <2>3
  <1>5. ASSUME NEW t \in LiveRows(b), EntersById(b, c.graph, s, t), Enters(s, t),
               Looks(b, [c EXCEPT !.entry = s, !.row = Copy(t)], Overwritten(b, s, t))
        PROVE  GraphInv'
    <2>1. t \in rows /\ t.id = r.id /\ shown'[s] = Copy(t) /\ Overwritten(b, s, t) \subseteq raced'
      BY <1>2, <1>5 DEF EntersById, LiveRows, Enters, CacheInv, EntriesAreRows, Looks
    <2>2. \A e \in Backend \ {b} : InCall(e) => StillReads(e)
      BY <1>2, <1>5, <2>1, EntersRead
    <2>3. QED  BY <1>3, <1>5, <2>1, <2>2
  <1>6. QED  BY <1>1, <1>4, <1>5

LEMMA CallOnIs ==
    ASSUME NEW op, NEW r, NEW to, NEW asked, NEW how, NEW c,
           c = [op |-> op, graph |-> r.id, row |-> Copy(r), to |-> to, asked |-> asked, how |-> how,
                entry |-> NoSlot, first |-> 0, oids |-> {}, reads |-> 0]
    PROVE  /\ IsCall(c) /\ c.op = op /\ c.graph = r.id /\ c.row = Copy(r) /\ c.reads = 0
           /\ c.to = to /\ c.asked = asked /\ c.how = how
    BY DEF IsCall

\* alter_graph, drop_graph and the calls that name a graph for a label.
LEMMA StartByName ==
    ASSUME GraphInv, CacheInv', NEW b \in Backend, NEW r \in LiveRows(b),
           \/ StartDrop(b, r) \/ StartLabel(b, r)
           \/ \E to \in Namespace : StartAlter(b, r, to)
    PROVE  GraphInv'
  <1>1. PICK op, to : /\ (op \in {"drop", "label"} /\ to = r.ns) \/ (op = "alter" /\ to # r.ns)
                      /\ LooksByName(b, r, [CallOn(op, r) EXCEPT !.to = to])
    <2>1. CASE StartDrop(b, r) \/ StartLabel(b, r)
      <3>1. PICK op \in {"drop", "label"} : LooksByName(b, r, CallOn(op, r))
        BY <2>1 DEF StartDrop, StartLabel
      <3>2. [CallOn(op, r) EXCEPT !.to = r.ns] = CallOn(op, r)
        BY DEF CallOn
      <3>3. QED  BY <3>1, <3>2
    <2>2. CASE \E to \in Namespace : StartAlter(b, r, to)
      BY <2>2 DEF StartAlter
    <2>3. QED  BY <2>1, <2>2 DEF StartDrop
  <1>2. PICK c : c = [CallOn(op, r) EXCEPT !.to = to] /\ LooksByName(b, r, c)
    BY <1>1
  <1>3. PICK g : g = r.id
    OBVIOUS
  <1>4. c = [op |-> op, graph |-> r.id, row |-> Copy(r), to |-> to, asked |-> g, how |-> "create",
             entry |-> NoSlot, first |-> 0, oids |-> {}, reads |-> 0]
    BY <1>2, <1>3 DEF CallOn
  <1>5. /\ IsCall(c) /\ c.op = op /\ c.graph = r.id /\ c.row = Copy(r) /\ c.reads = 0
        /\ c.to = to /\ c.asked = g /\ c.how = "create"
    BY <1>4, CallOnIs
  <1>6. \A q \in RowsSeen(b, r.id) : q.ns = r.ns
    BY RowsSeenOf DEF GraphInv, Copy
  <1>7. CallFits(c, RowsSeen(b, r.id), RelsSeen(b, r.id))
    <2>1. c.row.ns = r.ns
      BY <1>5 DEF Copy
    <2>2. QED  BY <1>1, <1>3, <1>5, <1>6, <2>1 DEF CallFits, RightlyAsked
  <1>8. QED  BY <1>2, <1>5, <1>7, LooksByNameGraph

\* What the entry of a call shows is the row it found, if its graph is not raced for.
LEMMA ShownIsFound ==
    ASSUME GraphInv, NEW b \in Backend, InCall(b), call[b].graph \notin raced
    PROVE  /\ Shown(b) = call[b].row /\ Shown(b).id = call[b].graph
           /\ \E t \in rows : Copy(t) = Shown(b) /\ t.id = call[b].graph
  <1>1. PICK c : c = call[b]
    OBVIOUS
  <1>2. CallOK(c) /\ c.graph \notin raced
    BY <1>1 DEF GraphInv, BaseInv, CallsOK
  <1>3. PICK t \in rows : Copy(t) = c.row /\ t.id = c.graph
    BY <1>2 DEF CallOK
  <1>4. c.row.id = c.graph
    BY <1>3 DEF Copy
  <1>5. shown[c.entry] = c.row
    BY <1>2 DEF CallOK
  <1>6. QED  BY <1>1, <1>3, <1>4, <1>5 DEF Shown

\* The name the entry shows leads to the graph, or the graph has had another name, or
\* the path leads to another graph's namespace.
LEMMA NameLabelFits ==
    ASSUME GraphInv, CacheInv', NEW b \in Backend, NEW r \in LiveRows(b), NEW path \in Namespace,
           NameLabel(b, r, path)
    PROVE  GraphInv'
  <1>1. PICK g, how : g = call[b].graph /\ how = IF \E s \in LiveRows(b) : s.id = g /\ s.ns = path THEN "name" ELSE "path"
    OBVIOUS
  <1>2. /\ call[b].op = "set" /\ r.name = Shown(b).name /\ r.ns = path
        /\ LooksByName(b, r, [CallOn("label", r) EXCEPT !.asked = g, !.how = how])
    BY <1>1 DEF NameLabel
  <1>3. PICK c : c = [CallOn("label", r) EXCEPT !.asked = g, !.how = how] /\ LooksByName(b, r, c)
    BY <1>2
  <1>4. PICK op, to : op = "label" /\ to = r.ns
    OBVIOUS
  <1>5. c = [op |-> op, graph |-> r.id, row |-> Copy(r), to |-> to, asked |-> g, how |-> how,
             entry |-> NoSlot, first |-> 0, oids |-> {}, reads |-> 0]
    BY <1>3, <1>4 DEF CallOn
  <1>6. /\ IsCall(c) /\ c.op = op /\ c.graph = r.id /\ c.row = Copy(r) /\ c.reads = 0
        /\ c.to = to /\ c.asked = g /\ c.how = how
    BY <1>5, CallOnIs
  <1>7. RightlyAsked(r.id, g, how)
    <2>1. SUFFICES ASSUME NEW s \in LiveRows(b), s.id = g, s.ns = path, r.id # g, g \notin raced
                   PROVE  Differ(g)
      BY <1>1 DEF RightlyAsked
    <2>2. s.name # r.name
      BY <1>2, <2>1, OneLiveRow DEF GraphInv, Alike
    <2>3. PICK t \in rows : Copy(t) = Shown(b) /\ t.id = g
      BY <1>1, <1>2, <2>1, ShownIsFound DEF InCall
    <2>4. Copy(s).name = s.name
      BY DEF Copy
    <2>5. Copy(s) # Copy(t) /\ s \in rows
      BY <1>2, <2>2, <2>3, <2>4 DEF LiveRows
    <2>6. QED  BY <2>1, <2>3, <2>5 DEF Differ
  <1>8. \A q \in RowsSeen(b, r.id) : q.ns = r.ns
    BY RowsSeenOf DEF GraphInv, Copy
  <1>9. CallFits(c, RowsSeen(b, r.id), RelsSeen(b, r.id))
    BY <1>4, <1>6, <1>7, <1>8 DEF CallFits
  <1>10. QED  BY <1>3, <1>6, <1>9, LooksByNameGraph

\* Lookups by id: what they show is the graph, where it is or once was.
LEMMA StartById ==
    ASSUME GraphInv, CacheInv', NEW b \in Backend, NEW r \in LiveRows(b),
           StartSetLabel(b, r) \/ StartEdgeLabel(b, r) \/ StartReducedLabel(b, r)
    PROVE  GraphInv'
  <1>1. PICK op, to, how : /\ op = "set" \/ (op \in {"edge label", "reduced"} /\ how \in {"copy", "fixed"})
                           /\ LooksById(b, [CallOn(op, r) EXCEPT !.to = to, !.how = how])
    <2>1. CASE StartSetLabel(b, r)
      <3>1. [CallOn("set", r) EXCEPT !.to = r.ns, !.how = "create"] = CallOn("set", r)
        <4>1. PICK x, g, to : x = [CallOn("set", r) EXCEPT !.to = to, !.how = "create"] /\ g = r.id /\ to = r.ns
          OBVIOUS
        <4>2. x = [op |-> "set", graph |-> g, row |-> Copy(r), to |-> to, asked |-> g, how |-> "create",
                   entry |-> NoSlot, first |-> 0, oids |-> {}, reads |-> 0]
          BY <4>1 DEF CallOn
        <4>3. x = CallOn("set", r)
          BY <4>1, <4>2 DEF CallOn
        <4>4. QED  BY <4>1, <4>3
      <3>2. LooksById(b, CallOn("set", r))
        BY <2>1 DEF StartSetLabel
      <3>3. LooksById(b, [CallOn("set", r) EXCEPT !.to = r.ns, !.how = "create"])
        BY <3>1, <3>2
      <3>4. QED  BY <3>3
    <2>2. CASE StartEdgeLabel(b, r)
      <3>1. [CallOn("edge label", r) EXCEPT !.to = r.ns, !.how = "copy"] = [CallOn("edge label", r) EXCEPT !.how = "copy"]
        <4>1. PICK x, y, g, to : /\ x = [CallOn("edge label", r) EXCEPT !.to = to, !.how = "copy"]
                                 /\ y = [CallOn("edge label", r) EXCEPT !.how = "copy"] /\ g = r.id /\ to = r.ns
          OBVIOUS
        <4>2. x = [op |-> "edge label", graph |-> g, row |-> Copy(r), to |-> to, asked |-> g, how |-> "copy",
                   entry |-> NoSlot, first |-> 0, oids |-> {}, reads |-> 0]
          BY <4>1 DEF CallOn
        <4>3. y = [op |-> "edge label", graph |-> g, row |-> Copy(r), to |-> to, asked |-> g, how |-> "copy",
                   entry |-> NoSlot, first |-> 0, oids |-> {}, reads |-> 0]
          BY <4>1 DEF CallOn
        <4>4. QED  BY <4>1, <4>2, <4>3
      <3>2. QED  BY <2>2, <3>1 DEF StartEdgeLabel
    <2>3. CASE StartReducedLabel(b, r)
      BY <2>3 DEF StartReducedLabel
    <2>4. QED  BY <2>1, <2>2, <2>3
  <1>2. PICK c : c = [CallOn(op, r) EXCEPT !.to = to, !.how = how] /\ LooksById(b, c)
    BY <1>1
  <1>3. PICK g : g = r.id
    OBVIOUS
  <1>4. c = [op |-> op, graph |-> r.id, row |-> Copy(r), to |-> to, asked |-> g, how |-> how,
             entry |-> NoSlot, first |-> 0, oids |-> {}, reads |-> 0]
    BY <1>2, <1>3 DEF CallOn
  <1>5. /\ IsCall(c) /\ c.op = op /\ c.graph = r.id /\ c.reads = 0 /\ c.asked = g /\ c.how = how
    BY <1>4, CallOnIs
  <1>6. CallFits(c, RowsSeen(b, r.id), RelsSeen(b, r.id))
    BY <1>1, <1>3, <1>5 DEF CallFits, RightlyAsked
  <1>7. c.op # "alter"
    BY <1>1, <1>5
  <1>8. QED  BY <1>2, <1>5, <1>6, <1>7, LooksByIdGraph

\* A call reads its entry, and goes on with c.
LEMMA ReadsOn ==
    ASSUME GraphInv, CacheInv', NEW b \in Backend, InCall(b),
           UNCHANGED <<xact, xid, rows, rels, used, shown, raced>>,
           NEW c, call' = [call EXCEPT ![b] = c], IsCall(c), c.graph = call[b].graph, c.row = call[b].row,
           c.entry = call[b].entry, c.reads \in 0 .. 2,
           NEW g, g = c.graph, g \in Nat \ raced => CallFits(c, RowsSeen(b, g), RelsSeen(b, g))
    PROVE  GraphInv'
  <1>1. CallOK(c)'
    BY DEF GraphInv, BaseInv, CallsOK, CallOK, IsCall, Copy
  <1>2. \A d \in Backend \ {b} : InCall(d) => StillReads(d)
    BY DEF StillReads
  <1>3. Works(b, g)
    BY DEF Works
  <1>4. QED  BY <1>1, <1>2, <1>3, StartGraph

\* alter_graph and drop_graph know all there is to move or drop.
LEMMA CollectStep ==
    ASSUME GraphInv, CacheInv', NEW b \in Backend, Collect(b)
    PROVE  GraphInv'
  <1>1. PICK o, oids, n : /\ o = call[b] /\ oids = o.oids \cup Collected(b, Shown(b).id, Part(o.reads))
                          /\ n = o.reads + 1
    OBVIOUS
  <1>2. /\ InCall(b) /\ o.op \in {"alter", "drop"} /\ o.reads < 2
        /\ UNCHANGED <<xact, xid, rows, rels, used, shown, raced>>
        /\ call' = [call EXCEPT ![b].oids = @ \cup Collected(b, Shown(b).id, Part(o.reads)),
                                ![b].reads = @ + 1]
    BY <1>1 DEF Collect, InCall
  <1>3. IsCall(o) /\ o.reads \in {0, 1} /\ BaseInv /\ call = [d \in Backend |-> call[d]]
    BY <1>1, <1>2 DEF GraphInv, BaseInv, CallsOK, CallOK, CacheInv
  <1>4. PICK c : c = [op |-> o.op, graph |-> o.graph, row |-> o.row, to |-> o.to, asked |-> o.asked,
                      how |-> o.how, entry |-> o.entry, first |-> o.first, oids |-> oids, reads |-> n]
    OBVIOUS
  <1>5. /\ IsCall(c) /\ c.op = o.op /\ c.graph = o.graph /\ c.row = o.row /\ c.to = o.to
        /\ c.entry = o.entry /\ c.oids = oids /\ c.reads = n
    BY <1>4 DEF IsCall
  <1>6. call' = [call EXCEPT ![b] = c]
    <2>1. call' = [d \in Backend |-> IF d = b THEN [o EXCEPT !.oids = oids, !.reads = n] ELSE call[d]]
      BY <1>1, <1>2, <1>3
    <2>2. [o EXCEPT !.oids = oids, !.reads = n] = c
      <3>1. PICK x : x = [o EXCEPT !.oids = oids, !.reads = n]
        OBVIOUS
      <3>2. x = [op |-> o.op, graph |-> o.graph, row |-> o.row, to |-> o.to, asked |-> o.asked, how |-> o.how,
                 entry |-> o.entry, first |-> o.first, oids |-> oids, reads |-> n]
        <4>1. IsCall(o)
          BY <1>3
        <4>2. QED  BY <3>1, <4>1 DEF IsCall
      <3>3. QED  BY <1>4, <3>1, <3>2
    <2>3. QED  BY <1>3, <2>1, <2>2
  <1>7. PICK g : g = c.graph
    OBVIOUS
  <1>8. ASSUME g \in Nat \ raced PROVE CallFits(c, RowsSeen(b, g), RelsSeen(b, g))
    <2>1. CallFits(o, RowsSeen(b, g), RelsSeen(b, g))
      BY <1>1, <1>2, <1>5, <1>7, <1>8 DEF GraphInv, GraphKept
    <2>2. Shown(b).id = g
      BY <1>1, <1>2, <1>5, <1>7, <1>8, ShownIsFound
    <2>3. /\ \A kinds : Collected(b, g, kinds) = MovableOf(RelsSeen(b, g), kinds)
          /\ Movable(RelsSeen(b, g)) \subseteq Collected(b, g, Part(0)) \cup Collected(b, g, Part(1))
      BY <1>3, CollectedIsMovable
    <2>4. CASE o.reads = 0
      <3>1. MovableOf(RelsSeen(b, g), Part(0)) \subseteq oids /\ n = 1
        BY <1>1, <2>2, <2>3, <2>4
      <3>2. QED  BY <1>2, <1>5, <2>1, <3>1 DEF CallFits
    <2>5. CASE o.reads = 1
      <3>1. Collected(b, g, Part(1)) \subseteq oids /\ o.oids \subseteq oids
        BY <1>1, <2>2, <2>5
      <3>2. MovableOf(RelsSeen(b, g), Part(0)) \subseteq o.oids
        BY <1>2, <2>1, <2>5 DEF CallFits
      <3>3. Collected(b, g, Part(0)) \subseteq oids /\ MovableOf(RelsSeen(b, g), Part(0)) \subseteq oids
        BY <2>3, <3>1, <3>2
      <3>4. Movable(RelsSeen(b, g)) \subseteq oids
        BY <2>3, <3>1, <3>3
      <3>5. QED  BY <1>2, <1>5, <2>1, <3>3, <3>4 DEF CallFits
    <2>6. QED  BY <1>3, <2>4, <2>5
  <1>9. c.reads \in 0 .. 2
    BY <1>1, <1>3, <1>5
  <1>10. QED  BY <1>1, <1>2, <1>5, <1>6, <1>7, <1>8, <1>9, ReadsOn

\* A label's call goes on with the graph its entry shows.
LEMMA FirstReadStep ==
    ASSUME GraphInv, CacheInv', NEW b \in Backend, FirstRead(b)
    PROVE  GraphInv'
  <1>1. PICK o, op, first :
          /\ o = call[b] /\ o.op \in {"label", "edge label"} /\ op \in {"vlabel", "elabel"}
          /\ call' = [call EXCEPT ![b].op = op, ![b].first = first]
          /\ UNCHANGED <<xact, xid, rows, rels, used, shown, raced>>
    BY DEF FirstRead
  <1>2. IsCall(o) /\ o.reads \in 0 .. 2 /\ InCall(b) /\ call = [d \in Backend |-> call[d]]
    BY <1>1 DEF GraphInv, BaseInv, CallsOK, CallOK, CacheInv, InCall
  <1>3. PICK c : c = [op |-> op, graph |-> o.graph, row |-> o.row, to |-> o.to, asked |-> o.asked,
                      how |-> o.how, entry |-> o.entry, first |-> first, oids |-> o.oids, reads |-> o.reads]
    OBVIOUS
  <1>4. /\ IsCall(c) /\ c.op = op /\ c.graph = o.graph /\ c.row = o.row /\ c.to = o.to /\ c.how = o.how
        /\ c.asked = o.asked /\ c.entry = o.entry /\ c.reads = o.reads
    BY <1>3 DEF IsCall
  <1>5. call' = [call EXCEPT ![b] = c]
    <2>1. call' = [d \in Backend |-> IF d = b THEN [o EXCEPT !.op = op, !.first = first] ELSE call[d]]
      BY <1>1, <1>2
    <2>2. [o EXCEPT !.op = op, !.first = first] = c
      <3>1. PICK x : x = [o EXCEPT !.op = op, !.first = first]
        OBVIOUS
      <3>2. x = [op |-> op, graph |-> o.graph, row |-> o.row, to |-> o.to, asked |-> o.asked, how |-> o.how,
                 entry |-> o.entry, first |-> first, oids |-> o.oids, reads |-> o.reads]
        <4>1. IsCall(o)
          BY <1>2
        <4>2. QED  BY <3>1, <4>1 DEF IsCall
      <3>3. QED  BY <1>3, <3>1, <3>2
    <2>3. QED  BY <1>2, <2>1, <2>2
  <1>6. PICK g : g = c.graph
    OBVIOUS
  <1>7. ASSUME g \in Nat \ raced PROVE CallFits(c, RowsSeen(b, g), RelsSeen(b, g))
    <2>1. CallFits(o, RowsSeen(b, g), RelsSeen(b, g))
      BY <1>1, <1>2, <1>4, <1>6, <1>7 DEF GraphInv, GraphKept
    <2>2. QED  BY <1>1, <1>4, <2>1 DEF CallFits
  <1>8. QED  BY <1>1, <1>2, <1>4, <1>5, <1>6, <1>7, ReadsOn
-----------------------------------------------------------------------------
(* Work: versions are stamped and written by one transaction.               *)

LEMMA AssignFacts ==
    ASSUME BaseInv, NEW b \in Backend, Assign(b)
    PROVE  /\ TopXid(b) \in DOMAIN xact' /\ TopXid(b) # NoXid /\ xact'[TopXid(b)] = "running"
           /\ DOMAIN xact \subseteq DOMAIN xact' /\ XidsOf(xact) \subseteq XidsOf(xact')
           /\ \A x \in DOMAIN xact : xact'[x] = xact[x]
           /\ \A x \in DOMAIN xact' : x \in DOMAIN xact \/ x = TopXid(b)
           /\ TopXid(b) \in XidsOf(xact) => TopXid(b) = xid[b]
           /\ xid[b] # NoXid => TopXid(b) = xid[b]
           /\ xid'[b] = TopXid(b)
           /\ \A c \in Backend \ {b} : /\ xid'[c] = xid[c] /\ xid[c] \in XidsOf(xact)
                                       /\ xid[c] # TopXid(b)
  <1>1. /\ xact \in Seq(XactStatus) /\ Len(xact) \in Nat /\ DOMAIN xact = 1 .. Len(xact)
        /\ xid \in [Backend -> XidsOf(xact)] /\ OpenXactsRun
    BY LenProperties DEF BaseInv, CacheInv
  <1>2. \A c \in Backend : xid[c] # NoXid => xid[c] \in 1 .. Len(xact) /\ xact[xid[c]] = "running"
    BY <1>1 DEF XidsOf, OpenXactsRun
  <1>3. CASE xid[b] = NoXid
    <2>1. xact' = Append(xact, "running") /\ TopXid(b) = Len(xact) + 1
      BY <1>3 DEF Assign, TopXid
    <2>2. /\ Len(xact') = Len(xact) + 1 /\ DOMAIN xact' = 1 .. Len(xact')
          /\ \A x \in DOMAIN xact : xact'[x] = xact[x]
          /\ xact'[Len(xact) + 1] = "running"
      BY <1>1, <2>1
    <2>3. QED  BY <1>1, <1>2, <1>3, <2>1, <2>2 DEF Assign, XidsOf, NoXid
  <1>4. CASE xid[b] # NoXid
    <2>1. xact' = xact /\ TopXid(b) = xid[b]
      BY <1>4 DEF Assign, TopXid
    <2>2. \A c \in Backend \ {b} : xid[c] # xid[b]
      BY <1>1, <1>4 DEF OpenXactsRun
    <2>3. QED  BY <1>1, <1>2, <1>4, <2>1, <2>2 DEF Assign, XidsOf
  <1>5. QED  BY <1>3, <1>4

LEMMA KeptLive ==
    ASSUME BaseInv, NEW b \in Backend, Assign(b), NEW t, VersionOK(t)
    PROVE  /\ \A me \in XidsOf(xact) : me # TopXid(b) =>
                (TupleIsLive(xact', me, t) <=> TupleIsLive(xact, me, t))
           /\ TupleIsLive(xact', TopXid(b), t) <=> TupleIsLive(xact, xid[b], t)
           /\ VersionOK(t)'
  <1>1. t.xmin \in DOMAIN xact /\ t.xmax \in XidsOf(xact)
    BY DEF VersionOK
  <1>2. \A x \in XidsOf(xact) : DidCommit(xact', x) <=> DidCommit(xact, x)
    BY AssignFacts DEF XidsOf, DidCommit
  <1>3. DOMAIN xact \subseteq XidsOf(xact)
    BY DEF XidsOf
  <1>4. \A me \in XidsOf(xact) : TupleIsLive(xact', me, t) <=> TupleIsLive(xact, me, t)
    BY <1>1, <1>2, <1>3 DEF TupleIsLive
  <1>5. TupleIsLive(xact', TopXid(b), t) <=> TupleIsLive(xact, xid[b], t)
    BY <1>1, <1>2, <1>3, AssignFacts DEF TupleIsLive, IsOwn
  <1>6. VersionOK(t)'
    BY <1>1, <1>2, <1>3, AssignFacts DEF VersionOK
  <1>7. QED  BY <1>4, <1>5, <1>6

IsFree(t) == t.xmax = NoXid \/ DidAbort(xact, t.xmax)

LEMMA StampLive ==
    ASSUME BaseInv, NEW b \in Backend, Assign(b), NEW t, VersionOK(t), TupleIsLive(xact, xid[b], t),
           NEW s, s.xmin = t.xmin, s.xmax = TopXid(b)
    PROVE  /\ IsFree(t) => \A me \in XidsOf(xact) : me # TopXid(b) /\ (me # NoXid => xact[me] = "running") =>
                (TupleIsLive(xact', me, s) <=> TupleIsLive(xact, me, t))
           /\ ~TupleIsLive(xact', TopXid(b), s)
           /\ VersionOK(s)'
  <1>1. /\ t.xmin \in DOMAIN xact /\ t.xmax \in XidsOf(xact)
        /\ (t.xmin = xid[b] /\ xid[b] # NoXid) \/ DidCommit(xact, t.xmin)
    BY DEF VersionOK, TupleIsLive, IsOwn
  <1>2. \A x \in DOMAIN xact : DidCommit(xact', x) <=> DidCommit(xact, x)
    BY AssignFacts DEF DidCommit
  <1>3. ~TupleIsLive(xact', TopXid(b), s)
    BY AssignFacts DEF TupleIsLive, IsOwn
  <1>4. VersionOK(s)'
    <2>1. s.xmin \in DOMAIN xact' /\ s.xmax \in DOMAIN xact'
      BY <1>1, AssignFacts
    <2>2. CASE t.xmin = xid[b] /\ xid[b] # NoXid
      <3>1. s.xmax = s.xmin
        BY <2>2, AssignFacts
      <3>2. QED  BY <2>1, <3>1 DEF VersionOK, XidsOf
    <2>3. CASE DidCommit(xact, t.xmin)
      <3>1. DidCommit(xact', s.xmin)
        BY <1>1, <1>2, <2>3
      <3>2. QED  BY <2>1, <3>1 DEF VersionOK, XidsOf
    <2>4. QED  BY <1>1, <2>2, <2>3
  <1>5. ASSUME IsFree(t), NEW me \in XidsOf(xact), me # TopXid(b), me # NoXid => xact[me] = "running"
        PROVE  TupleIsLive(xact', me, s) <=> TupleIsLive(xact, me, t)
    <2>1. ~DidCommit(xact', s.xmax) /\ ~IsOwn(me, s.xmax)
      BY <1>5, AssignFacts DEF DidCommit, IsOwn
    <2>2. ~DidCommit(xact, t.xmax) /\ ~IsOwn(me, t.xmax)
      BY <1>5 DEF IsFree, DidCommit, DidAbort, IsOwn
    <2>3. QED  BY <1>1, <1>2, <2>1, <2>2 DEF TupleIsLive
  <1>6. QED  BY <1>3, <1>4, <1>5

LEMMA WriteLive ==
    ASSUME BaseInv, NEW b \in Backend, Assign(b), NEW s, s.xmin = TopXid(b), s.xmax = NoXid
    PROVE  /\ \A me \in XidsOf(xact) : me # TopXid(b) => ~TupleIsLive(xact', me, s)
           /\ TupleIsLive(xact', TopXid(b), s)
           /\ VersionOK(s)'
    BY AssignFacts DEF TupleIsLive, IsOwn, DidCommit, VersionOK, XidsOf

\* The rows, or relations, gone are stamped and the new ones are written.
Rewritten(b, T, gone, new) ==
    (T \ gone) \cup {Stamped(b, t) : t \in gone} \cup {Written(b, t) : t \in new}

LEMMA RowVersions ==
    ASSUME NEW b \in Backend, NEW r, IsGraphRow(r)
    PROVE  /\ Copy(Stamped(b, r)) = Copy(r) /\ Stamped(b, r).id = r.id
           /\ Stamped(b, r).xmin = r.xmin /\ Stamped(b, r).xmax = TopXid(b)
           /\ Stamped(b, r).name = r.name /\ Stamped(b, r).ns = r.ns
           /\ Copy(Written(b, r)) = Copy(r) /\ Written(b, r).id = r.id
           /\ Written(b, r).xmin = TopXid(b) /\ Written(b, r).xmax = NoXid
           /\ Written(b, r).name = r.name /\ Written(b, r).ns = r.ns
    BY DEF IsGraphRow, Stamped, Written, Copy

LEMMA RelationVersions ==
    ASSUME NEW b \in Backend, NEW x, IsRelation(x)
    PROVE  /\ Bare(Stamped(b, x)) = Bare(x) /\ Stamped(b, x).graph = x.graph
           /\ Stamped(b, x).xmin = x.xmin /\ Stamped(b, x).xmax = TopXid(b)
           /\ Bare(Written(b, x)) = Bare(x) /\ Written(b, x).graph = x.graph
           /\ Written(b, x).xmin = TopXid(b) /\ Written(b, x).xmax = NoXid
           /\ IsRelation(Stamped(b, x)) /\ IsRelation(Written(b, x))
  <1>1. Stamped(b, x) = [kind |-> x.kind, graph |-> x.graph, label |-> x.label, ns |-> x.ns,
                         asked |-> x.asked, how |-> x.how, xmin |-> x.xmin, xmax |-> TopXid(b)]
    BY DEF IsRelation, Stamped
  <1>2. Written(b, x) = [kind |-> x.kind, graph |-> x.graph, label |-> x.label, ns |-> x.ns,
                         asked |-> x.asked, how |-> x.how, xmin |-> TopXid(b), xmax |-> NoXid]
    <2>1. PICK y : y = [kind |-> x.kind, graph |-> x.graph, label |-> x.label, ns |-> x.ns,
                        asked |-> x.asked, how |-> x.how, xmin |-> TopXid(b), xmax |-> x.xmax]
      OBVIOUS
    <2>2. y = [x EXCEPT !.xmin = TopXid(b)]
      BY <2>1 DEF IsRelation
    <2>3. Written(b, x) = [y EXCEPT !.xmax = NoXid]
      BY <2>2 DEF Written
    <2>4. QED  BY <2>1, <2>3
  <1>3. QED  BY <1>1, <1>2 DEF IsRelation, Bare

LEMMA RowsWork ==
    ASSUME BaseInv, NEW b \in Backend, Assign(b),
           NEW gone, gone \subseteq LiveRows(b), NEW new, \A r \in new : IsGraphRow(r),
           rows' = Rewritten(b, rows, gone, new),
           NEW g, \A r \in gone : r.id = g => IsFree(r)
    PROVE  /\ RowsStanding(g)' = RowsStanding(g)
           /\ \A c \in Backend \ {b} : RowsSeen(c, g)' = RowsSeen(c, g)
           /\ RowsSeen(b, g)' = {Copy(r) : r \in {s \in LiveRows(b) : s.id = g /\ s \notin gone}
                                                 \cup {s \in new : s.id = g}}
  <1> DEFINE After(me) == {Copy(r) : r \in {s \in rows' : s.id = g /\ TupleIsLive(xact', me, s)}}
  <1>1. \A r \in rows : IsGraphRow(r) /\ VersionOK(r)
    BY VersionFacts
  <1>2. \A r \in gone : r \in rows /\ TupleIsLive(xact, xid[b], r)
    BY DEF LiveRows, Live
  <1>3. \A s : s \in rows' <=> \/ s \in rows \ gone
                               \/ \E t \in gone : s = Stamped(b, t)
                               \/ \E t \in new : s = Written(b, t)
    BY DEF Rewritten
  <1>4. ASSUME NEW me \in XidsOf(xact), me # TopXid(b), me # NoXid => xact[me] = "running"
        PROVE  After(me) = RowsFor(me, g)
    <2>1. ASSUME NEW s \in rows', s.id = g, TupleIsLive(xact', me, s)
          PROVE  \E t \in rows : t.id = g /\ TupleIsLive(xact, me, t) /\ Copy(t) = Copy(s)
      <3>1. CASE s \in rows \ gone
        BY <1>1, <1>4, <2>1, <3>1, KeptLive
      <3>2. ASSUME NEW t \in gone, s = Stamped(b, t) PROVE t.id = g /\ TupleIsLive(xact, me, t) /\ Copy(t) = Copy(s)
        BY <1>1, <1>2, <1>4, <2>1, <3>2, StampLive, RowVersions
      <3>3. ASSUME NEW t \in new, s = Written(b, t) PROVE FALSE
        BY <1>4, <2>1, <3>3, WriteLive, RowVersions
      <3>4. QED  BY <1>2, <1>3, <3>1, <3>2, <3>3
    <2>2. ASSUME NEW t \in rows, t.id = g, TupleIsLive(xact, me, t)
          PROVE  \E s \in rows' : s.id = g /\ TupleIsLive(xact', me, s) /\ Copy(s) = Copy(t)
      <3>1. CASE t \notin gone
        BY <1>1, <1>3, <1>4, <2>2, <3>1, KeptLive
      <3>2. CASE t \in gone
        <4>1. Stamped(b, t) \in rows'
          BY <1>3, <3>2
        <4>2. QED  BY <1>1, <1>2, <1>4, <2>2, <3>2, <4>1, StampLive, RowVersions
      <3>3. QED  BY <3>1, <3>2
    <2>3. \A k : k \in After(me) <=> \E s \in rows' : s.id = g /\ TupleIsLive(xact', me, s) /\ k = Copy(s)
      OBVIOUS
    <2>4. \A k : k \in RowsFor(me, g) <=> \E s \in rows : s.id = g /\ TupleIsLive(xact, me, s) /\ k = Copy(s)
      BY DEF RowsFor
    <2> HIDE DEF After
    <2>5. \A k : k \in After(me) <=> k \in RowsFor(me, g)
      BY <2>1, <2>2, <2>3, <2>4
    <2>6. After(me) = {k \in After(me) : TRUE} /\ RowsFor(me, g) = {k \in RowsFor(me, g) : TRUE}
      OBVIOUS
    <2>7. QED  BY <2>5, <2>6
  <1>5. /\ RowsStanding(g)' = After(NoXid)
        /\ \A c \in Backend : RowsSeen(c, g)' = After(xid'[c])
    BY DEF RowsStanding, RowsSeen, RowsFor, Copy
  <1>6. After(TopXid(b)) = {Copy(r) : r \in {s \in LiveRows(b) : s.id = g /\ s \notin gone}
                                            \cup {s \in new : s.id = g}}
    <2> DEFINE N == {s \in LiveRows(b) : s.id = g /\ s \notin gone} \cup {s \in new : s.id = g}
    <2>1. ASSUME NEW s \in rows', s.id = g, TupleIsLive(xact', TopXid(b), s)
          PROVE  \E t \in N : Copy(t) = Copy(s)
      <3>1. CASE s \in rows \ gone
        BY <1>1, <2>1, <3>1, KeptLive DEF LiveRows, Live
      <3>2. ASSUME NEW t \in gone, s = Stamped(b, t) PROVE FALSE
        BY <1>1, <1>2, <2>1, <3>2, StampLive, RowVersions
      <3>3. ASSUME NEW t \in new, s = Written(b, t) PROVE t \in N /\ Copy(t) = Copy(s)
        BY <2>1, <3>3, RowVersions
      <3>4. QED  BY <1>3, <3>1, <3>2, <3>3
    <2>2. ASSUME NEW t \in N
          PROVE  \E s \in rows' : s.id = g /\ TupleIsLive(xact', TopXid(b), s) /\ Copy(s) = Copy(t)
      <3>1. CASE t \in new /\ t.id = g
        <4>1. Written(b, t) \in rows'
          BY <1>3, <3>1
        <4>2. QED  BY <3>1, <4>1, WriteLive, RowVersions
      <3>2. CASE t \in LiveRows(b) /\ t.id = g /\ t \notin gone
        BY <1>1, <1>3, <3>2, KeptLive DEF LiveRows, Live
      <3>3. QED  BY <3>1, <3>2
    <2>3. \A k : k \in After(TopXid(b)) <=> \E s \in rows' : s.id = g /\ TupleIsLive(xact', TopXid(b), s) /\ k = Copy(s)
      OBVIOUS
    <2> HIDE DEF After, N
    <2>4. \A k : k \in After(TopXid(b)) <=> k \in {Copy(r) : r \in N}
      BY <2>1, <2>2, <2>3
    <2>5. After(TopXid(b)) = {Copy(r) : r \in N}
      <3> DEFINE A == After(TopXid(b))
                 C == {Copy(r) : r \in N}
      <3>1. \A k : k \in A <=> k \in C
        BY <2>4
      <3> HIDE DEF A, C
      <3>2. A = C
        BY <3>1
      <3>3. QED  BY <3>2 DEF A, C
    <2>6. QED  BY <2>5 DEF N
  <1> HIDE DEF After
  <1>7. After(NoXid) = RowsFor(NoXid, g)
    BY <1>4, AssignFacts DEF XidsOf
  <1>8. \A c \in Backend \ {b} : After(xid[c]) = RowsFor(xid[c], g)
    BY <1>4, AssignFacts, VersionFacts
  <1>9. QED  BY <1>5, <1>6, <1>7, <1>8, AssignFacts DEF RowsStanding, RowsSeen

LiveRels(b) == {x \in rels : Live(b, x)}

LEMMA RelsWork ==
    ASSUME BaseInv, NEW b \in Backend, Assign(b),
           NEW gone, gone \subseteq LiveRels(b), NEW new, \A r \in new : IsRelation(r),
           rels' = Rewritten(b, rels, gone, new),
           NEW g, \A r \in gone : r.graph = g => IsFree(r)
    PROVE  /\ RelsStanding(g)' = RelsStanding(g)
           /\ \A c \in Backend \ {b} : RelsSeen(c, g)' = RelsSeen(c, g)
           /\ RelsSeen(b, g)' = {Bare(r) : r \in {s \in LiveRels(b) : s.graph = g /\ s \notin gone}
                                                 \cup {s \in new : s.graph = g}}
  <1> DEFINE After(me) == {Bare(r) : r \in {s \in rels' : s.graph = g /\ TupleIsLive(xact', me, s)}}
  <1>1. \A r \in rels : IsRelation(r) /\ VersionOK(r)
    BY VersionFacts
  <1>2. \A r \in gone : r \in rels /\ TupleIsLive(xact, xid[b], r)
    BY DEF LiveRels, Live
  <1>3. \A s : s \in rels' <=> \/ s \in rels \ gone
                               \/ \E t \in gone : s = Stamped(b, t)
                               \/ \E t \in new : s = Written(b, t)
    BY DEF Rewritten
  <1>4. ASSUME NEW me \in XidsOf(xact), me # TopXid(b), me # NoXid => xact[me] = "running"
        PROVE  After(me) = RelsFor(me, g)
    <2>1. ASSUME NEW s \in rels', s.graph = g, TupleIsLive(xact', me, s)
          PROVE  \E t \in rels : t.graph = g /\ TupleIsLive(xact, me, t) /\ Bare(t) = Bare(s)
      <3>1. CASE s \in rels \ gone
        BY <1>1, <1>4, <2>1, <3>1, KeptLive
      <3>2. ASSUME NEW t \in gone, s = Stamped(b, t) PROVE t.graph = g /\ TupleIsLive(xact, me, t) /\ Bare(t) = Bare(s)
        BY <1>1, <1>2, <1>4, <2>1, <3>2, StampLive, RelationVersions
      <3>3. ASSUME NEW t \in new, s = Written(b, t) PROVE FALSE
        BY <1>4, <2>1, <3>3, WriteLive, RelationVersions
      <3>4. QED  BY <1>2, <1>3, <3>1, <3>2, <3>3
    <2>2. ASSUME NEW t \in rels, t.graph = g, TupleIsLive(xact, me, t)
          PROVE  \E s \in rels' : s.graph = g /\ TupleIsLive(xact', me, s) /\ Bare(s) = Bare(t)
      <3>1. CASE t \notin gone
        BY <1>1, <1>3, <1>4, <2>2, <3>1, KeptLive
      <3>2. CASE t \in gone
        <4>1. Stamped(b, t) \in rels'
          BY <1>3, <3>2
        <4>2. QED  BY <1>1, <1>2, <1>4, <2>2, <3>2, <4>1, StampLive, RelationVersions
      <3>3. QED  BY <3>1, <3>2
    <2>3. \A k : k \in After(me) <=> \E s \in rels' : s.graph = g /\ TupleIsLive(xact', me, s) /\ k = Bare(s)
      OBVIOUS
    <2>4. \A k : k \in RelsFor(me, g) <=> \E s \in rels : s.graph = g /\ TupleIsLive(xact, me, s) /\ k = Bare(s)
      BY DEF RelsFor
    <2> HIDE DEF After
    <2>5. \A k : k \in After(me) <=> k \in RelsFor(me, g)
      BY <2>1, <2>2, <2>3, <2>4
    <2>6. After(me) = {k \in After(me) : TRUE} /\ RelsFor(me, g) = {k \in RelsFor(me, g) : TRUE}
      OBVIOUS
    <2>7. QED  BY <2>5, <2>6
  <1>5. /\ RelsStanding(g)' = After(NoXid)
        /\ \A c \in Backend : RelsSeen(c, g)' = After(xid'[c])
    BY DEF RelsStanding, RelsSeen, RelsFor, Bare
  <1>6. After(TopXid(b)) = {Bare(r) : r \in {s \in LiveRels(b) : s.graph = g /\ s \notin gone}
                                            \cup {s \in new : s.graph = g}}
    <2> DEFINE N == {s \in LiveRels(b) : s.graph = g /\ s \notin gone} \cup {s \in new : s.graph = g}
    <2>1. ASSUME NEW s \in rels', s.graph = g, TupleIsLive(xact', TopXid(b), s)
          PROVE  \E t \in N : Bare(t) = Bare(s)
      <3>1. CASE s \in rels \ gone
        BY <1>1, <2>1, <3>1, KeptLive DEF LiveRels, Live
      <3>2. ASSUME NEW t \in gone, s = Stamped(b, t) PROVE FALSE
        BY <1>1, <1>2, <2>1, <3>2, StampLive, RelationVersions
      <3>3. ASSUME NEW t \in new, s = Written(b, t) PROVE t \in N /\ Bare(t) = Bare(s)
        BY <2>1, <3>3, RelationVersions
      <3>4. QED  BY <1>3, <3>1, <3>2, <3>3
    <2>2. ASSUME NEW t \in N
          PROVE  \E s \in rels' : s.graph = g /\ TupleIsLive(xact', TopXid(b), s) /\ Bare(s) = Bare(t)
      <3>1. CASE t \in new /\ t.graph = g
        <4>1. Written(b, t) \in rels'
          BY <1>3, <3>1
        <4>2. QED  BY <3>1, <4>1, WriteLive, RelationVersions
      <3>2. CASE t \in LiveRels(b) /\ t.graph = g /\ t \notin gone
        BY <1>1, <1>3, <3>2, KeptLive DEF LiveRels, Live
      <3>3. QED  BY <3>1, <3>2
    <2>3. \A k : k \in After(TopXid(b)) <=> \E s \in rels' : s.graph = g /\ TupleIsLive(xact', TopXid(b), s) /\ k = Bare(s)
      OBVIOUS
    <2> HIDE DEF After, N
    <2>4. \A k : k \in After(TopXid(b)) <=> k \in {Bare(r) : r \in N}
      BY <2>1, <2>2, <2>3
    <2>5. After(TopXid(b)) = {Bare(r) : r \in N}
      <3> DEFINE A == After(TopXid(b))
                 C == {Bare(r) : r \in N}
      <3>1. \A k : k \in A <=> k \in C
        BY <2>4
      <3> HIDE DEF A, C
      <3>2. A = C
        BY <3>1
      <3>3. QED  BY <3>2 DEF A, C
    <2>6. QED  BY <2>5 DEF N
  <1> HIDE DEF After
  <1>7. After(NoXid) = RelsFor(NoXid, g)
    BY <1>4, AssignFacts DEF XidsOf
  <1>8. \A c \in Backend \ {b} : After(xid[c]) = RelsFor(xid[c], g)
    BY <1>4, AssignFacts, VersionFacts
  <1>9. QED  BY <1>5, <1>6, <1>7, <1>8, AssignFacts DEF RelsStanding, RelsSeen

\* What may be said of the rows a call stamps and writes.
RowsChange(b, gone, new) ==
    /\ gone \subseteq LiveRows(b) /\ \A r \in gone : MayWrite(b, r)
    /\ IsFiniteSet(new) /\ \A r \in new : IsGraphRow(r)
    /\ rows' = Rewritten(b, rows, gone, new)
RelsChange(b, gone, new) ==
    /\ gone \subseteq LiveRels(b) /\ \A x \in new : IsRelation(x)
    /\ rels' = Rewritten(b, rels, gone, new)

\* One row at most is written, and those it could rival are stamped.
NoNewRivals(b, gone, new) ==
    /\ \A s \in new : \A q \in rows \ gone : Alike(q, s) /\ ~Dead(q) =>
         xid[b] # NoXid /\ q.xmax = xid[b]
    /\ \A s, t \in new : s = t

LEMMA WrittenIsFree ==
    ASSUME BaseInv, NEW b \in Backend, NEW r \in rows, MayWrite(b, r)
    PROVE  IsFree(r)
  <1>1. /\ VersionOK(r) /\ (xid[b] # NoXid => xact[xid[b]] = "running")
        /\ xact \in Seq(XactStatus)
    BY VersionFacts DEF BaseInv, CacheInv
  <1>2. TupleIsLive(xact, xid[b], r) /\ ~TupleXmaxOther(xact, xid[b], r)
    BY DEF MayWrite, MayReplace
  <1>3. SUFFICES ASSUME r.xmax # NoXid PROVE DidAbort(xact, r.xmax)
    BY DEF IsFree
  <1>4. r.xmax \in DOMAIN xact /\ xact[r.xmax] \in XactStatus
    BY <1>1, <1>3 DEF VersionOK, XidsOf
  <1>5. r.xmax # xid[b] /\ ~DidCommit(xact, r.xmax)
    BY <1>1, <1>2, <1>3 DEF VersionOK, TupleIsLive, IsOwn, DidCommit
  <1>6. xact[r.xmax] # "running" /\ xact[r.xmax] # "committed"
    BY <1>2, <1>3, <1>5 DEF TupleXmaxOther, InProgress, IsOwn, DidCommit
  <1>7. QED  BY <1>3, <1>4, <1>6 DEF DidAbort, XactStatus

LEMMA ImageIsFinite ==
    ASSUME NEW S, IsFiniteSet(S), NEW f, DOMAIN f = S, f = [x \in S |-> f[x]]
    PROVE  IsFiniteSet({f[x] : x \in S})
  <1> DEFINE T == {f[x] : x \in S}
  <1>1. f \in [S -> T] /\ \A t \in T : \E x \in S : f[x] = t
    OBVIOUS
  <1> HIDE DEF T
  <1>2. f \in Surjection(S, T)
    BY <1>1 DEF Surjection
  <1>3. QED  BY <1>2, FS_Surjection DEF T

LEMMA WorkRivals ==
    ASSUME BaseInv, NEW b \in Backend, Assign(b), NEW gone, NEW new,
           RowsChange(b, gone, new), NoNewRivals(b, gone, new)
    PROVE  RivalsEnd'
  <1>1. /\ \A r \in rows : IsGraphRow(r) /\ VersionOK(r) /\ r.xmin # NoXid
        /\ \A r \in gone : r \in rows /\ r \in LiveRows(b) /\ IsFree(r)
        /\ \A r \in new : IsGraphRow(r)
    <2>1. \A r \in rows : IsGraphRow(r) /\ VersionOK(r)
      BY VersionFacts
    <2>2. NoXid \notin DOMAIN xact
      BY DEF BaseInv, CacheInv, NoXid
    <2>3. \A r \in gone : r \in rows /\ r \in LiveRows(b)
      BY DEF RowsChange, LiveRows
    <2>4. QED  BY <2>1, <2>2, <2>3, WrittenIsFree DEF RowsChange, VersionOK
  <1>2. \A s : s \in rows' <=> \/ s \in rows \ gone
                               \/ \E t \in gone : s = Stamped(b, t)
                               \/ \E t \in new : s = Written(b, t)
    BY DEF RowsChange, Rewritten
  <1>3. ASSUME NEW r \in rows PROVE Dead(r) => Dead(r)'
    BY <1>1, AssignFacts DEF VersionOK, Dead, DidCommit, DidAbort, XidsOf
  <1>4. ASSUME NEW t \in gone, NEW s, s = Stamped(b, t) PROVE Dead(t) => Dead(s)'
    <2>1. Dead(t) => DidAbort(xact, t.xmin)
      BY <1>1, <1>4 DEF Dead, IsFree, DidCommit, DidAbort
    <2>2. DidAbort(xact, t.xmin) => DidAbort(xact', t.xmin)
      BY <1>1, <1>4, AssignFacts DEF VersionOK, DidAbort
    <2>3. s.xmin = t.xmin
      BY <1>1, <1>4, RowVersions
    <2>4. QED  BY <2>1, <2>2, <2>3 DEF Dead
  <1>5. SUFFICES ASSUME NEW r \in rows', NEW s \in rows', r # s, Alike(r, s), ~Dead(r)', ~Dead(s)'
                 PROVE  r.xmax = s.xmin \/ s.xmax = r.xmin
    BY DEF RivalsEnd, Alike
  <1>6. ASSUME NEW u \in rows \ gone, NEW t \in gone, NEW w, w = Stamped(b, t), Alike(u, w), ~Dead(u)', ~Dead(w)'
        PROVE  u.xmax = w.xmin \/ w.xmax = u.xmin
    <2>1. ~Dead(u) /\ ~Dead(t)
      BY <1>3, <1>4, <1>6
    <2>2. Alike(u, t) /\ u # t /\ t \in rows
      BY <1>1, <1>6, RowVersions DEF Alike
    <2>3. u.xmax = t.xmin \/ t.xmax = u.xmin
      BY <2>1, <2>2 DEF BaseInv, RivalsEnd
    <2>4. t.xmax # u.xmin
      BY <1>1, <2>1 DEF IsFree, Dead, DidAbort
    <2>5. QED  BY <1>1, <1>6, <2>3, <2>4, RowVersions
  <1>7. ASSUME NEW u \in rows', NEW t \in new, NEW w, w = Written(b, t), Alike(u, w), ~Dead(u)', u # w
        PROVE  u.xmax = w.xmin
    <2>1. w.xmin = TopXid(b) /\ w.id = t.id /\ w.name = t.name /\ w.ns = t.ns
      BY <1>1, <1>7, RowVersions
    <2>2. CASE u \in rows \ gone
      <3>1. ~Dead(u) /\ Alike(u, t)
        BY <1>3, <1>7, <2>1, <2>2 DEF Alike
      <3>2. u.xmax = xid[b] /\ xid[b] # NoXid
        BY <2>2, <3>1 DEF NoNewRivals
      <3>3. QED  BY <2>1, <3>2, AssignFacts
    <2>3. ASSUME NEW v \in gone, u = Stamped(b, v) PROVE u.xmax = w.xmin
      BY <1>1, <2>1, <2>3, RowVersions
    <2>4. ASSUME NEW v \in new, u = Written(b, v) PROVE FALSE
      BY <1>7, <2>4 DEF NoNewRivals
    <2>5. QED  BY <1>2, <2>2, <2>3, <2>4
  <1>8. ASSUME NEW t \in gone, NEW v \in gone, NEW u, NEW w,
               u = Stamped(b, t), w = Stamped(b, v), Alike(u, w)
        PROVE  u = w
    <2>1. Alike(t, v)
      BY <1>1, <1>8, RowVersions DEF Alike
    <2>2. QED  BY <1>1, <1>8, <2>1, OneLiveRow
  <1>9. Alike(s, r)
    BY <1>5 DEF Alike
  <1>10. CASE r \in rows \ gone /\ s \in rows \ gone
    BY <1>3, <1>5, <1>10 DEF BaseInv, RivalsEnd
  <1>11. CASE \E t \in new : r = Written(b, t) \/ s = Written(b, t)
    BY <1>5, <1>7, <1>9, <1>11
  <1>12. CASE \E t \in gone : r = Stamped(b, t) \/ s = Stamped(b, t)
    BY <1>2, <1>5, <1>6, <1>8, <1>9, <1>11, <1>12
  <1>13. QED  BY <1>2, <1>5, <1>10, <1>11, <1>12

LEMMA WorkBase ==
    ASSUME BaseInv, CacheInv', NEW b \in Backend, Assign(b),
           NEW gone, NEW new, RowsChange(b, gone, new), NoNewRivals(b, gone, new),
           NEW xgone, NEW xnew, RelsChange(b, xgone, xnew),
           IdsInOrder', CallsOK'
    PROVE  BaseInv'
  <1>1. /\ \A r \in rows : IsGraphRow(r) /\ VersionOK(r)
        /\ \A x \in rels : IsRelation(x) /\ VersionOK(x)
        /\ \A r \in gone : r \in rows /\ TupleIsLive(xact, xid[b], r)
        /\ \A x \in xgone : x \in rels /\ TupleIsLive(xact, xid[b], x)
        /\ (\A r \in new : IsGraphRow(r)) /\ (\A x \in xnew : IsRelation(x))
    BY VersionFacts DEF RowsChange, RelsChange, LiveRows, LiveRels, Live
  <1>2. /\ \A s : s \in rows' <=> \/ s \in rows \ gone
                                  \/ \E t \in gone : s = Stamped(b, t)
                                  \/ \E t \in new : s = Written(b, t)
        /\ \A s : s \in rels' <=> \/ s \in rels \ xgone
                                  \/ \E t \in xgone : s = Stamped(b, t)
                                  \/ \E t \in xnew : s = Written(b, t)
    BY DEF RowsChange, RelsChange, Rewritten
  <1>3. VersionsOK'
    <2>1. ASSUME NEW s \in rows' PROVE VersionOK(s)'
      <3>1. CASE s \in rows \ gone
        BY <1>1, <3>1, KeptLive
      <3>2. ASSUME NEW t \in gone, s = Stamped(b, t) PROVE VersionOK(s)'
        BY <1>1, <3>2, RowVersions, StampLive
      <3>3. ASSUME NEW t \in new, s = Written(b, t) PROVE VersionOK(s)'
        BY <1>1, <3>3, RowVersions, WriteLive
      <3>4. QED  BY <1>2, <3>1, <3>2, <3>3
    <2>2. ASSUME NEW s \in rels' PROVE VersionOK(s)'
      <3>1. CASE s \in rels \ xgone
        BY <1>1, <3>1, KeptLive
      <3>2. ASSUME NEW t \in xgone, s = Stamped(b, t) PROVE VersionOK(s)'
        BY <1>1, <3>2, RelationVersions, StampLive
      <3>3. ASSUME NEW t \in xnew, s = Written(b, t) PROVE VersionOK(s)'
        BY <1>1, <3>3, RelationVersions, WriteLive
      <3>4. QED  BY <1>2, <3>1, <3>2, <3>3
    <2>3. QED  BY <2>1, <2>2 DEF VersionsOK
  <1>4. RelsAreRels'
    <2>1. \A s \in rels' : IsRelation(s)
      BY <1>1, <1>2, RelationVersions
    <2>2. QED  BY <2>1 DEF RelsAreRels, IsRelation
  <1>5. RunningIsOpen'
    <2>1. SUFFICES ASSUME NEW x \in DOMAIN xact', xact'[x] = "running"
                   PROVE  \E c \in Backend : xid'[c] = x
      BY DEF RunningIsOpen
    <2>2. CASE x = TopXid(b)
      BY <2>2, AssignFacts
    <2>3. CASE x \in DOMAIN xact /\ x # TopXid(b)
      <3>1. PICK c \in Backend : xid[c] = x
        BY <2>1, <2>3, AssignFacts DEF BaseInv, RunningIsOpen
      <3>2. x # NoXid
        BY <2>3 DEF BaseInv, CacheInv, NoXid
      <3>3. c # b
        BY <2>3, <3>1, <3>2, AssignFacts
      <3>4. QED  BY <3>1, <3>3, AssignFacts
    <2>4. QED  BY <2>1, <2>2, <2>3, AssignFacts
  <1>6. IsFiniteSet(rows')
    <2>1. IsFiniteSet(rows) /\ gone \subseteq rows /\ IsFiniteSet(new)
      BY <1>1 DEF BaseInv, RowsChange
    <2>2. IsFiniteSet(rows \ gone) /\ IsFiniteSet(gone)
      BY <2>1, FS_Subset, FS_Difference
    <2> DEFINE S == {Stamped(b, t) : t \in gone}
               W == {Written(b, t) : t \in new}
    <2>3. IsFiniteSet(S) /\ IsFiniteSet(W)
      <3>1. PICK f, h : f = [t \in gone |-> Stamped(b, t)] /\ h = [t \in new |-> Written(b, t)]
        OBVIOUS
      <3>2. S = {f[t] : t \in gone} /\ W = {h[t] : t \in new}
        BY <3>1
      <3>3. /\ DOMAIN f = gone /\ f = [t \in gone |-> f[t]]
            /\ DOMAIN h = new /\ h = [t \in new |-> h[t]]
        BY <3>1
      <3> HIDE DEF S, W
      <3>4. QED  BY <2>1, <2>2, <3>2, <3>3, ImageIsFinite
    <2>4. rows' = ((rows \ gone) \cup S) \cup W
      BY DEF RowsChange, Rewritten
    <2> HIDE DEF S, W
    <2>5. QED  BY <2>2, <2>3, <2>4, FS_Union
  <1>7. QED  BY <1>3, <1>4, <1>5, <1>6, WorkRivals DEF BaseInv

\* What the backend sees afterwards.
RowsAfter(b, gone, new, g) ==
    {Copy(r) : r \in {s \in LiveRows(b) : s.id = g /\ s \notin gone} \cup {s \in new : s.id = g}}
RelsAfter(b, gone, new, g) ==
    {Bare(r) : r \in {s \in LiveRels(b) : s.graph = g /\ s \notin gone} \cup {s \in new : s.graph = g}}

LEMMA NoneGone ==
    ASSUME NEW b \in Backend, NEW g
    PROVE  /\ \A gone, new : (\A r \in gone \cup new : r.id # g) =>
                RowsAfter(b, gone, new, g) = RowsSeen(b, g)
           /\ \A gone, new : (\A x \in gone \cup new : x.graph # g) =>
                RelsAfter(b, gone, new, g) = RelsSeen(b, g)
  <1>1. ASSUME NEW gone, NEW new, \A r \in gone \cup new : r.id # g
        PROVE  RowsAfter(b, gone, new, g) = RowsSeen(b, g)
    <2>1. {s \in LiveRows(b) : s.id = g /\ s \notin gone} \cup {s \in new : s.id = g}
            = {s \in LiveRows(b) : s.id = g}
      BY <1>1
    <2>2. QED  BY <2>1, SeenIsLive DEF RowsAfter
  <1>2. ASSUME NEW gone, NEW new, \A x \in gone \cup new : x.graph # g
        PROVE  RelsAfter(b, gone, new, g) = RelsSeen(b, g)
    <2>1. {s \in LiveRels(b) : s.graph = g /\ s \notin gone} \cup {s \in new : s.graph = g}
            = LiveOf(b, g)
      BY <1>2 DEF LiveRels, LiveOf, Of
    <2>2. QED  BY <2>1, SeenIsLive DEF RelsAfter
  <1>3. QED  BY <1>1, <1>2

\* Nobody who runs has stamped a relation of a graph that one backend works on.
LEMMA AloneIsFree ==
    ASSUME BaseInv, NEW b \in Backend, NEW g, \A c \in Backend \ {b} : ~Works(c, g),
           NEW x \in LiveRels(b), x.graph = g
    PROVE  IsFree(x)
  <1>1. /\ VersionOK(x) /\ (xid[b] # NoXid => xact[xid[b]] = "running") /\ x \in rels
        /\ xact \in Seq(XactStatus) /\ TupleIsLive(xact, xid[b], x)
    BY VersionFacts DEF BaseInv, CacheInv, LiveRels, Live
  <1>2. SUFFICES ASSUME x.xmax # NoXid PROVE DidAbort(xact, x.xmax)
    BY DEF IsFree
  <1>3. x.xmax \in DOMAIN xact /\ xact[x.xmax] \in XactStatus
    BY <1>1, <1>2 DEF VersionOK, XidsOf
  <1>4. x.xmax # xid[b] /\ ~DidCommit(xact, x.xmax)
    BY <1>1, <1>2 DEF VersionOK, TupleIsLive, IsOwn, DidCommit
  <1>5. xact[x.xmax] # "running"
    <2>1. SUFFICES ASSUME xact[x.xmax] = "running" PROVE FALSE
      OBVIOUS
    <2>2. PICK c \in Backend : xid[c] = x.xmax
      BY <1>3, <2>1 DEF BaseInv, RunningIsOpen
    <2>3. Works(c, g) /\ c # b
      BY <1>1, <1>2, <1>4, <2>2 DEF Works, Touches, Of
    <2>4. QED  BY <2>3
  <1>6. QED  BY <1>2, <1>3, <1>4, <1>5 DEF DidCommit, DidAbort, XactStatus

\* Whom the versions of a graph belong to afterwards.
LEMMA WorkTouches ==
    ASSUME BaseInv, NEW b \in Backend, Assign(b),
           NEW gone, NEW new, RowsChange(b, gone, new),
           NEW xgone, NEW xnew, RelsChange(b, xgone, xnew), NEW g
    PROVE  /\ \A c \in Backend \ {b} : Touches(xid[c], g)' => Touches(xid[c], g)
           /\ (\A r \in gone \cup new : r.id # g) /\ (\A x \in xgone \cup xnew : x.graph # g) =>
                (Touches(xid[b], g)' => Touches(xid[b], g))
  <1>1. /\ \A r \in rows : IsGraphRow(r) /\ VersionOK(r)
        /\ \A x \in rels : IsRelation(x) /\ VersionOK(x)
        /\ \A r \in gone : r \in rows /\ IsGraphRow(r)
        /\ \A x \in xgone : x \in rels /\ IsRelation(x)
        /\ (\A r \in new : IsGraphRow(r)) /\ (\A x \in xnew : IsRelation(x))
    BY VersionFacts DEF RowsChange, RelsChange, LiveRows, LiveRels
  <1>2. /\ \A s : s \in rows' <=> \/ s \in rows \ gone
                                  \/ \E t \in gone : s = Stamped(b, t)
                                  \/ \E t \in new : s = Written(b, t)
        /\ \A s : s \in rels' <=> \/ s \in rels \ xgone
                                  \/ \E t \in xgone : s = Stamped(b, t)
                                  \/ \E t \in xnew : s = Written(b, t)
    BY DEF RowsChange, RelsChange, Rewritten
  <1>3. ASSUME NEW y, y # NoXid, Touches(y, g)'
        PROVE  \/ \E t \in {r \in rows : r.id = g} \cup Of(g) : y \in {t.xmin, t.xmax}
               \/ y = TopXid(b) /\ \/ \E r \in gone \cup new : r.id = g
                                   \/ \E x \in xgone \cup xnew : x.graph = g
    <2>1. PICK s : /\ (s \in rows' /\ s.id = g) \/ (s \in rels' /\ s.graph = g)
                   /\ y \in {s.xmin, s.xmax}
      BY <1>3 DEF Touches, Of
    <2>2. CASE s \in rows' /\ s.id = g
      <3>1. CASE s \in rows
        BY <2>1, <2>2, <3>1
      <3>2. ASSUME NEW t \in gone, s = Stamped(b, t) PROVE (t.id = g /\ t \in rows /\ y = t.xmin) \/ (y = TopXid(b) /\ t.id = g)
        BY <1>1, <2>1, <2>2, <3>2, RowVersions
      <3>3. ASSUME NEW t \in new, s = Written(b, t) PROVE y = TopXid(b) /\ t.id = g
        BY <1>1, <1>3, <2>1, <2>2, <3>3, RowVersions
      <3>4. QED  BY <1>2, <2>2, <3>1, <3>2, <3>3
    <2>3. CASE s \in rels' /\ s.graph = g
      <3>1. CASE s \in rels
        BY <2>1, <2>3, <3>1 DEF Of
      <3>2. ASSUME NEW t \in xgone, s = Stamped(b, t) PROVE (t \in Of(g) /\ y = t.xmin) \/ (y = TopXid(b) /\ t.graph = g)
        BY <1>1, <2>1, <2>3, <3>2, RelationVersions DEF Of
      <3>3. ASSUME NEW t \in xnew, s = Written(b, t) PROVE y = TopXid(b) /\ t.graph = g
        BY <1>1, <1>3, <2>1, <2>3, <3>3, RelationVersions
      <3>4. QED  BY <1>2, <2>3, <3>1, <3>2, <3>3
    <2>4. QED  BY <2>1, <2>2, <2>3
  <1>4. ASSUME NEW c \in Backend \ {b}, Touches(xid[c], g)' PROVE Touches(xid[c], g)
    <2>1. xid'[c] = xid[c] /\ xid[c] # TopXid(b) /\ xid[c] # NoXid
      BY <1>4, AssignFacts DEF Touches
    <2>2. Touches(xid[c], g)' => \E y : y = xid'[c] /\ Touches(y, g)'
      BY DEF Touches, Of
    <2>3. QED  BY <1>3, <1>4, <2>1, <2>2 DEF Touches
  <1>5. ASSUME \A r \in gone \cup new : r.id # g, \A x \in xgone \cup xnew : x.graph # g,
               Touches(xid[b], g)'
        PROVE  Touches(xid[b], g)
    <2>1. xid'[b] = TopXid(b) /\ TopXid(b) # NoXid
      BY AssignFacts
    <2>2. PICK t \in {r \in rows : r.id = g} \cup Of(g) : TopXid(b) \in {t.xmin, t.xmax}
      <3>1. Touches(xid[b], g)' => \E y : y = xid'[b] /\ Touches(y, g)'
        BY DEF Touches, Of
      <3>2. QED  BY <1>3, <1>5, <2>1, <3>1
    <2>3. TopXid(b) \in XidsOf(xact)
      BY <1>1, <2>2 DEF Of, VersionOK, XidsOf
    <2>4. TopXid(b) = xid[b]
      BY <2>3, AssignFacts
    <2>5. QED  BY <2>1, <2>2, <2>4 DEF Touches
  <1>6. QED  BY <1>4, <1>5

LEMMA GrowAfter ==
    ASSUME BaseInv, NEW b \in Backend, NEW gone, NEW new, RowsChange(b, gone, new), raced \subseteq raced'
    PROVE  CopiesGrow
  <1>1. \A r \in gone : r \in rows /\ IsGraphRow(r)
    BY VersionFacts DEF RowsChange, LiveRows
  <1>2. \A r \in rows : r \in rows' \/ (r \in gone /\ Stamped(b, r) \in rows')
    BY DEF RowsChange, Rewritten
  <1>3. \A r \in rows : \E s \in rows' : Copy(s) = Copy(r)
    BY <1>1, <1>2, RowVersions
  <1>4. QED  BY <1>3 DEF CopiesGrow

\* Work on graphs gs, of which one that nobody raced for is the only one.
LEMMA WorkGraph ==
    ASSUME GraphInv, CacheInv', NEW b \in Backend, NEW gs, Assign(b), Meets(b, gs),
           \A d \in Backend \ {b} : InCall(d) => StillReads(d),
           NEW gone, NEW new, RowsChange(b, gone, new), NoNewRivals(b, gone, new),
           NEW xgone, NEW xnew, RelsChange(b, xgone, xnew),
           IdsInOrder', call' = [call EXCEPT ![b] = NoCall],
           \A r \in gone \cup new : r.id \in gs, \A x \in xgone \cup xnew : x.graph \in gs,
           \A g \in (Nat \cap gs) \ raced' : \E R, D :
             R = RowsAfter(b, gone, new, g) /\ D = RelsAfter(b, xgone, xnew, g) /\ InPlace(g, R, D)'
    PROVE  GraphInv'
  <1>1. BaseInv /\ CallsOK
    BY DEF GraphInv, BaseInv
  <1>2. /\ raced \subseteq raced'
        /\ \A g \in gs \ raced' : \A c \in Backend \ {b} : ~Works(c, g)
    BY NobodyElse
  <1>3. ~InCall(b)' /\ \A c \in Backend \ {b} : call'[c] = call[c] /\ (InCall(c)' <=> InCall(c))
    BY <1>1 DEF BaseInv, CacheInv, NoCall, InCall
  <1>4. CopiesGrow
    BY <1>1, <1>2, GrowAfter
  <1>5. /\ gone \subseteq LiveRows(b) /\ (\A r \in new : IsGraphRow(r))
        /\ rows' = Rewritten(b, rows, gone, new)
        /\ xgone \subseteq LiveRels(b) /\ (\A x \in xnew : IsRelation(x))
        /\ rels' = Rewritten(b, rels, xgone, xnew)
        /\ \A r \in gone : r \in rows /\ MayWrite(b, r)
    BY DEF RowsChange, RelsChange, LiveRows
  <1>6. ASSUME NEW g \in Nat \ raced' PROVE GraphKept(g)'
    <2>1. GraphKept(g)
      BY <1>2 DEF GraphInv
    <2>2. /\ RowsStanding(g)' = RowsStanding(g)
          /\ \A c \in Backend \ {b} : RowsSeen(c, g)' = RowsSeen(c, g)
          /\ RowsSeen(b, g)' = RowsAfter(b, gone, new, g)
      <3>1. \A r \in gone : r.id = g => IsFree(r)
        BY <1>1, <1>5, WrittenIsFree
      <3>2. BaseInv /\ gone \subseteq LiveRows(b) /\ (\A r \in new : IsGraphRow(r)) /\ rows' = Rewritten(b, rows, gone, new)
        BY <1>1, <1>5
      <3>3. QED  BY <3>1, <3>2, RowsWork DEF RowsAfter
    <2>3. /\ RelsStanding(g)' = RelsStanding(g)
          /\ \A c \in Backend \ {b} : RelsSeen(c, g)' = RelsSeen(c, g)
          /\ RelsSeen(b, g)' = RelsAfter(b, xgone, xnew, g)
      <3>1. \A x \in xgone : x.graph = g => IsFree(x)
        BY <1>1, <1>2, <1>5, AloneIsFree
      <3>2. QED  BY <1>1, <1>5, <3>1, RelsWork DEF RelsAfter
    <2>4. Alone(g)'
      <3>1. \A c \in Backend \ {b} : Works(c, g)' => Works(c, g)
        BY <1>1, <1>3, WorkTouches DEF Works, InCall
      <3>2. g \notin gs => (Works(b, g)' => Works(b, g))
        BY <1>1, <1>3, WorkTouches DEF Works, InCall
      <3>3. g \in gs => \A c \in Backend \ {b} : ~Works(c, g)
        BY <1>2
      <3>4. QED  BY <2>1, <3>1, <3>2, <3>3 DEF GraphKept, Alone
    <2>5. OldView(RowsStanding(g)', RelsStanding(g)', g)
      BY <2>2, <2>3 DEF OldView
    <2>6. \A c \in Backend \ {b} : OldView(RowsSeen(c, g)', RelsSeen(c, g)', g)
      BY <2>2, <2>3 DEF OldView
    <2>7. \/ OldView(RowsSeen(b, g)', RelsSeen(b, g)', g)
          \/ InPlace(g, RowsSeen(b, g), RelsSeen(b, g))'
      <3>1. CASE g \notin gs
        <4>1. RowsSeen(b, g)' = RowsSeen(b, g) /\ RelsSeen(b, g)' = RelsSeen(b, g)
          BY <2>2, <2>3, <3>1, NoneGone
        <4>2. QED  BY <4>1 DEF OldView
      <3>2. CASE g \in gs
        <4>1. PICK R, D : /\ R = RowsAfter(b, gone, new, g) /\ D = RelsAfter(b, xgone, xnew, g)
                          /\ InPlace(g, R, D)'
          BY <3>2
        <4>2. R = RowsSeen(b, g)' /\ D = RelsSeen(b, g)'
          BY <2>2, <2>3, <4>1
        <4>3. QED  BY <4>1, <4>2 DEF InPlace, Placed, RightlyAsked
      <3>3. QED  BY <3>1, <3>2
    <2>8. ASSUME NEW c \in Backend, InCall(c)', call'[c].graph = g
          PROVE  /\ call'[c] = call[c]
                 /\ RowsSeen(c, g)' = RowsSeen(c, g) /\ RelsSeen(c, g)' = RelsSeen(c, g)
      BY <1>3, <2>2, <2>3, <2>8
    <2>9. QED  BY <1>4, <2>1, <2>4, <2>5, <2>6, <2>7, <2>8, KeptFromViews
  <1>7. CallsOK'
    <2>1. SUFFICES ASSUME NEW d \in Backend, InCall(d)' PROVE CallOK(call[d])'
      BY DEF CallsOK
    <2>2. d # b
      BY <1>3, <2>1
    <2>3. PICK c : c = call[d] /\ c = call'[d]
      BY <1>3, <2>2
    <2>4. InCall(d) /\ StillReads(d)
      BY <1>3, <2>1, <2>2
    <2>5. CallOK(c)'
      BY <1>1, <1>4, <2>3, <2>4, CallStaysOK
    <2>6. QED  BY <2>3, <2>5 DEF CallOK, IsCall
  <1>8. BaseInv'
    BY <1>1, <1>7, WorkBase
  <1>9. QED  BY <1>6, <1>8 DEF GraphInv
-----------------------------------------------------------------------------
(* The calls that write.                                                    *)

\* Whatever might stand beside a row under a name that is not in use, this
\* transaction has stamped.
LEMMA UnusedRivals ==
    ASSUME BaseInv, NEW b \in Backend, NEW name, NEW ns, Unused(b, name, ns),
           NEW q \in rows, q.name = name, q.ns = ns, ~Dead(q)
    PROVE  xid[b] # NoXid /\ q.xmax = xid[b]
  <1>1. /\ VersionOK(q) /\ (xid[b] # NoXid => xact[xid[b]] = "running") /\ xact \in Seq(XactStatus)
        /\ ~Live(b, q) /\ ~InProgress(xact, q.xmin)
    BY VersionFacts DEF BaseInv, CacheInv, Unused
  <1>2. q.xmin \in DOMAIN xact /\ q.xmin # NoXid /\ xact[q.xmin] \in XactStatus
    BY <1>1 DEF VersionOK, NoXid
  <1>3. xact[q.xmin] = "committed" /\ ~DidCommit(xact, q.xmax)
    BY <1>1, <1>2 DEF InProgress, Dead, DidAbort, XactStatus
  <1>4. QED  BY <1>1, <1>2, <1>3 DEF Live, TupleIsLive, IsOwn, DidCommit

\* The same of the rivals of a row it may replace.
LEMMA RowRivals ==
    ASSUME BaseInv, NEW b \in Backend, NEW r \in LiveRows(b), MayWrite(b, r),
           NEW q \in rows, q # r, Alike(q, r), ~Dead(q)
    PROVE  xid[b] # NoXid /\ q.xmax = xid[b]
  <1>1. /\ r \in rows /\ TupleIsLive(xact, xid[b], r) /\ VersionOK(r) /\ VersionOK(q)
        /\ (xid[b] # NoXid => xact[xid[b]] = "running") /\ IsFree(r)
    BY VersionFacts, WrittenIsFree DEF LiveRows, Live
  <1>2. ~Dead(r)
    BY <1>1 DEF VersionOK, Dead, TupleIsLive, IsOwn, DidCommit, DidAbort, IsFree
  <1>3. q.xmax = r.xmin \/ r.xmax = q.xmin
    BY <1>1, <1>2 DEF BaseInv, RivalsEnd
  <1>4. q.xmin # NoXid
    BY <1>1 DEF BaseInv, CacheInv, VersionOK, NoXid
  <1>5. q.xmax = r.xmin
    BY <1>1, <1>3, <1>4 DEF IsFree, Dead, DidAbort
  <1>6. QED  BY <1>1, <1>5 DEF TupleIsLive, IsOwn, Dead, DidCommit

LEMMA SameIds ==
    ASSUME IdsInOrder, NEW b \in Backend, NEW gone, NEW new, RowsChange(b, gone, new),
           \A r \in gone : r \in rows /\ IsGraphRow(r),
           \A s \in new : s.id \in Ids
    PROVE  Ids' = Ids
  <1>1. \A s : s \in rows' <=> \/ s \in rows \ gone
                               \/ \E t \in gone : s = Stamped(b, t)
                               \/ \E t \in new : s = Written(b, t)
    BY DEF RowsChange, Rewritten
  <1>2. \A s \in rows' : s.id \in Ids
    <2>1. ASSUME NEW s \in rows' PROVE s.id \in Ids
      <3>1. CASE s \in rows
        BY <3>1 DEF Ids
      <3>2. ASSUME NEW t \in gone, s = Stamped(b, t) PROVE s.id \in Ids
        BY <3>2, RowVersions DEF Ids
      <3>3. ASSUME NEW t \in new, s = Written(b, t) PROVE s.id \in Ids
        BY <3>3, RowVersions DEF RowsChange
      <3>4. QED  BY <1>1, <3>1, <3>2, <3>3
    <2>2. QED  BY <2>1
  <1>3. \A r \in rows : \E s \in rows' : s.id = r.id
    <2>1. ASSUME NEW r \in rows PROVE \E s \in rows' : s.id = r.id
      <3>1. CASE r \in gone
        BY <1>1, <3>1, RowVersions
      <3>2. CASE r \notin gone
        BY <1>1, <3>2
      <3>3. QED  BY <3>1, <3>2
    <2>2. QED  BY <2>1
  <1>4. Ids' = {r.id : r \in rows'} /\ Ids = {r.id : r \in rows}
    BY DEF Ids
  <1>5. QED  BY <1>2, <1>3, <1>4

LEMMA CreateGraphStep ==
    ASSUME GraphInv, CacheInv', NEW b \in Backend, NEW name \in Name, NEW ns \in Namespace,
           CreateGraph(b, name, ns)
    PROVE  GraphInv'
  <1>1. PICK g, r, X :
          /\ g = Cardinality(Ids) + 1 /\ X = GraphRelations(g, ns)
          /\ r = [id |-> g, name |-> name, ns |-> ns, xmin |-> NoXid, xmax |-> NoXid]
    OBVIOUS
  <1>2. /\ Unused(b, name, ns) /\ rows' = rows \cup {Written(b, r)}
        /\ rels' = rels \cup {Written(b, x) : x \in X}
        /\ Assign(b) /\ Meets(b, {g}) /\ call' = [call EXCEPT ![b] = NoCall]
        /\ UNCHANGED shown
    BY <1>1 DEF CreateGraph, Ends, Meets
  <1>3. PICK n \in Nat : Ids = 1 .. n /\ g = n + 1
    <2>1. PICK n \in Nat : Ids = 1 .. n
      BY DEF GraphInv, BaseInv, IdsInOrder
    <2>2. Cardinality(Ids) = n
      BY <2>1, FS_Interval
    <2>3. QED  BY <1>1, <2>1, <2>2
  <1>4. /\ IsGraphRow(r) /\ r.id = g /\ r.name = name /\ r.ns = ns
        /\ Copy(r) = [id |-> g, name |-> name, ns |-> ns]
    BY <1>1 DEF IsGraphRow, XidsOf, Copy
  <1>5. \A x \in X : /\ IsRelation(x) /\ x.graph = g /\ x.asked = g
                     /\ \/ x.kind \in {"own", "table"} /\ x.ns = ns
                        \/ x.kind \in {"catalog", "names", "sequence"} /\ x.ns = Own
    BY <1>1, NewGraphRelations
  <1>6. \A q \in rows : q.id # g
    BY <1>3 DEF Ids
  <1>7. PICK gone, new : gone = {} /\ new = {r}
    OBVIOUS
  <1>8. RowsChange(b, gone, new) /\ RelsChange(b, gone, X)
    <2>1. rows' = Rewritten(b, rows, gone, new) /\ rels' = Rewritten(b, rels, gone, X)
      BY <1>2, <1>7 DEF Rewritten
    <2>2. IsFiniteSet(new) /\ gone \subseteq LiveRows(b) /\ gone \subseteq LiveRels(b)
      BY <1>7, FS_Singleton
    <2>3. QED  BY <1>4, <1>5, <1>7, <2>1, <2>2 DEF RowsChange, RelsChange
  <1>9. NoNewRivals(b, gone, new)
    BY <1>2, <1>4, <1>6, <1>7, UnusedRivals DEF NoNewRivals, Alike, GraphInv
  <1>10. IdsInOrder'
    <2>1. Ids' = Ids \cup {g}
      BY <1>2, <1>4, RowVersions DEF Ids
    <2>2. Ids' = 1 .. (n + 1)
      BY <1>3, <2>1
    <2>3. \A x \in rels' : x.graph \in Ids'
      BY <1>2, <1>5, <2>1, RelationVersions DEF GraphInv, BaseInv, IdsInOrder
    <2>4. QED  BY <2>2, <2>3 DEF IdsInOrder
  <1>11. \E R, D : R = RowsAfter(b, gone, new, g) /\ D = RelsAfter(b, gone, X, g) /\ InPlace(g, R, D)'
    <2>1. RowsAfter(b, gone, new, g) = {Copy(r)}
      <3>1. {s \in LiveRows(b) : s.id = g /\ s \notin gone} \cup {s \in new : s.id = g} = {r}
        BY <1>4, <1>6, <1>7 DEF LiveRows
      <3>2. QED  BY <3>1 DEF RowsAfter
    <2>2. PICK k, D : k = Copy(r) /\ D = RelsAfter(b, gone, X, g)
      OBVIOUS
    <2>3. \A x \in rels : x.graph # g
      BY <1>3 DEF GraphInv, BaseInv, IdsInOrder
    <2>4. ASSUME NEW y \in D
          PROVE  /\ y.asked = g
                 /\ \/ y.kind \in {"own", "table"} /\ y.ns = k.ns
                    \/ y.kind \in {"catalog", "names", "sequence"} /\ y.ns = Own
      <3>1. PICK x \in X : y = Bare(x)
        BY <2>2, <2>3, <2>4 DEF RelsAfter, LiveRels
      <3>2. QED  BY <1>4, <1>5, <2>2, <3>1 DEF Bare
    <2>5. InPlace(g, {k}, D)
      BY <2>4, InPlaceOnlyOfOne
    <2>6. CopiesGrow
      BY <1>2, NobodyElse DEF CopiesGrow
    <2>7. QED  BY <2>1, <2>2, <2>5, <2>6, InPlaceStays
  <1>12. /\ \A t \in gone \cup new : t.id \in {g}
         /\ \A x \in gone \cup X : x.graph \in {g}
    BY <1>4, <1>5, <1>7
  <1>13. \A h \in (Nat \cap {g}) \ raced' : \E R, D :
            R = RowsAfter(b, gone, new, h) /\ D = RelsAfter(b, gone, X, h) /\ InPlace(h, R, D)'
    BY <1>11
  <1>14. \A d \in Backend \ {b} : InCall(d) => StillReads(d)
    BY <1>2 DEF StillReads
  <1>15. PICK gs : gs = {g} /\ Meets(b, gs)
    BY <1>2
  <1>16. QED  BY <1>2, <1>8, <1>9, <1>10, <1>12, <1>13, <1>14, <1>15, WorkGraph

\* A row is replaced by one of another name or namespace that is not in use.
LEMMA OneRewritten ==
    ASSUME NEW b \in Backend, NEW T, NEW r, NEW s
    PROVE  Rewritten(b, T, {r}, {s}) = (T \ {r}) \cup {Stamped(b, r), Written(b, s)}
  <1>1. {Stamped(b, t) : t \in {r}} = {Stamped(b, r)} /\ {Written(b, t) : t \in {s}} = {Written(b, s)}
    OBVIOUS
  <1>2. QED  BY <1>1, Zenon DEF Rewritten

LEMMA OneRowAfter ==
    ASSUME BaseInv, NEW b \in Backend, NEW r \in LiveRows(b), NEW s, s.id = r.id, NEW g, g = r.id,
           NEW gone, gone = {r}, NEW new, new = {s}
    PROVE  \A k : k \in RowsAfter(b, gone, new, g) <=> k = Copy(s)
  <1>1. {t \in LiveRows(b) : t.id = g /\ t \notin gone} \cup {t \in new : t.id = g} = {s}
    BY OneLiveRow DEF Alike
  <1>2. QED  BY <1>1 DEF RowsAfter

LEMMA ReplacedRow ==
    ASSUME BaseInv, NEW b \in Backend, NEW r \in LiveRows(b), MayWrite(b, r),
           NEW s, IsGraphRow(s), s.id = r.id,
           NEW name, NEW ns, s.name = name, s.ns = ns, Unused(b, name, ns),
           NEW gone, gone = {r}, NEW new, new = {s},
           rows' = Rewritten(b, rows, gone, new)
    PROVE  /\ RowsChange(b, gone, new) /\ NoNewRivals(b, gone, new)
           /\ Ids' = Ids
  <1>1. r \in rows /\ IsGraphRow(r)
    BY VersionFacts DEF LiveRows
  <1>2. RowsChange(b, gone, new)
    <2>1. IsFiniteSet(new)
      BY FS_Singleton
    <2>2. QED  BY <2>1 DEF RowsChange
  <1>3. NoNewRivals(b, gone, new)
    <2>1. ASSUME NEW q \in rows \ gone, Alike(q, s), ~Dead(q)
          PROVE  xid[b] # NoXid /\ q.xmax = xid[b]
      <3>1. CASE q.id = s.id
        BY <2>1, <3>1, RowRivals DEF Alike
      <3>2. CASE q.name = name /\ q.ns = ns
        BY <2>1, <3>2, UnusedRivals
      <3>3. QED  BY <2>1, <3>1, <3>2 DEF Alike
    <2>2. QED  BY <2>1 DEF NoNewRivals
  <1>4. Ids' = Ids
    <2>1. \A t \in new : t.id \in Ids
      BY <1>1 DEF Ids
    <2>2. QED  BY <1>1, <1>2, <2>1, SameIds DEF BaseInv
  <1>5. QED  BY <1>2, <1>3, <1>4

LEMMA OtherName ==
    ASSUME NEW r, IsGraphRow(r), NEW n, NEW s, s = [r EXCEPT !.name = n]
    PROVE  IsGraphRow(s) /\ s.id = r.id /\ s.name = n /\ s.ns = r.ns
  <1>1. s = [id |-> r.id, name |-> n, ns |-> r.ns, xmin |-> r.xmin, xmax |-> r.xmax]
    BY DEF IsGraphRow
  <1>2. QED  BY <1>1 DEF IsGraphRow

LEMMA OtherPlace ==
    ASSUME NEW r, IsGraphRow(r), NEW w, NEW s, s = [r EXCEPT !.ns = w]
    PROVE  IsGraphRow(s) /\ s.id = r.id /\ s.name = r.name /\ s.ns = w
  <1>1. s = [id |-> r.id, name |-> r.name, ns |-> w, xmin |-> r.xmin, xmax |-> r.xmax]
    BY DEF IsGraphRow
  <1>2. QED  BY <1>1 DEF IsGraphRow

LEMMA RenameGraphStep ==
    ASSUME GraphInv, CacheInv', NEW b \in Backend, NEW r \in LiveRows(b), NEW name \in Name,
           RenameGraph(b, r, name)
    PROVE  GraphInv'
  <1>1. /\ Unused(b, name, r.ns) /\ MayWrite(b, r) /\ rels' = rels
        /\ rows' = (rows \ {r}) \cup {Stamped(b, r), Written(b, [r EXCEPT !.name = name])}
        /\ Assign(b) /\ Meets(b, {r.id}) /\ call' = [call EXCEPT ![b] = NoCall]
        /\ \E s \in Slot : Enters(s, r) /\ Overwritten(b, s, r) \subseteq raced'
    BY DEF RenameGraph, Meets
  <1>2. PICK s : /\ s = [r EXCEPT !.name = name] /\ IsGraphRow(s)
                 /\ s.id = r.id /\ s.name = name /\ s.ns = r.ns
    <2>1. PICK s : s = [r EXCEPT !.name = name]
      OBVIOUS
    <2>2. IsGraphRow(r)
      BY VersionFacts DEF GraphInv, LiveRows
    <2>3. IsGraphRow(s) /\ s.id = r.id /\ s.name = name /\ s.ns = r.ns
      BY <2>1, <2>2, OtherName
    <2>4. QED  BY <2>1, <2>3
  <1>3. PICK gone, new, none, id, V : gone = {r} /\ new = {s} /\ none = {} /\ id = r.id
                                      /\ V = {Copy(s)}
    OBVIOUS
  <1>4. /\ RowsChange(b, gone, new) /\ NoNewRivals(b, gone, new)
        /\ Ids' = Ids /\ RowsAfter(b, gone, new, id) = V
    <2>1. PICK ns : /\ BaseInv /\ MayWrite(b, r) /\ IsGraphRow(s) /\ s.id = r.id
                    /\ s.name = name /\ s.ns = ns /\ Unused(b, name, ns)
      BY <1>1, <1>2 DEF GraphInv
    <2>2. rows' = Rewritten(b, rows, gone, new)
      BY <1>1, <1>2, <1>3, OneRewritten
    <2>3. RowsChange(b, gone, new) /\ NoNewRivals(b, gone, new) /\ Ids' = Ids
      BY <1>3, <2>1, <2>2, ReplacedRow
    <2>4. \A k : k \in RowsAfter(b, gone, new, id) <=> k = Copy(s)
      BY <1>3, <2>1, OneRowAfter
    <2>5. RowsAfter(b, gone, new, id) = V
      BY <1>3, <2>4 DEF RowsAfter
    <2>6. QED  BY <2>3, <2>5
  <1>5. RelsChange(b, none, none) /\ IdsInOrder'
    BY <1>1, <1>3, <1>4 DEF RelsChange, Rewritten, GraphInv, BaseInv, IdsInOrder
  <1>6. ASSUME NEW g \in (Nat \cap {r.id}) \ raced'
        PROVE  \E R, D : R = RowsAfter(b, gone, new, g) /\ D = RelsAfter(b, none, none, g) /\ InPlace(g, R, D)'
    <2>1. raced \subseteq raced'
      BY <1>1, NobodyElse
    <2>2. InPlace(g, RowsSeen(b, g), RelsSeen(b, g)) /\ RowsSeen(b, g) = {Copy(r)}
      BY <2>1, RowsSeenOf DEF GraphInv, GraphKept
    <2>3. PICK R, D : R = V /\ D = RelsSeen(b, g)
      OBVIOUS
    <2>4. D = RelsAfter(b, none, none, g)
      BY <1>3, <2>3, NoneGone
    <2>5. InPlace(g, R, D)
      <3>1. Copy(s).ns = Copy(r).ns
        BY <1>2 DEF Copy
      <3>2. QED  BY <1>3, <2>2, <2>3, <3>1 DEF InPlace, Placed
    <2>6. CopiesGrow
      <3>1. IsGraphRow(r)
        BY VersionFacts DEF GraphInv, LiveRows
      <3>2. Copy(Stamped(b, r)) = Copy(r)
        BY <3>1, RowVersions
      <3>3. QED  BY <1>1, <2>1, <3>2 DEF CopiesGrow
    <2>7. QED  BY <1>3, <1>4, <2>3, <2>4, <2>5, <2>6, InPlaceStays
  <1>7. /\ \A t \in gone \cup new : t.id \in {r.id}
        /\ \A x \in none \cup none : x.graph \in {r.id}
    BY <1>2, <1>3
  <1>8. \A d \in Backend \ {b} : InCall(d) => StillReads(d)
    BY <1>1, EntersRead DEF GraphInv, BaseInv
  <1>9. PICK gs : gs = {r.id} /\ Meets(b, gs)
    BY <1>1
  <1>10. QED  BY <1>1, <1>4, <1>5, <1>6, <1>7, <1>8, <1>9, WorkGraph

\* What is collected belongs to the graphs worked on.
LEMMA CollectedIsWorkedOn ==
    ASSUME NEW c, NEW x, Oid(x) \in c.oids PROVE x.graph \in WorkedOn(c)
  <1>1. Oid(x).graph = x.graph
    BY DEF Oid
  <1>2. QED  BY <1>1 DEF WorkedOn

LEMMA OtherNamespace ==
    ASSUME NEW x, IsRelation(x), NEW w, NEW y, y = [x EXCEPT !.ns = w]
    PROVE  /\ IsRelation(y) /\ y.graph = x.graph /\ y.kind = x.kind /\ y.ns = w
           /\ y.asked = x.asked /\ y.how = x.how
  <1>1. y = [kind |-> x.kind, graph |-> x.graph, label |-> x.label, ns |-> w,
             asked |-> x.asked, how |-> x.how, xmin |-> x.xmin, xmax |-> x.xmax]
    BY DEF IsRelation
  <1>2. QED  BY <1>1 DEF IsRelation

\* Relations E are those of D, with what was collected moved from where row r is.
Carried(D, E, r, to, oids) ==
    \A y \in E : \E x \in D :
        /\ y.kind = x.kind /\ y.asked = x.asked /\ y.how = x.how
        /\ \/ x.ns = r.ns /\ y.ns = to
           \/ (Oid(x) \notin oids \/ x.ns # r.ns) /\ y.ns = x.ns

\* What was not collected is not looked for where the graph is, and where the row
\* was in Own the new one is not.
LEMMA MovedInPlace ==
    ASSUME NEW g, NEW r, NEW R, R = {r}, NEW D, InPlace(g, R, D), CopiesGrow,
           NEW to, to # r.ns, r.ns = Own => Left(g)',
           NEW oids, Movable(D) \subseteq oids,
           NEW s, s.ns = to, NEW S, S = {s}, NEW E,
           Carried(D, E, r, to, oids)
    PROVE  InPlace(g, S, E)'
  <1>1. /\ (Differ(g) => Differ(g)') /\ (Left(g) => Left(g)')
        /\ (\A h : Differ(h) => Differ(h)') /\ raced \subseteq raced'
    BY ExceptionsStay DEF CopiesGrow
  <1>2. SUFFICES ASSUME NEW y \in E PROVE Placed(g, s, y)' /\ RightlyAsked(g, y.asked, y.how)'
    BY DEF InPlace, Placed, RightlyAsked
  <1>3. PICK x \in D :
          /\ y.kind = x.kind /\ y.asked = x.asked /\ y.how = x.how
          /\ \/ x.ns = r.ns /\ y.ns = to
             \/ (Oid(x) \notin oids \/ x.ns # r.ns) /\ y.ns = x.ns
    BY DEF Carried
  <1>4. Placed(g, r, x) /\ RightlyAsked(g, x.asked, x.how)
    BY DEF InPlace
  <1>5. RightlyAsked(g, y.asked, y.how)'
    BY <1>1, <1>3, <1>4 DEF RightlyAsked
  <1>6. ASSUME x.ns = r.ns, y.ns = to PROVE Placed(g, s, y)'
    BY <1>1, <1>3, <1>4, <1>6 DEF Placed
  <1>7. ASSUME x.ns # r.ns, y.ns = x.ns PROVE Placed(g, s, y)'
    BY <1>1, <1>3, <1>4, <1>7 DEF Placed
  <1>8. ASSUME Oid(x) \notin oids, y.ns = x.ns PROVE Placed(g, s, y)'
    <2>1. x.kind \notin {"own", "catalog", "table"} /\ x.ns # Own
      BY <1>8 DEF Movable
    <2>2. QED  BY <1>1, <1>3, <1>4, <1>8, <2>1 DEF Placed
  <1>9. QED  BY <1>3, <1>5, <1>6, <1>7, <1>8

LEMMA FinishAlterStep ==
    ASSUME GraphInv, CacheInv', NEW b \in Backend, FinishAlter(b) PROVE GraphInv'
  <1>1. PICK c, to : c = call[b] /\ to = c.to
    OBVIOUS
  <1>2. PICK moved : moved = {x \in LiveRels(b) : Oid(x) \in c.oids /\ x.ns = c.row.ns}
    OBVIOUS
  <1>3. /\ {x \in {y \in rels : Live(b, y) /\ Oid(y) \in call[b].oids} : Moves(x, call[b].row.ns)} = moved
        /\ c.op = "alter" /\ c.reads = 2 /\ UNCHANGED shown
    BY <1>1, <1>2 DEF LiveRels, Moves, FinishAlter
  <1>4. /\ \E r \in LiveRows(b) :
             /\ RowNow(b, r) /\ Unused(b, r.name, to)
             /\ rows' = (rows \ {r}) \cup {Stamped(b, r), Written(b, [r EXCEPT !.ns = to])}
             /\ Ends(b, {c.graph, r.id} \cup WorkedOn(c))
        /\ rels' = (rels \ moved) \cup {Stamped(b, x) : x \in moved}
                        \cup {Written(b, [x EXCEPT !.ns = to]) : x \in moved}
    BY <1>1, <1>3 DEF FinishAlter
  <1>5. PICK r \in LiveRows(b) :
          /\ MayWrite(b, r) /\ c.row.ns = r.ns /\ Unused(b, r.name, to)
          /\ rows' = (rows \ {r}) \cup {Stamped(b, r), Written(b, [r EXCEPT !.ns = to])}
          /\ Assign(b) /\ Meets(b, {c.graph, r.id} \cup WorkedOn(c)) /\ call' = [call EXCEPT ![b] = NoCall]
    BY <1>1, <1>4 DEF RowNow, Ends, Meets
  <1>6. BaseInv /\ IsGraphRow(r) /\ r \in rows /\ \A x \in LiveRels(b) : x \in rels /\ IsRelation(x)
    BY VersionFacts DEF GraphInv, LiveRows, LiveRels
  <1>7. PICK s : /\ s = [r EXCEPT !.ns = to] /\ IsGraphRow(s)
                 /\ s.id = r.id /\ s.name = r.name /\ s.ns = to
    <2>1. PICK s : s = [r EXCEPT !.ns = to]
      OBVIOUS
    <2>2. IsGraphRow(s) /\ s.id = r.id /\ s.name = r.name /\ s.ns = to
      BY <1>6, <2>1, OtherPlace
    <2>3. QED  BY <2>1, <2>2
  <1>8. PICK xnew : xnew = {[x EXCEPT !.ns = to] : x \in moved}
    OBVIOUS
  <1>9. PICK gone, new, id, name : gone = {r} /\ new = {s} /\ id = r.id /\ name = r.name
    OBVIOUS
  <1>10. RowsChange(b, gone, new) /\ NoNewRivals(b, gone, new) /\ Ids' = Ids
    <2>1. rows' = Rewritten(b, rows, gone, new)
      BY <1>5, <1>7, <1>9, OneRewritten
    <2>2. s.name = name /\ s.ns = to /\ Unused(b, name, to)
      BY <1>5, <1>7, <1>9
    <2>3. QED  BY <1>5, <1>6, <1>7, <1>9, <2>1, <2>2, ReplacedRow
  <1>11. RelsChange(b, moved, xnew)
    <2>1. \A y \in xnew : IsRelation(y)
      BY <1>2, <1>6, <1>8, OtherNamespace
    <2>2. {Written(b, [x EXCEPT !.ns = to]) : x \in moved} = {Written(b, t) : t \in xnew}
      BY <1>8
    <2>3. rels' = Rewritten(b, rels, moved, xnew)
      BY <1>4, <2>2 DEF Rewritten
    <2>4. QED  BY <1>2, <2>1, <2>3 DEF RelsChange
  <1>12. \A x \in moved \cup xnew : x.graph \in WorkedOn(c)
    <2>1. \A x \in moved : x.graph \in WorkedOn(c)
      BY <1>2, CollectedIsWorkedOn
    <2>2. QED  BY <1>2, <1>6, <1>8, <2>1, OtherNamespace
  <1>13. IdsInOrder'
    <2>1. \A x \in rels' : x.graph \in Ids
      <3>1. \A x \in rels : x.graph \in Ids
        BY <1>6 DEF BaseInv, IdsInOrder
      <3>2. \A x \in moved : Stamped(b, x).graph \in Ids
        BY <1>2, <1>6, <3>1, RelationVersions
      <3>3. \A y \in xnew : Written(b, y).graph \in Ids
        BY <1>2, <1>6, <1>8, <3>1, OtherNamespace, RelationVersions
      <3>4. QED  BY <1>11, <3>1, <3>2, <3>3 DEF RelsChange, Rewritten
    <2>2. QED  BY <1>6, <1>10, <2>1 DEF BaseInv, IdsInOrder
  <1>17. PICK gs : gs = {c.graph, id} \cup WorkedOn(c) /\ Meets(b, gs)
    BY <1>5, <1>9
  <1>14. ASSUME NEW g \in (Nat \cap gs) \ raced'
         PROVE  \E R, D : R = RowsAfter(b, gone, new, g) /\ D = RelsAfter(b, moved, xnew, g) /\ InPlace(g, R, D)'
    <2>1. r.id = g /\ c.graph = g
      <3>1. gs = {g}
        BY <1>17, NobodyElse
      <3>2. QED  BY <1>9, <1>17, <3>1
    <2>2. raced \subseteq raced'
      BY <1>17, NobodyElse
    <2>3. InPlace(g, RowsSeen(b, g), RelsSeen(b, g)) /\ RowsSeen(b, g) = {Copy(r)}
      BY <1>6, <2>1, <2>2, RowsSeenOf DEF GraphInv, GraphKept
    <2>4. Movable(RelsSeen(b, g)) \subseteq c.oids /\ to # c.row.ns
      BY <1>1, <1>3, <2>1, <2>2 DEF GraphInv, GraphKept, CallFits, InCall
    <2>5. PICK D, E, k, l : /\ D = RelsSeen(b, g) /\ E = RelsAfter(b, moved, xnew, g)
                            /\ k = Copy(r) /\ l = Copy(s)
      OBVIOUS
    <2>6. k.ns = r.ns /\ l.ns = to /\ to # r.ns
      BY <1>5, <1>7, <2>4, <2>5 DEF Copy
    <2>7. k.ns = Own => Left(g)'
      <3>1. /\ Stamped(b, r).id = r.id /\ Stamped(b, r).ns = r.ns
            /\ Written(b, s).id = r.id /\ Written(b, s).ns = to
        BY <1>6, <1>7, RowVersions
      <3>2. Stamped(b, r) \in rows' /\ Written(b, s) \in rows'
        BY <1>5, <1>7
      <3>3. QED  BY <2>1, <2>6, <3>1, <3>2 DEF Left
    <2>8. ASSUME NEW y \in E
          PROVE  \E x \in D :
                   /\ y.kind = x.kind /\ y.asked = x.asked /\ y.how = x.how
                   /\ \/ x.ns = k.ns /\ y.ns = to
                      \/ (Oid(x) \notin c.oids \/ x.ns # k.ns) /\ y.ns = x.ns
      <3>1. \A x \in LiveRels(b) : x.graph = g => Bare(x) \in D
        BY <2>5, SeenIsLive DEF LiveRels, LiveOf, Of
      <3>2. \A x : Oid(Bare(x)) = Oid(x) /\ Bare(x).kind = x.kind /\ Bare(x).ns = x.ns
                     /\ Bare(x).asked = x.asked /\ Bare(x).how = x.how
        BY DEF Oid, Bare
      <3>3. ASSUME NEW x \in LiveRels(b), x.graph = g, x \notin moved, y = Bare(x)
            PROVE  \E v \in D :
                   /\ y.kind = v.kind /\ y.asked = v.asked /\ y.how = v.how
                   /\ \/ v.ns = k.ns /\ y.ns = to
                      \/ (Oid(v) \notin c.oids \/ v.ns # k.ns) /\ y.ns = v.ns
        BY <1>2, <1>5, <2>6, <3>1, <3>2, <3>3
      <3>4. ASSUME NEW x \in moved, NEW z, z = [x EXCEPT !.ns = to], y = Bare(z)
            PROVE  \E v \in D :
                   /\ y.kind = v.kind /\ y.asked = v.asked /\ y.how = v.how
                   /\ \/ v.ns = k.ns /\ y.ns = to
                      \/ (Oid(v) \notin c.oids \/ v.ns # k.ns) /\ y.ns = v.ns
        <4>1. /\ z.kind = x.kind /\ z.ns = to /\ z.asked = x.asked /\ z.how = x.how
              /\ x \in LiveRels(b) /\ x.graph = g /\ x.ns = k.ns
          <5>1. gs = {g} /\ WorkedOn(c) \subseteq gs
            BY <1>17, NobodyElse
          <5>2. QED  BY <1>2, <1>5, <1>6, <1>12, <2>6, <3>4, <5>1, OtherNamespace
        <4>2. QED  BY <3>1, <3>2, <3>4, <4>1
      <3>5. QED  BY <1>8, <2>5, <3>3, <3>4 DEF RelsAfter
    <2>9. CopiesGrow
      BY <1>6, <1>10, <2>2, GrowAfter
    <2>10. PICK R, V, oids : R = {k} /\ V = {l} /\ oids = c.oids /\ InPlace(g, R, D)
      BY <2>3, <2>5
    <2>11. InPlace(g, V, E)'
      <3>1. Movable(D) \subseteq oids /\ l.ns = to /\ to # k.ns
        BY <2>4, <2>5, <2>6, <2>10
      <3>2. Carried(D, E, k, to, oids)
        BY <2>8, <2>10 DEF Carried
      <3>3. QED  BY <2>7, <2>9, <2>10, <3>1, <3>2, MovedInPlace
    <2>12. RowsAfter(b, gone, new, g) = V
      <3>1. \A q : q \in RowsAfter(b, gone, new, g) <=> q = Copy(s)
        <4>1. BaseInv /\ s.id = r.id /\ g = r.id /\ gone = {r} /\ new = {s}
          BY <1>6, <1>7, <1>9, <2>1
        <4>2. QED  BY <4>1, OneRowAfter
      <3>2. QED  BY <2>5, <2>10, <3>1 DEF RowsAfter
    <2>13. QED  BY <2>5, <2>11, <2>12
  <1>15. \A t \in gone \cup new : t.id \in gs
    BY <1>7, <1>9, <1>17
  <1>16. \A x \in moved \cup xnew : x.graph \in gs
    BY <1>12, <1>17
  <1>18. \A d \in Backend \ {b} : InCall(d) => StillReads(d)
    BY <1>3 DEF StillReads
  <1>19. QED  BY <1>5, <1>10, <1>11, <1>13, <1>14, <1>15, <1>16, <1>17, <1>18, WorkGraph

\* What is dropped with a graph is all there is, but for what it left outside Own.
LEMMA DroppedInPlace ==
    ASSUME NEW g, NEW r, NEW R, R = {r}, NEW D, InPlace(g, R, D), CopiesGrow,
           NEW oids, Movable(D) \subseteq oids,
           NEW S, S = {}, NEW E, E \subseteq D, \A x \in E : Oid(x) \notin oids
    PROVE  InPlace(g, S, E)'
  <1>1. (Left(g) => Left(g)') /\ (\A h : Differ(h) => Differ(h)') /\ raced \subseteq raced'
    BY ExceptionsStay DEF CopiesGrow
  <1>2. \A x \in E : RightlyAsked(g, x.asked, x.how)'
    BY <1>1 DEF InPlace, RightlyAsked
  <1>3. \A x \in E : Left(g)'
    <2>1. SUFFICES ASSUME NEW x \in E PROVE Left(g)'
      OBVIOUS
    <2>2. x.kind \notin {"own", "catalog", "table"} /\ x.ns # Own /\ x \in D
      BY DEF Movable
    <2>3. Left(g)
      BY <2>2 DEF InPlace, Placed
    <2>4. QED  BY <1>1, <2>3
  <1>4. E = {} \/ Left(g)'
    BY <1>3
  <1>5. QED  BY <1>2, <1>4 DEF InPlace, RightlyAsked

LEMMA FinishDropStep ==
    ASSUME GraphInv, CacheInv', NEW b \in Backend, FinishDrop(b) PROVE GraphInv'
  <1>1. PICK c, dropped : c = call[b] /\ dropped = {y \in LiveRels(b) : Oid(y) \in c.oids}
    OBVIOUS
  <1>2. /\ {y \in rels : Live(b, y) /\ Oid(y) \in call[b].oids} = dropped /\ c.op = "drop"
        /\ c.reads = 2 /\ UNCHANGED shown
    BY <1>1 DEF LiveRels, FinishDrop
  <1>3. /\ \E r \in LiveRows(b) :
             /\ RowNow(b, r) /\ rows' = (rows \ {r}) \cup {Stamped(b, r)} 
             /\ Ends(b, {c.graph, r.id} \cup WorkedOn(c))
        /\ rels' = (rels \ dropped) \cup {Stamped(b, x) : x \in dropped}
    BY <1>1, <1>2 DEF FinishDrop
  <1>4. PICK r \in LiveRows(b) :
          /\ MayWrite(b, r) /\ rows' = (rows \ {r}) \cup {Stamped(b, r)}
          /\ Assign(b) /\ Meets(b, {c.graph, r.id} \cup WorkedOn(c)) /\ call' = [call EXCEPT ![b] = NoCall]
    BY <1>3 DEF RowNow, Ends, Meets
  <1>5. BaseInv /\ IsGraphRow(r) /\ r \in rows /\ \A x \in LiveRels(b) : x \in rels /\ IsRelation(x)
    BY VersionFacts DEF GraphInv, LiveRows, LiveRels
  <1>6. PICK gone, none, gs : gone = {r} /\ none = {} /\ gs = {c.graph, r.id} \cup WorkedOn(c) /\ Meets(b, gs)
    BY <1>4
  <1>7. RowsChange(b, gone, none) /\ NoNewRivals(b, gone, none)
    <2>1. rows' = Rewritten(b, rows, gone, none)
      <3>1. {Stamped(b, t) : t \in gone} = {Stamped(b, r)} /\ {Written(b, t) : t \in none} = {}
        BY <1>6
      <3>2. (rows \ gone) \cup {Stamped(b, r)} \cup {} = (rows \ {r}) \cup {Stamped(b, r)}
        BY <1>6
      <3>3. Rewritten(b, rows, gone, none) = (rows \ gone) \cup {Stamped(b, r)} \cup {}
        BY <3>1, Zenon DEF Rewritten
      <3>4. QED  BY <1>4, <3>2, <3>3
    <2>2. IsFiniteSet(none)
      BY <1>6, FS_EmptySet
    <2>3. QED  BY <1>4, <1>6, <2>1, <2>2 DEF RowsChange, NoNewRivals
  <1>8. RelsChange(b, dropped, none)
    <2>1. {Written(b, t) : t \in none} = {}
      BY <1>6
    <2>2. rels' = Rewritten(b, rels, dropped, none)
      BY <1>3, <2>1 DEF Rewritten
    <2>3. QED  BY <1>1, <1>6, <2>2 DEF RelsChange
  <1>9. \A x \in dropped \cup none : x.graph \in gs
    BY <1>1, <1>6, CollectedIsWorkedOn
  <1>10. IdsInOrder'
    <2>1. Ids' = Ids
      BY <1>5, <1>6, <1>7, SameIds DEF BaseInv
    <2>2. \A x \in rels : x.graph \in Ids
      BY <1>5 DEF BaseInv, IdsInOrder
    <2>3. \A x \in dropped : Stamped(b, x).graph \in Ids
      BY <1>1, <1>5, <2>2, RelationVersions
    <2>4. \A x \in rels' : x.graph \in Ids
      BY <1>3, <2>2, <2>3
    <2>5. QED  BY <1>5, <2>1, <2>4 DEF BaseInv, IdsInOrder
  <1>11. ASSUME NEW g \in (Nat \cap gs) \ raced'
         PROVE  \E R, D : R = RowsAfter(b, gone, none, g) /\ D = RelsAfter(b, dropped, none, g) /\ InPlace(g, R, D)'
    <2>1. r.id = g /\ c.graph = g
      <3>1. gs = {g}
        BY <1>6, NobodyElse
      <3>2. QED  BY <1>6, <3>1
    <2>2. raced \subseteq raced'
      BY <1>6, NobodyElse
    <2>3. InPlace(g, RowsSeen(b, g), RelsSeen(b, g)) /\ RowsSeen(b, g) = {Copy(r)}
      BY <1>5, <2>1, <2>2, RowsSeenOf DEF GraphInv, GraphKept
    <2>4. Movable(RelsSeen(b, g)) \subseteq c.oids
      BY <1>1, <1>2, <2>1, <2>2 DEF GraphInv, GraphKept, CallFits, InCall
    <2>5. PICK D, E, k, R, S, oids :
            /\ D = RelsSeen(b, g) /\ E = RelsAfter(b, dropped, none, g)
            /\ k = Copy(r) /\ R = {k} /\ S = {} /\ oids = c.oids /\ InPlace(g, R, D)
      BY <2>3
    <2>6. E \subseteq D /\ \A y \in E : Oid(y) \notin oids
      <3>1. \A x \in LiveRels(b) : x.graph = g => Bare(x) \in D
        BY <2>5, SeenIsLive DEF LiveRels, LiveOf, Of
      <3>2. \A x : Oid(Bare(x)) = Oid(x)
        BY DEF Oid, Bare
      <3>3. \A y \in E : \E x \in LiveRels(b) : x.graph = g /\ x \notin dropped /\ y = Bare(x)
        BY <1>6, <2>5 DEF RelsAfter
      <3>4. QED  BY <1>1, <2>5, <3>1, <3>2, <3>3
    <2>7. CopiesGrow
      BY <1>5, <1>7, <2>2, GrowAfter
    <2>8. Movable(D) \subseteq oids
      BY <2>4, <2>5
    <2>9. InPlace(g, S, E)'
      BY <2>5, <2>6, <2>7, <2>8, DroppedInPlace
    <2>10. RowsAfter(b, gone, none, g) = S
      <3>1. {s \in LiveRows(b) : s.id = g /\ s \notin gone} \cup {s \in none : s.id = g} = {}
        BY <1>5, <1>6, <2>1, OneLiveRow DEF Alike
      <3>2. QED  BY <2>5, <3>1 DEF RowsAfter
    <2>11. QED  BY <2>5, <2>9, <2>10
  <1>12. /\ \A t \in gone \cup none : t.id \in gs
         /\ \A x \in dropped \cup none : x.graph \in gs
    BY <1>6, <1>9
  <1>13. \A d \in Backend \ {b} : InCall(d) => StillReads(d)
    BY <1>2 DEF StillReads
  <1>14. QED  BY <1>4, <1>6, <1>7, <1>8, <1>10, <1>11, <1>12, <1>13, WorkGraph

\* A label's relations are made in the graph its call has found, where the entry
\* shows it, unless that one is raced for.
LEMMA FinishLabelWork ==
    ASSUME GraphInv, CacheInv', NEW b \in Backend, FinishLabel(b) PROVE GraphInv'
  <1>1. PICK c, g : c = call[b] /\ g = IF c.op = "reduced" THEN c.graph ELSE Shown(b).id
    OBVIOUS
  <1>2. PICK h, to : /\ h = IF c.op = "elabel" THEN c.first ELSE g
                     /\ to = IF c.how = "copy" THEN Shown(b).ns ELSE c.to
    OBVIOUS
  <1>3. PICK X, label :
          /\ label = Cardinality({x.label : x \in Of(g) \cup Of(h)})
          /\ X = {x \in LabelRelations(h, label, to, c.asked, c.how) : x.kind = "table"}
                    \cup {x \in LabelRelations(g, label, to, c.asked, c.how) : x.kind = "sequence"}
    OBVIOUS
  <1>4. /\ c.op \in {"vlabel", "elabel", "reduced"} /\ NumbersAt(b, g) /\ NumbersAt(b, h)
        /\ rels' = rels \cup {Written(b, x) : x \in X}
        /\ Ends(b, {g, h}) /\ UNCHANGED <<rows, shown>>
    BY <1>1, <1>2, <1>3 DEF FinishLabel
  <1>5. PICK none, gs : none = {} /\ gs = {g, h} /\ Meets(b, gs)
    BY <1>4 DEF Ends, Meets
  <1>6. \A x \in X : /\ IsRelation(x) /\ x.graph \in gs /\ x.asked = c.asked /\ x.how = c.how
                     /\ (x.kind = "table" /\ x.ns = to) \/ (x.kind = "sequence" /\ x.ns = Own)
    BY <1>3, <1>5, NewLabelRelations
  <1>7. RowsChange(b, none, none) /\ NoNewRivals(b, none, none) /\ RelsChange(b, none, X)
    <2>1. rows' = Rewritten(b, rows, none, none) /\ rels' = Rewritten(b, rels, none, X)
      BY <1>4, <1>5 DEF Rewritten
    <2>2. IsFiniteSet(none)
      BY <1>5, FS_EmptySet
    <2>3. QED  BY <1>5, <1>6, <2>1, <2>2 DEF RowsChange, RelsChange, NoNewRivals
  <1>8. IdsInOrder'
    <2>1. \A x \in rels : x.graph \in Ids
      BY DEF GraphInv, BaseInv, IdsInOrder
    <2>2. gs \subseteq Ids
      BY <1>4, <1>5, <2>1 DEF NumbersAt, LiveOf, Of
    <2>3. \A x \in X : Written(b, x).graph \in Ids
      BY <1>6, <2>2, RelationVersions
    <2>4. Ids' = Ids /\ \A x \in rels' : x.graph \in Ids
      BY <1>4, <2>1, <2>3 DEF Ids
    <2>5. QED  BY <2>4 DEF GraphInv, BaseInv, IdsInOrder
  <1>9. ASSUME NEW n \in (Nat \cap gs) \ raced'
        PROVE  \E R, D : R = RowsAfter(b, none, none, n) /\ D = RelsAfter(b, none, X, n) /\ InPlace(n, R, D)'
    <2>1. g = n /\ h = n /\ raced \subseteq raced'
      BY <1>5, NobodyElse
    <2>2. c.graph = n /\ InCall(b)
      <3>1. CallOK(c) /\ InCall(b)
        BY <1>1, <1>4 DEF GraphInv, BaseInv, CallsOK, InCall
      <3>2. ASSUME c.op # "reduced" PROVE c.graph = n
        <4>1. Shown(b) = c.row
          BY <1>1, <1>9, <2>1, <3>1, <3>2 DEF CallOK, Shown
        <4>2. c.row.id = c.graph
          BY <3>1 DEF CallOK, Copy
        <4>3. QED  BY <1>1, <2>1, <3>2, <4>1, <4>2
      <3>3. QED  BY <1>1, <2>1, <3>1, <3>2
    <2>3. PICK t \in rows : Copy(t) = Shown(b) /\ t.id = n
      BY <1>1, <1>9, <2>1, <2>2, ShownIsFound
    <2>4. PICK R, D, E : /\ R = RowsSeen(b, n) /\ D = RelsSeen(b, n) /\ E = RelsAfter(b, none, X, n)
      OBVIOUS
    <2>5. InPlace(n, R, D) /\ CallFits(c, R, D)
      BY <1>1, <1>9, <2>1, <2>2, <2>4 DEF GraphInv, GraphKept
    <2>6. R = RowsAfter(b, none, none, n)
      BY <1>5, <2>4, NoneGone
    <2>7. \A x \in LiveRels(b) : x.graph = n => Bare(x) \in D
      BY <2>4, SeenIsLive DEF LiveRels, LiveOf, Of
    <2>8. ASSUME NEW y \in E
          PROVE  \/ y \in D
                 \/ /\ y.asked = c.asked /\ y.how = c.how
                    /\ (y.kind = "table" /\ y.ns = to) \/ (y.kind = "sequence" /\ y.ns = Own)
      <3>1. CASE \E x \in LiveRels(b) : x.graph = n /\ y = Bare(x)
        BY <2>7, <3>1
      <3>2. CASE \E x \in X : y = Bare(x)
        BY <1>6, <3>2 DEF Bare
      <3>3. QED  BY <2>4, <3>1, <3>2 DEF RelsAfter
    <2>9. D # {}
      BY <1>4, <2>1, <2>4, SeenIsLive DEF NumbersAt
    <2>10. \A r \in R : to = r.ns \/ c.how = "fixed" \/ (c.how = "copy" /\ Differ(n))
      <3>1. SUFFICES ASSUME NEW r \in R, c.how = "copy", to # r.ns PROVE Differ(n)
        BY <1>2, <1>4, <2>5 DEF CallFits
      <3>2. PICK s \in rows : r = Copy(s) /\ s.id = n
        BY <2>4 DEF RowsSeen, RowsFor
      <3>3. Copy(t) # Copy(s)
        BY <1>2, <2>3, <3>1, <3>2
      <3>4. QED  BY <2>3, <3>2, <3>3 DEF Differ
    <2>11. InPlace(n, R, E)
      <3>1. R = {} => Left(n)
        BY <2>5, <2>9 DEF InPlace
      <3>2. \A r \in R, y \in E : Placed(n, r, y)
        BY <2>5, <2>8, <2>10 DEF InPlace, Placed
      <3>3. \A y \in E : RightlyAsked(n, y.asked, y.how)
        BY <1>4, <2>2, <2>5, <2>8 DEF InPlace, CallFits, RightlyAsked
      <3>4. QED  BY <3>1, <3>2, <3>3 DEF InPlace
    <2>12. CopiesGrow
      BY <1>4, <2>1, SameRowsGrow
    <2>13. QED  BY <2>4, <2>6, <2>11, <2>12, InPlaceStays
  <1>10. /\ \A t \in none \cup none : t.id \in gs
         /\ \A x \in none \cup X : x.graph \in gs
    BY <1>5, <1>6
  <1>11. \A d \in Backend \ {b} : InCall(d) => StillReads(d)
    BY <1>4 DEF StillReads
  <1>12. Assign(b) /\ call' = [call EXCEPT ![b] = NoCall]
    BY <1>4 DEF Ends
  <1>13. QED  BY <1>5, <1>7, <1>8, <1>9, <1>10, <1>11, <1>12, WorkGraph

LEMMA GraphNext == GraphInv /\ [Next]_vars => GraphInv'
  <1> SUFFICES ASSUME GraphInv, [Next]_vars PROVE GraphInv'
    OBVIOUS
  <1>1. CacheInv' /\ BaseInv /\ CallsOK /\ call = [b \in Backend |-> call[b]]
    BY CacheNext DEF GraphInv, BaseInv, CacheInv
  <1>2. CASE UNCHANGED vars
    <2>1. \A b \in Backend : InCall(b)' => call'[b] = call[b] /\ StillReads(b)
      BY <1>2 DEF vars, StillReads
    <2>2. QED  BY <1>1, <1>2, <2>1, QuietStep DEF vars
  <1>3. CASE Invalidate
    <2>1. UNCHANGED <<xact, xid, rows, rels, raced, call>> /\ shown' = Remains(Flushed(used))
      BY <1>3 DEF Invalidate
    <2>2. \A b \in Backend : InCall(b)' => InCall(b) /\ call'[b] = call[b]
      BY <2>1 DEF InCall
    <2>3. \A b \in Backend : InCall(b)' => call'[b] = call[b] /\ StillReads(b)
      BY <1>1, <2>1, <2>2, RemainsRead
    <2>4. QED  BY <1>1, <2>1, <2>3, QuietStep
  <1>4. ASSUME NEW b \in Backend, Fail(b) PROVE GraphInv'
    <2>1. UNCHANGED <<xact, xid, rows, rels, raced, shown>> /\ call' = [call EXCEPT ![b] = Flushing]
      BY <1>4 DEF Fail
    <2>2. \A c \in Backend : InCall(c)' => call'[c] = call[c] /\ StillReads(c)
      BY <1>1, <2>1 DEF InCall, Flushing, StillReads
    <2>3. QED  BY <1>1, <2>1, <2>2, QuietStep
  <1>5. ASSUME NEW b \in Backend, Flush(b) PROVE GraphInv'
    <2>1. /\ UNCHANGED <<xact, xid, rows, rels, raced>> /\ call' = [call EXCEPT ![b] = NoCall]
          /\ shown' = Remains(AfterAbort(used))
      BY <1>5 DEF Flush
    <2>2. \A c \in Backend : InCall(c)' => InCall(c) /\ call'[c] = call[c]
      BY <1>1, <2>1 DEF InCall, NoCall
    <2>3. \A c \in Backend : InCall(c)' => call'[c] = call[c] /\ StillReads(c)
      BY <1>1, <2>1, <2>2, RemainsRead
    <2>4. QED  BY <1>1, <2>1, <2>3, QuietStep
  <1>6. ASSUME NEW b \in Backend, Commit(b) \/ Abort(b) PROVE GraphInv'
    BY <1>1, <1>6, EndGraph
  <1>7. ASSUME NEW b \in Backend, FinishAlter(b) \/ FinishDrop(b) \/ FinishLabel(b) PROVE GraphInv'
    BY <1>1, <1>7, FinishAlterStep, FinishDropStep, FinishLabelWork
  <1>8. ASSUME NEW b \in Backend, NEW name \in Name, NEW ns \in Namespace, CreateGraph(b, name, ns)
        PROVE  GraphInv'
    BY <1>1, <1>8, CreateGraphStep
  <1>9. ASSUME NEW b \in Backend, NEW r \in LiveRows(b), NEW name \in Name, RenameGraph(b, r, name)
        PROVE  GraphInv'
    BY <1>1, <1>9, RenameGraphStep
  <1>10. ASSUME NEW b \in Backend, Collect(b) \/ FirstRead(b) PROVE GraphInv'
    BY <1>1, <1>10, CollectStep, FirstReadStep
  <1>11. ASSUME NEW b \in Backend, NEW r \in LiveRows(b),
                \/ StartDrop(b, r) \/ StartLabel(b, r)
                \/ \E to \in Namespace : StartAlter(b, r, to)
         PROVE  GraphInv'
    BY <1>1, <1>11, StartByName
  <1>12. ASSUME NEW b \in Backend, NEW r \in LiveRows(b),
                StartSetLabel(b, r) \/ StartEdgeLabel(b, r) \/ StartReducedLabel(b, r)
         PROVE  GraphInv'
    BY <1>1, <1>12, StartById
  <1>13. ASSUME NEW b \in Backend, NEW r \in LiveRows(b), NEW path \in Namespace, NameLabel(b, r, path)
         PROVE  GraphInv'
    BY <1>1, <1>13, NameLabelFits
  <1>14. QED
    <2>1. CASE Next
      BY <1>3, <1>4, <1>5, <1>6, <1>7, <1>8, <1>9, <1>10, <1>11, <1>12, <1>13, <2>1 DEF Next
    <2>2. QED  BY <1>2, <2>1

\* Two copies of rows are more than one.
LEMMA DifferIsChanged ==
    ASSUME IsFiniteSet(rows), NEW g, Differ(g) PROVE Changed(g)
  <1>1. PICK r, s : /\ r \in rows /\ s \in rows /\ r.id = g /\ s.id = g /\ Copy(r) # Copy(s)
    BY DEF Differ
  <1>2. PICK T, f, S : /\ T = {t \in rows : t.id = g} /\ f = [t \in T |-> Copy(t)]
                       /\ S = {Copy(t) : t \in T}
    OBVIOUS
  <1>3. IsFiniteSet(S)
    <2>1. IsFiniteSet(T) /\ DOMAIN f = T /\ f = [t \in T |-> f[t]]
      BY <1>2, FS_Subset
    <2>2. S = {f[t] : t \in T}
      BY <1>2
    <2>3. QED  BY <2>1, <2>2, ImageIsFinite
  <1>4. PICK p, q, P : p = Copy(r) /\ q = Copy(s) /\ P = {p} /\ q \notin P
    <2>1. PICK p, q : p = Copy(r) /\ q = Copy(s)
      OBVIOUS
    <2>2. p # q
      BY <1>1, <2>1
    <2>3. PICK P : P = {p}
      OBVIOUS
    <2>4. q \notin P
      BY <2>2, <2>3
    <2>5. QED  BY <2>1, <2>3, <2>4
  <1>5. Cardinality(P \cup {q}) = 2
    <2>1. IsFiniteSet(P) /\ Cardinality(P) = 1
      BY <1>4, FS_Singleton
    <2>2. QED  BY <1>4, <2>1, FS_AddElement
  <1>6. P \cup {q} \subseteq S
    BY <1>1, <1>2, <1>4
  <1>7. Cardinality(P \cup {q}) <= Cardinality(S) /\ Cardinality(S) \in Nat
    BY <1>3, <1>6, FS_Subset, FS_CardinalityType
  <1>8. Cardinality(S) > 1
    BY <1>5, <1>7
  <1>9. QED  BY <1>2, <1>8 DEF Changed

\* What stands is what a backend without a transaction sees.
LEMMA StandingIsStands ==
    ASSUME NEW g
    PROVE  /\ RowsStanding(g) = {Copy(r) : r \in Row(g)}
           /\ RelsStanding(g) = {Bare(x) : x \in Relations(g)}
  <1>1. \A t : TupleIsLive(xact, NoXid, t) <=> Stands(t)
    BY DEF TupleIsLive, IsOwn, Stands
  <1>2. {s \in rows : s.id = g /\ TupleIsLive(xact, NoXid, s)} = Row(g)
    BY <1>1 DEF Row
  <1>3. {y \in rels : y.graph = g /\ TupleIsLive(xact, NoXid, y)} = Relations(g)
    BY <1>1 DEF Relations, Of
  <1>4. QED  BY <1>2, <1>3 DEF RowsStanding, RelsStanding, RowsFor, RelsFor

LEMMA GraphsStand == GraphInv => RelationsFollowGraph
  <1> SUFFICES ASSUME GraphInv, NEW g \in Ids \ raced PROVE StandWithGraph(g) /\ MadeWhereAsked(g)
    BY DEF RelationsFollowGraph
  <1>1. g \in Nat \ raced
    BY DEF GraphInv, BaseInv, IdsInOrder
  <1>2. InPlace(g, RowsStanding(g), RelsStanding(g)) /\ IsFiniteSet(rows)
    BY <1>1 DEF GraphInv, BaseInv, GraphKept
  <1>3. \A h : Differ(h) => Changed(h)
    BY <1>2, DifferIsChanged
  <1>4. Left(g) => LeftOwn(g)
    BY DEF Left, LeftOwn
  <1>5. \A x : /\ Bare(x).kind = x.kind /\ Bare(x).ns = x.ns
               /\ Bare(x).asked = x.asked /\ Bare(x).how = x.how
    BY DEF Bare
  <1>6. \A r : Copy(r).ns = r.ns
    BY DEF Copy
  <1>7. Row(g) = {} => Relations(g) = {} \/ LeftOwn(g)
    BY <1>2, <1>4, StandingIsStands DEF InPlace
  <1>8. ASSUME NEW r \in Row(g), NEW x \in Relations(g)
        PROVE  CASE x.kind = "own" -> x.ns = r.ns
                 [] x.kind = "table" -> x.ns = r.ns \/ x.how = "fixed" \/ (x.how = "copy" /\ Changed(g))
                 [] OTHER -> x.ns = Own \/ LeftOwn(g)
    <2>1. Placed(g, Copy(r), Bare(x))
      BY <1>2, StandingIsStands DEF InPlace
    <2>2. /\ x.kind = "own" => x.ns = r.ns
          /\ x.kind = "table" => x.ns = r.ns \/ x.how = "fixed" \/ (x.how = "copy" /\ Changed(g))
          /\ x.kind \notin {"own", "table"} => x.ns = Own \/ LeftOwn(g)
      BY <1>3, <1>4, <1>5, <1>6, <2>1 DEF Placed
    <2>3. QED  BY <2>2
  <1>9. ASSUME NEW x \in Relations(g)
        PROVE  \/ x.asked = g \/ x.asked \in raced
               \/ (x.how = "name" /\ Changed(x.asked)) \/ x.how = "path"
    <2>1. Bare(x) \in RelsStanding(g)
      BY StandingIsStands
    <2>2. RightlyAsked(g, Bare(x).asked, Bare(x).how)
      BY <1>2, <2>1 DEF InPlace
    <2>3. QED  BY <1>3, <1>5, <2>2 DEF RightlyAsked
  <1>10. QED  BY <1>7, <1>8, <1>9 DEF StandWithGraph, MadeWhereAsked

\* np_graph.c:345, :534, label_commands.c:410: of a graph that no two transactions
\* work on at once and whose entry no lookup overwrites while a call reads it, the
\* relations stand where they are looked for, those of a dropped graph are gone and
\* labels are made in the graph they are asked for, but for the named exceptions,
\* however calls, commits and rollbacks follow each other.
THEOREM RelationsFollowGraphHolds == Spec => []RelationsFollowGraph
  BY InitGraph, GraphNext, GraphsStand, PTL DEF Spec
=============================================================================
