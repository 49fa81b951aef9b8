--------------------------- MODULE IngestionProofs ---------------------------
(***************************************************************************)
(* Type correctness of Ingestion, and its safety properties for every set  *)
(* of postings, sources, workers and handlers.                             *)
(***************************************************************************)
EXTENDS Ingestion, TLAPS

------------------------------------------------------------------------------
(* The two keys, and the absent values.                                    *)

LEMMA AbsentValues ==
  /\ NoRow \notin Row /\ NoHash \notin Hash
  /\ NoRow.source = None /\ NoRow.apply = NoUrl
  /\ \A r \in Row : r.source # None
  <1> USE SourcesAssumption, PostingsAssumption
  <1>1. NoHash \notin Hash
    BY DEF NoHash, Hash
  <1>2. \A r \in Row : r.source # None
    BY DEF Row
  <1>3. NoRow.source = None /\ NoRow.apply = NoUrl
    BY DEF NoRow
  <1>4. QED
    BY <1>1, <1>2, <1>3

\* A posting's keys are typed, and so is the row made of it.
LEMMA PostingKeys ==
  ASSUME NEW p \in Postings
  PROVE  /\ p \in Posting
         /\ Page(p) \in Pages \cup {None}
         /\ DedupHash(p) \in Hash
         /\ DedupHash(p).what = p.what /\ DedupHash(p).page = Page(p)
         /\ p.source # Manual => SourceKey(p) \in SourceKeys
         /\ RowOf(p) \in Row
  <1>1. p \in Posting /\ (p.source # Manual => p.external \in Externals)
    BY PostingsAssumption
  <1>2. NoUrl.page = None /\ \A u \in Url : u.page \in Pages
    BY DEF NoUrl, Url
  <1>3. p.apply \in Url \cup {NoUrl} /\ p.url \in Url \cup {NoUrl}
    BY <1>1 DEF Posting
  <1>4. Page(p) \in Pages \cup {None}
    BY <1>2, <1>3 DEF Page, Canon, UrlForDedup
  <1>5. DedupHash(p) \in Hash
    BY <1>1, <1>4 DEF DedupHash, Hash, Posting
  <1>6. RowOf(p) \in Row
    BY <1>1, <1>3 DEF RowOf, Row, Posting
  <1>7. p.source # Manual => SourceKey(p) \in SourceKeys
    BY <1>1 DEF SourceKey, SourceKeys, Posting
  <1>8. QED
    BY <1>1, <1>4, <1>5, <1>6, <1>7 DEF DedupHash

\* A URL is present exactly when its page is.
LEMMA UrlPage ==
  ASSUME NEW u \in Url \cup {NoUrl}
  PROVE  /\ Canon(u) \in Pages \cup {None}
         /\ u # NoUrl => Canon(u) \in Pages /\ Canon(u) # None
         /\ u = NoUrl => Canon(u) = None
BY PostingsAssumption DEF Canon, Url, NoUrl

------------------------------------------------------------------------------
(* Types.                                                                  *)

\* What the transaction of a process may be at each moment.
Shape(t) ==
  /\ txn[t].source = None => txn[t] = Closed
  /\ t \in Workers => txn[t].source # Manual
  /\ t \in Handlers =>
       /\ txn[t].source \in {None, Manual}
       /\ \/ txn[t].todo = <<>>
          \/ Len(txn[t].todo) = 1 /\ txn[t].rows = NoRows /\ txn[t].links = NoLinks
  /\ \A i \in 1..Len(txn[t].todo) : txn[t].todo[i].source = txn[t].source

Typed == TypeOK /\ \A t \in Processes : Shape(t)

\* A transaction that executes a record.
LEMMA RecordType ==
  ASSUME Typed, NEW t \in Processes, txn[t].todo # <<>>
  PROVE  /\ Record(t) \in Postings
         /\ Record(t).source = txn[t].source
         /\ txn[t].source \in Source
         /\ Tail(txn[t].todo) \in Seq(Postings)
         /\ Len(Tail(txn[t].todo)) = Len(txn[t].todo) - 1
         /\ \A i \in 1..Len(Tail(txn[t].todo)) :
              Tail(txn[t].todo)[i].source = txn[t].source
         /\ Known(t) \in Hash \cup {NoHash}
  <1>1. txn[t] \in Txn /\ Shape(t)
    BY DEF Typed, TypeOK
  <1>2. txn[t].todo \in Seq(Postings)
    BY <1>1 DEF Txn
  <1>3. Len(txn[t].todo) \in Nat \ {0}
    BY <1>2
  <1>4. Record(t) \in Postings /\ Record(t) = txn[t].todo[1]
    BY <1>2 DEF Record
  <1>5. Record(t).source = txn[t].source
    BY <1>1, <1>3, <1>4 DEF Shape
  <1>6. /\ Tail(txn[t].todo) \in Seq(Postings)
        /\ Len(Tail(txn[t].todo)) = Len(txn[t].todo) - 1
        /\ \A i \in 1..Len(Tail(txn[t].todo)) :
             Tail(txn[t].todo)[i] = txn[t].todo[i + 1]
    BY <1>2
  <1>7. \A i \in 1..Len(Tail(txn[t].todo)) :
          Tail(txn[t].todo)[i].source = txn[t].source
    <2>1. ASSUME NEW i \in 1..Len(Tail(txn[t].todo))
          PROVE  Tail(txn[t].todo)[i].source = txn[t].source
      <3>1. i + 1 \in 1..Len(txn[t].todo)
        BY <1>3, <1>6
      <3>2. QED
        BY <1>1, <1>6, <3>1 DEF Shape
    <2>2. QED
      BY <2>1
  <1>8. Known(t) \in Hash \cup {NoHash}
    BY <1>1, <1>4, PostingKeys DEF Known, Txn
  <1>9. txn[t].source \in Source
    BY <1>4, <1>5, PostingKeys DEF Posting
  <1>10. QED
    BY <1>4, <1>5, <1>6, <1>7, <1>8, <1>9

\* What a transaction may have written and seen.
Rows == [Hash -> Row \cup {NoRow}]
UrlMap == [Pages \cup {None} -> Hash \cup {NoHash}]

\* A record is given to a stored job: what the transaction is afterwards.
LEMMA PersistedType ==
  ASSUME Typed, NEW t \in Processes, txn[t].todo # <<>>,
         NEW h \in Hash,
         NEW written \in Rows,
         NEW seen \in UrlMap
  PROVE  LET n == Persisted(t, h, written, seen)
         IN  /\ n \in Txn
             /\ n.source = txn[t].source /\ n.todo = Tail(txn[t].todo)
             /\ n.rows = written /\ n.urls = seen
             /\ \A s \in SourceKeys :
                  n.links[s] = IF s = SourceKey(Record(t)) /\ LinksRecord(t)
                                  /\ Linked(t, s) = NoHash
                               THEN h ELSE txn[t].links[s]
  <1>1. txn[t] \in Txn
    BY DEF Typed, TypeOK
  <1>2. Tail(txn[t].todo) \in Seq(Postings) /\ Record(t) \in Postings
        /\ Record(t).source = txn[t].source
    BY RecordType
  <1>3. LinksRecord(t) => SourceKey(Record(t)) \in SourceKeys
    BY <1>2, PostingKeys DEF LinksRecord
  <1> DEFINE s0 == SourceKey(Record(t))
             l == IF LinksRecord(t) /\ Linked(t, s0) = NoHash
                  THEN [txn[t].links EXCEPT ![s0] = h] ELSE txn[t].links
  <1>4. l \in [SourceKeys -> Hash \cup {NoHash}]
    BY <1>1, <1>3 DEF Txn
  <1>5. \A s \in SourceKeys :
          l[s] = IF s = s0 /\ LinksRecord(t) /\ Linked(t, s) = NoHash
                 THEN h ELSE txn[t].links[s]
    BY <1>1, <1>3 DEF Txn
  <1>6. Persisted(t, h, written, seen) =
          [txn[t] EXCEPT !.todo = Tail(@), !.rows = written, !.urls = seen,
                         !.links = l]
    BY <1>1 DEF Persisted, Txn
  <1> HIDE DEF l
  <1>7. QED
    BY <1>1, <1>2, <1>4, <1>5, <1>6 DEF Txn, Rows, UrlMap

\* What a statement of t sees is typed.
LEMMA SeenType ==
  ASSUME Typed, NEW t \in Processes
  PROVE  /\ \A h \in Hash : Seen(t, h) \in Row \cup {NoRow}
         /\ \A s \in SourceKeys : Linked(t, s) \in Hash \cup {NoHash}
BY DEF Typed, TypeOK, Txn, Seen, Linked

\* The row JobSpy completes.
Backfilled(t) ==
  [Seen(t, DedupHash(Record(t))) EXCEPT
     !.apply = Record(t).apply,
     !.amended = IF @ = "resolved" THEN @ ELSE "backfilled"]

LEMMA BackfilledType ==
  ASSUME Typed, NEW t \in Processes, txn[t].todo # <<>>, Backfills(t)
  PROVE  /\ Backfilled(t) \in Row
         /\ LET r == Seen(t, DedupHash(Record(t)))
                b == Backfilled(t)
            IN  /\ r \in Row
                /\ b.source = r.source /\ b.external = r.external
                /\ b.what = r.what /\ b.url = r.url
                /\ b.canonical = r.canonical /\ b.apply = Record(t).apply
                /\ b.amended = IF r.amended = "resolved" THEN "resolved" ELSE "backfilled"
  <1> DEFINE r == Seen(t, DedupHash(Record(t)))
  <1>1. Record(t) \in Posting /\ DedupHash(Record(t)) \in Hash
    BY RecordType, PostingKeys
  <1>2. r \in Row
    BY <1>1, SeenType DEF Backfills
  <1>3. Record(t).apply \in Url \cup {NoUrl}
    BY <1>1 DEF Posting
  <1>4. Backfilled(t) =
          [r EXCEPT !.apply = Record(t).apply,
                    !.amended = IF r.amended = "resolved" THEN r.amended ELSE "backfilled"]
    BY <1>2 DEF Backfilled, Row
  <1> HIDE DEF r
  <1>5. QED
    BY <1>2, <1>3, <1>4 DEF Row, r

\* The four outcomes of a record: suppressed, suppressed with a backfill, inserted.
PersistsAs(t, h, written, seen) ==
  /\ txn[t].todo # <<>>
  /\ txn' = [txn EXCEPT ![t] = Persisted(t, h, written, seen)]
  /\ UNCHANGED <<jobs, sources, opened>>
  /\ \/ written = txn[t].rows /\ seen = txn[t].urls
     \/ /\ h = DedupHash(Record(t)) /\ Backfills(t)
        /\ written = WithRow(t, h, Backfilled(t)) /\ seen = txn[t].urls
     \/ /\ h = DedupHash(Record(t)) /\ Known(t) = NoHash /\ Seen(t, h) = NoRow
        /\ written = WithRow(t, h, RowOf(Record(t))) /\ seen = WithUrl(t, h)

PersistStep(t) == SuppressByUrl(t) \/ SuppressByHash(t) \/ Insert(t)

LEMMA PersistCases ==
  ASSUME Typed, NEW t \in Processes, PersistStep(t)
  PROVE  \E h \in Hash, written \in Rows,
            seen \in UrlMap :
              PersistsAs(t, h, written, seen)
  <1>0. /\ txn[t].rows \in [Hash -> Row \cup {NoRow}]
        /\ txn[t].urls \in [Pages \cup {None} -> Hash \cup {NoHash}]
    BY DEF Typed, TypeOK, Txn
  <1>1. txn[t].todo # <<>>
    BY DEF PersistStep, SuppressByUrl, SuppressByHash, Insert, Executes
  <1>2. /\ DedupHash(Record(t)) \in Hash /\ Known(t) \in Hash \cup {NoHash}
        /\ RowOf(Record(t)) \in Row /\ Page(Record(t)) \in Pages \cup {None}
    BY <1>1, RecordType, PostingKeys
  <1>3. CASE SuppressByUrl(t)
    <2>1. PersistsAs(t, Known(t), txn[t].rows, txn[t].urls)
      BY <1>1, <1>3 DEF PersistsAs, SuppressByUrl, Persist
    <2>2. Known(t) \in Hash
      BY <1>2, <1>3 DEF SuppressByUrl
    <2>3. QED
      BY <1>0, <2>1, <2>2 DEF Rows, UrlMap
  <1>4. CASE SuppressByHash(t) /\ Backfills(t)
    <2> DEFINE h == DedupHash(Record(t))
    <2>1. PersistsAs(t, h, WithRow(t, h, Backfilled(t)), txn[t].urls)
      BY <1>1, <1>4 DEF PersistsAs, SuppressByHash, Persist, Backfilled
    <2>2. WithRow(t, h, Backfilled(t)) \in [Hash -> Row \cup {NoRow}]
      BY <1>0, <1>1, <1>4, BackfilledType DEF WithRow
    <2>3. QED
      BY <1>0, <1>2, <2>1, <2>2 DEF Rows, UrlMap
  <1>5. CASE SuppressByHash(t) /\ ~Backfills(t)
    <2>1. PersistsAs(t, DedupHash(Record(t)), txn[t].rows, txn[t].urls)
      BY <1>1, <1>5 DEF PersistsAs, SuppressByHash, Persist
    <2>2. QED
      BY <1>0, <1>2, <2>1 DEF Rows, UrlMap
  <1>6. CASE Insert(t)
    <2> DEFINE h == DedupHash(Record(t))
    <2>1. PersistsAs(t, h, WithRow(t, h, RowOf(Record(t))), WithUrl(t, h))
      BY <1>1, <1>6 DEF PersistsAs, Insert, Persist
    <2>2. WithRow(t, h, RowOf(Record(t))) \in [Hash -> Row \cup {NoRow}]
      BY <1>0, <1>2 DEF WithRow
    <2>3. WithUrl(t, h) \in [Pages \cup {None} -> Hash \cup {NoHash}]
      BY <1>0, <1>2 DEF WithUrl
    <2>4. QED
      BY <1>2, <2>1, <2>2, <2>3 DEF Rows, UrlMap
  <1>7. QED
    BY <1>3, <1>4, <1>5, <1>6 DEF PersistStep

LEMMA ClosedType == Closed \in Txn /\ NoRows \in [Hash -> Row \cup {NoRow}]
                    /\ NoLinks \in [SourceKeys -> Hash \cup {NoHash}]
                    /\ NoUrls \in [Pages \cup {None} -> Hash \cup {NoHash}]
  <1>1. /\ NoRows \in [Hash -> Row \cup {NoRow}]
        /\ NoLinks \in [SourceKeys -> Hash \cup {NoHash}]
        /\ NoUrls \in [Pages \cup {None} -> Hash \cup {NoHash}]
    BY DEF NoRows, NoLinks, NoUrls
  <1>2. <<>> \in Seq(Postings)
    OBVIOUS
  <1>3. QED
    BY <1>1, <1>2 DEF Closed, Txn

LEMMA InitTyped == Init => Typed
  <1> SUFFICES ASSUME Init PROVE Typed
    OBVIOUS
  <1>1. TypeOK
    BY ClosedType, BoundsAssumption DEF Init, TypeOK
  <1>2. \A t \in Processes : Shape(t)
    <2>1. Len(<<>>) = 0 /\ Closed.source = None /\ Closed.todo = <<>>
      BY DEF Closed
    <2>2. None # Manual
      BY SourcesAssumption DEF Source
    <2>3. QED
      BY <2>1, <2>2 DEF Init, Shape
  <1>3. QED
    BY <1>1, <1>2 DEF Typed

\* A transaction of source s opens over a batch of its postings.
LEMMA OpenTyped ==
  ASSUME Typed, NEW t \in Processes, NEW s \in Source,
         NEW batch \in Seq(Postings),
         \A i \in 1..Len(batch) : batch[i].source = s,
         NEW map \in UrlMap,
         t \in Workers => s # Manual,
         t \in Handlers => s = Manual /\ Len(batch) = 1,
         Open(t, Opened(s, batch, map))
  PROVE  Typed'
  <1>0. Closed.rows = NoRows /\ Closed.links = NoLinks
    BY DEF Closed
  <1> DEFINE n == Opened(s, batch, map)
  <1>1. /\ n.source = s /\ n.todo = batch /\ n.urls = map
        /\ n.rows = NoRows /\ n.links = NoLinks
    BY <1>0, ClosedType DEF Opened, Txn
  <1>2. n \in Txn
    BY ClosedType DEF Opened, Txn, Rows, UrlMap
  <1> HIDE DEF n
  <1>3. /\ txn' \in [Processes -> Txn]
        /\ txn'[t] = n
        /\ \A u \in Processes \ {t} : txn'[u] = txn[u]
    BY <1>2 DEF Typed, TypeOK, Open, n
  <1>4. opened' \in 0..MaxTxns
    BY BoundsAssumption DEF Typed, TypeOK, Open
  <1>5. TypeOK'
    BY <1>3, <1>4 DEF Typed, TypeOK, Open
  <1>6. Shape(t)'
    <2>1. s # None
      BY SourcesAssumption
    <2>2. QED
      BY <1>1, <1>3, <2>1 DEF Shape
  <1>7. \A u \in Processes \ {t} : Shape(u)'
    BY <1>3 DEF Typed, Shape
  <1>8. QED
    BY <1>5, <1>6, <1>7 DEF Typed

LEMMA BatchType ==
  ASSUME NEW s \in Source, NEW batch \in Batches(s)
  PROVE  /\ batch \in Seq(Postings)
         /\ \A i \in 1..Len(batch) : batch[i].source = s
  <1>1. PICK n \in 1..MaxBatch : batch \in [1..n -> {p \in Postings : p.source = s}]
    BY DEF Batches
  <1>2. n \in Nat
    BY BoundsAssumption
  <1>3. batch \in Seq(Postings) /\ Len(batch) = n
    BY <1>1, <1>2
  <1>4. QED
    BY <1>1, <1>3

\* A process only opens a transaction when it has none.
LEMMA OpenStep ==
  ASSUME Typed,
         \/ \E w \in Workers : OpenMapped(w) \/ OpenUnmapped(w)
         \/ \E h \in Handlers : Submit(h)
  PROVE  Typed'
  <1>1. ASSUME NEW w \in Workers, OpenMapped(w)
        PROVE  Typed'
    <2>0. PICK s \in Mapped :
            \E batch \in Batches(s), map \in UrlMaps :
              Open(w, Opened(s, batch, map))
      BY <1>1 DEF OpenMapped
    <2>1. PICK batch \in Batches(s), map \in UrlMaps :
            Open(w, Opened(s, batch, map))
      BY <2>0
    <2>2. /\ s \in Source /\ s # Manual /\ w \in Processes /\ w \notin Handlers
          /\ map \in UrlMap
      BY SourcesAssumption, ProcessesAssumption DEF Source, Processes, UrlMaps, Rows, UrlMap
    <2>3. QED
      BY <2>1, <2>2, BatchType, OpenTyped
  <1>2. ASSUME NEW w \in Workers, OpenUnmapped(w)
        PROVE  Typed'
    <2>0. PICK s \in Unmapped :
            \E batch \in Batches(s) : Open(w, Opened(s, batch, NoUrls))
      BY <1>2 DEF OpenUnmapped
    <2>1. PICK batch \in Batches(s) : Open(w, Opened(s, batch, NoUrls))
      BY <2>0
    <2>2. s \in Source /\ s # Manual /\ w \in Processes /\ w \notin Handlers
      BY SourcesAssumption, ProcessesAssumption DEF Source, Processes
    <2>3. QED
      BY <2>1, <2>2, BatchType, OpenTyped, ClosedType DEF UrlMap
  <1>3. ASSUME NEW h \in Handlers, Submit(h)
        PROVE  Typed'
    <2>1. PICK batch \in Submissions : Open(h, Opened(Manual, batch, NoUrls))
      BY <1>3 DEF Submit
    <2>2. /\ batch \in Seq(Postings) /\ Len(batch) = 1
          /\ \A i \in 1..Len(batch) : batch[i].source = Manual
      <3>1. PICK p \in Postings : p.source = Manual /\ batch = <<p>>
        BY DEF Submissions
      <3>2. QED
        BY <3>1
    <2>3. Manual \in Source /\ h \in Processes /\ h \notin Workers
      BY ProcessesAssumption DEF Source, Processes
    <2>4. QED
      BY <2>1, <2>2, <2>3, OpenTyped, ClosedType DEF UrlMap
  <1>4. QED
    BY <1>1, <1>2, <1>3

LEMMA PersistTyped ==
  ASSUME Typed, NEW t \in Processes, PersistStep(t)
  PROVE  Typed'
  <1>1. PICK h \in Hash, written \in Rows,
             seen \in UrlMap :
               PersistsAs(t, h, written, seen)
    BY PersistCases
  <1> DEFINE n == Persisted(t, h, written, seen)
  <1>0. txn[t].todo # <<>>
    BY <1>1 DEF PersistsAs
  <1>2. /\ n \in Txn /\ n.source = txn[t].source /\ n.todo = Tail(txn[t].todo)
    BY <1>0, PersistedType
  <1>3. n.source # None
    BY <1>1, <1>2, RecordType, SourcesAssumption DEF PersistsAs
  <1> HIDE DEF n
  <1>4. /\ txn' \in [Processes -> Txn]
        /\ txn'[t] = n
        /\ \A u \in Processes \ {t} : txn'[u] = txn[u]
    BY <1>1, <1>2 DEF Typed, TypeOK, PersistsAs, n
  <1>5. TypeOK'
    BY <1>1, <1>4 DEF Typed, TypeOK, PersistsAs
  <1>6. Shape(t)'
    <2>1. t \in Handlers => n.todo = <<>>
      <3>1. t \in Handlers => Len(Tail(txn[t].todo)) = 0
        BY <1>1, RecordType DEF Typed, Shape, PersistsAs
      <3>2. Tail(txn[t].todo) \in Seq(Postings)
        BY <1>1, RecordType DEF PersistsAs
      <3>3. \A q \in Seq(Postings) : Len(q) = 0 => q = <<>>
        OBVIOUS
      <3>4. QED
        BY <1>2, <3>1, <3>2, <3>3
    <2>2. \A i \in 1..Len(n.todo) : n.todo[i].source = n.source
      BY <1>1, <1>2, RecordType DEF PersistsAs
    <2>3. QED
      BY <1>2, <1>3, <1>4, <2>1, <2>2 DEF Typed, Shape
  <1>7. \A u \in Processes \ {t} : Shape(u)'
    BY <1>4 DEF Typed, Shape
  <1>8. QED
    BY <1>5, <1>6, <1>7 DEF Typed

\* A transaction ends, with or without its writes.
LEMMA CloseTyped ==
  ASSUME Typed, NEW t \in Processes, Commit(t) \/ Abort(t)
  PROVE  Typed'
  <1>1. /\ txn' \in [Processes -> Txn]
        /\ txn'[t] = Closed
        /\ \A u \in Processes \ {t} : txn'[u] = txn[u]
    BY ClosedType DEF Typed, TypeOK, Commit, Abort
  <1>2. /\ jobs' \in [Hash -> Row \cup {NoRow}]
        /\ sources' \in [SourceKeys -> Hash \cup {NoHash}]
    <2>1. CASE Commit(t)
      BY <2>1, SeenType DEF Commit
    <2>2. CASE Abort(t)
      BY <2>2 DEF Abort, Typed, TypeOK
    <2>3. QED
      BY <2>1, <2>2
  <1>3. opened' = opened
    BY DEF Commit, Abort
  <1>4. TypeOK'
    BY <1>1, <1>2, <1>3 DEF Typed, TypeOK
  <1>5. Shape(t)'
    <2>1. Len(<<>>) = 0 /\ Closed.source = None /\ Closed.todo = <<>>
      BY DEF Closed
    <2>2. None # Manual
      BY SourcesAssumption DEF Source
    <2>3. QED
      BY <1>1, <2>1, <2>2 DEF Shape
  <1>6. \A u \in Processes \ {t} : Shape(u)'
    BY <1>1 DEF Typed, Shape
  <1>7. QED
    BY <1>4, <1>5, <1>6 DEF Typed

\* What a resolution writes.
LEMMA EnrichedType ==
  ASSUME NEW r \in Row, NEW p \in Postings, p.source \in Ats
  PROVE  /\ Enriched(r, p) \in Row
         /\ Enriched(r, p).source = r.source
         /\ Enriched(r, p).external = r.external
         /\ Enriched(r, p).amended = "resolved"
         /\ Enriched(r, p).canonical = SourceKey(p)
         /\ SourceKey(p) \in SourceKeys
  <1>1. SourceKey(p) \in SourceKeys
    BY PostingKeys, SourcesAssumption
  <1>2. p \in Posting
    BY PostingKeys
  <1> DEFINE a == IF p.apply # NoUrl THEN p.apply ELSE r.apply
             u == IF p.url # NoUrl THEN p.url
                  ELSE IF p.apply # NoUrl THEN p.apply ELSE r.url
             k == SourceKey(p)
  <1>3. a \in Url \cup {NoUrl} /\ u \in Url \cup {NoUrl} /\ p.what \in Whats
    BY <1>2 DEF Posting, Row
  <1>4. Enriched(r, p) =
          [r EXCEPT !.what = p.what, !.apply = a, !.url = u,
                    !.amended = "resolved", !.canonical = k]
    BY DEF Enriched, Row
  <1>5. k \in SourceKeys
    BY <1>1
  <1> HIDE DEF a, u, k
  <1>6. /\ Enriched(r, p) \in Row
        /\ Enriched(r, p).source = r.source
        /\ Enriched(r, p).external = r.external
        /\ Enriched(r, p).amended = "resolved"
        /\ Enriched(r, p).canonical = k
    BY <1>3, <1>4, <1>5 DEF Row
  <1>7. QED
    BY <1>1, <1>6 DEF k

\* One step of a resolution, with the row and the posting it found.
Resolves(h, p) ==
  /\ jobs[h] \in Row /\ p.source \in Ats
  /\ jobs' = [jobs EXCEPT ![h] = Enriched(jobs[h], p)]
  /\ sources' = CanonicalLink(h, p)
  /\ UNCHANGED <<txn, opened>>
  /\ \A u \in Processes : txn[u].rows[h] = NoRow

LEMMA ResolveCases ==
  ASSUME Typed, NEW w \in Workers, Resolve(w)
  PROVE  \E h \in Hash, p \in Postings : Resolves(h, p)
  <1>1. PICK h \in Hash, p \in Postings :
          /\ jobs[h].source \in Discovery /\ FoundAt(jobs[h], p)
          /\ \A u \in Processes : txn[u].rows[h] = NoRow
          /\ jobs' = [jobs EXCEPT ![h] = Enriched(@, p)]
          /\ sources' = CanonicalLink(h, p)
    BY DEF Resolve
  <1>2. jobs[h] \in Row
    BY <1>1, SourcesAssumption, AbsentValues DEF Typed, TypeOK, Source
  <1>3. QED
    BY <1>1, <1>2 DEF Resolve, Resolves, FoundAt

LEMMA LinkType ==
  ASSUME Typed, NEW h \in Hash, NEW p \in Postings, p.source \in Ats
  PROVE  /\ CanonicalLink(h, p) \in [SourceKeys -> Hash \cup {NoHash}]
         /\ CanonicalLink(h, p)[SourceKey(p)] # NoHash
         /\ \A s \in SourceKeys :
              sources[s] # NoHash => CanonicalLink(h, p)[s] = sources[s]
  <1>1. SourceKey(p) \in SourceKeys
    BY PostingKeys, SourcesAssumption
  <1>2. sources \in [SourceKeys -> Hash \cup {NoHash}]
    BY DEF Typed, TypeOK
  <1>3. QED
    BY <1>1, <1>2, AbsentValues DEF CanonicalLink

LEMMA ResolveTyped ==
  ASSUME Typed, NEW w \in Workers, Resolve(w)
  PROVE  Typed'
  <1>1. PICK h \in Hash, p \in Postings : Resolves(h, p)
    BY ResolveCases
  <1>2. jobs' \in [Hash -> Row \cup {NoRow}]
    BY <1>1, EnrichedType DEF Resolves, Typed, TypeOK
  <1>3. sources' \in [SourceKeys -> Hash \cup {NoHash}]
    BY <1>1, LinkType DEF Resolves
  <1>4. QED
    BY <1>1, <1>2, <1>3 DEF Resolves, Typed, TypeOK, Shape

\* The steps, sorted by what they do.
LEMMA Steps ==
  ASSUME Next
  PROVE  \/ \/ \E w \in Workers : OpenMapped(w) \/ OpenUnmapped(w)
            \/ \E h \in Handlers : Submit(h)
         \/ \E w \in Workers : Resolve(w)
         \/ \E t \in Processes : PersistStep(t)
         \/ \E t \in Processes : Commit(t)
         \/ \E t \in Processes : Abort(t)
BY DEF Next, PersistStep

LEMMA StepTyped == Typed /\ [Next]_vars => Typed'
  <1> SUFFICES ASSUME Typed, [Next]_vars PROVE Typed'
    OBVIOUS
  <1>1. CASE Next
    BY <1>1, Steps, OpenStep, ResolveTyped, PersistTyped, CloseTyped
  <1>2. CASE UNCHANGED vars
    BY <1>2 DEF vars, Typed, TypeOK, Shape
  <1>3. QED
    BY <1>1, <1>2

THEOREM Typing == Spec => []Typed
BY InitTyped, StepTyped, PTL DEF Spec

\* Every reachable state is typed, for any postings, sources and processes.
THEOREM IngestionTypeCorrect == Spec => []TypeOK
  <1>1. Typed => TypeOK
    BY DEF Typed
  <1>2. QED
    BY <1>1, Typing, PTL

------------------------------------------------------------------------------
(* The effects of the steps, as the invariants below need them.            *)

LEMMA PersistWrites ==
  ASSUME Typed, NEW t \in Processes, NEW h \in Hash,
         NEW written \in Rows,
         NEW seen \in UrlMap,
         PersistsAs(t, h, written, seen)
  PROVE  /\ jobs' = jobs /\ sources' = sources
         /\ \A u \in Processes \ {t} : txn'[u] = txn[u]
         /\ txn'[t].source = txn[t].source /\ txn'[t].source # None
         /\ txn'[t].rows = written /\ txn'[t].urls = seen
         /\ \A s \in SourceKeys : Linked(t, s) # NoHash => Linked(t, s)' # NoHash
         /\ \A s \in SourceKeys :
              LinksRecord(t) /\ s = SourceKey(Record(t)) => Linked(t, s)' # NoHash
  <1>0. txn[t].todo # <<>>
    BY DEF PersistsAs
  <1> DEFINE n == Persisted(t, h, written, seen)
  <1>1. /\ n.source = txn[t].source /\ n.rows = written /\ n.urls = seen
        /\ \A s \in SourceKeys :
             n.links[s] = IF s = SourceKey(Record(t)) /\ LinksRecord(t)
                             /\ Linked(t, s) = NoHash
                          THEN h ELSE txn[t].links[s]
    BY <1>0, PersistedType
  <1>2. txn[t].source # None
    BY <1>0, RecordType, SourcesAssumption
  <1> HIDE DEF n
  <1>4. txn'[t] = n /\ \A u \in Processes \ {t} : txn'[u] = txn[u]
    BY DEF PersistsAs, Typed, TypeOK, n
  <1>5. jobs' = jobs /\ sources' = sources
    BY DEF PersistsAs
  <1>6. \A s \in SourceKeys : Linked(t, s) # NoHash => Linked(t, s)' # NoHash
    BY <1>1, <1>4, <1>5, AbsentValues DEF Linked
  <1>7. ASSUME NEW s \in SourceKeys, LinksRecord(t), s = SourceKey(Record(t))
        PROVE  Linked(t, s)' # NoHash
    BY <1>1, <1>4, <1>7, <1>5, AbsentValues DEF Linked
  <1>8. QED
    BY <1>1, <1>2, <1>4, <1>5, <1>6, <1>7

\* After an end the process has nothing open; a commit stores what it saw.
LEMMA CloseWrites ==
  ASSUME Typed, NEW t \in Processes, Commit(t) \/ Abort(t)
  PROVE  /\ txn'[t] = Closed /\ \A u \in Processes \ {t} : txn'[u] = txn[u]
         /\ Commit(t) =>
              /\ \A h \in Hash : jobs'[h] = Seen(t, h)
              /\ \A s \in SourceKeys : sources'[s] = Linked(t, s)
         /\ Abort(t) => jobs' = jobs /\ sources' = sources
BY DEF Commit, Abort, Typed, TypeOK

LEMMA ClosedWrites ==
  /\ Closed.source = None /\ Closed.todo = <<>>
  /\ \A h \in Hash : Closed.rows[h] = NoRow
  /\ \A s \in SourceKeys : Closed.links[s] = NoHash
BY DEF Closed, NoRows, NoLinks

\* Opening writes nothing.
LEMMA OpenWrites ==
  ASSUME Typed, NEW t \in Processes, NEW s, NEW batch, NEW map,
         Open(t, Opened(s, batch, map))
  PROVE  /\ jobs' = jobs /\ sources' = sources
         /\ \A u \in Processes \ {t} : txn'[u] = txn[u]
         /\ txn[t] = Closed
         /\ txn'[t].rows = Closed.rows /\ txn'[t].links = Closed.links
         /\ txn'[t].source = s /\ txn'[t].urls = map
  <1>1. Shape(t) /\ txn[t].source = None
    BY DEF Typed, Open
  <1>2. /\ Opened(s, batch, map).rows = Closed.rows
        /\ Opened(s, batch, map).links = Closed.links
        /\ Opened(s, batch, map).source = s
        /\ Opened(s, batch, map).urls = map
    BY ClosedType DEF Opened, Txn
  <1>3. QED
    BY <1>1, <1>2 DEF Open, Shape, Typed, TypeOK

\* Every opening step is of this form.
LEMMA OpenCases ==
  ASSUME \/ \E w \in Workers : OpenMapped(w) \/ OpenUnmapped(w)
         \/ \E h \in Handlers : Submit(h)
  PROVE  \E t \in Processes : \E s, batch, map : Open(t, Opened(s, batch, map))
BY DEF OpenMapped, OpenUnmapped, Submit, Processes

------------------------------------------------------------------------------
(* Rows that have not been resolved keep the hash of their fields.         *)

Fits(r, h) == r # NoRow /\ r.amended # "resolved" => DedupHash(r) = h

OwnFits == \A t \in Processes, h \in Hash : Fits(txn[t].rows[h], h)

FitInv == Typed /\ HashFits /\ OwnFits

\* A row of the dedup_hash of the posting that JobSpy completes it with.
LEMMA BackfilledFits ==
  ASSUME Typed, NEW t \in Processes, txn[t].todo # <<>>, Backfills(t),
         Fits(Seen(t, DedupHash(Record(t))), DedupHash(Record(t)))
  PROVE  Fits(Backfilled(t), DedupHash(Record(t)))
  <1> DEFINE p == Record(t)
             r == Seen(t, DedupHash(p))
             b == Backfilled(t)
  <1>1. p \in Postings
    BY RecordType
  <1>2. /\ r \in Row /\ b.what = r.what /\ b.apply = p.apply
        /\ b.amended # "resolved" => r.amended # "resolved"
    BY BackfilledType
  <1>3. p.apply # NoUrl
    BY DEF Backfills
  <1>4. DedupHash(b) = [what |-> r.what, page |-> Canon(p.apply)]
    BY <1>2, <1>3 DEF DedupHash, Page, UrlForDedup
  <1>5. DedupHash(p) = [what |-> p.what, page |-> Canon(p.apply)]
    BY <1>3 DEF DedupHash, Page, UrlForDedup
  <1>6. ASSUME r.amended # "resolved" PROVE r.what = p.what
    <2>1. DedupHash(r) = DedupHash(p)
      BY <1>2, <1>6, AbsentValues DEF Fits
    <2>2. QED
      BY <2>1 DEF DedupHash
  <1>7. QED
    BY <1>2, <1>4, <1>5, <1>6 DEF Fits

LEMMA RowOfFits ==
  ASSUME NEW p \in Postings
  PROVE  Fits(RowOf(p), DedupHash(p))
  <1>1. p \in Posting
    BY PostingKeys
  <1>2. RowOf(p).source = p.source
        /\ RowOf(p).what = p.what /\ RowOf(p).apply = p.apply
        /\ RowOf(p).url = IF p.url # NoUrl THEN p.url ELSE p.apply
    BY DEF RowOf
  <1>3. UrlForDedup(RowOf(p)) = UrlForDedup(p)
    BY <1>2 DEF UrlForDedup
  <1>4. QED
    BY <1>2, <1>3 DEF Fits, DedupHash, Page

LEMMA FitStep == FitInv /\ [Next]_vars => FitInv'
  <1> SUFFICES ASSUME FitInv, [Next]_vars PROVE FitInv'
    OBVIOUS
  <1>0. Typed /\ Typed'
    BY StepTyped DEF FitInv
  <1>a. /\ \A h \in Hash : Fits(jobs[h], h)
        /\ \A t \in Processes, h \in Hash : Fits(Seen(t, h), h)
    BY DEF FitInv, HashFits, OwnFits, Fits, Seen
  <1>c. \A t \in Processes, h \in Hash : Fits(txn[t].rows[h], h)
    BY DEF FitInv, OwnFits
  <1>b. \A h \in Hash : Fits(Closed.rows[h], h)
    BY ClosedWrites DEF Fits
  <1> SUFFICES /\ \A h \in Hash : Fits(jobs'[h], h)
               /\ \A t \in Processes, h \in Hash : Fits(txn'[t].rows[h], h)
    BY <1>0 DEF FitInv, HashFits, OwnFits, Fits
  <1>1. ASSUME NEW t \in Processes, NEW s, NEW batch, NEW map,
               Open(t, Opened(s, batch, map))
        PROVE  /\ \A h \in Hash : Fits(jobs'[h], h)
               /\ \A u \in Processes, h \in Hash : Fits(txn'[u].rows[h], h)
    BY <1>0, <1>1, <1>a, <1>b, OpenWrites DEF FitInv, OwnFits
  <1>2. ASSUME NEW t \in Processes, PersistStep(t)
        PROVE  /\ \A h \in Hash : Fits(jobs'[h], h)
               /\ \A u \in Processes, h \in Hash : Fits(txn'[u].rows[h], h)
    <2>1. PICK h \in Hash, written \in Rows,
               seen \in UrlMap :
                 PersistsAs(t, h, written, seen)
      BY <1>0, <1>2, PersistCases
    <2>2. /\ jobs' = jobs /\ txn'[t].rows = written
          /\ \A u \in Processes \ {t} : txn'[u] = txn[u]
      BY <1>0, <2>1, PersistWrites
    <2>3. \A k \in Hash : Fits(written[k], k)
      <3>0. /\ txn[t].todo # <<>> /\ Record(t) \in Postings
            /\ txn[t].rows \in [Hash -> Row \cup {NoRow}]
        BY <1>0, <2>1, RecordType DEF PersistsAs, Typed, TypeOK, Txn
      <3>1. CASE written = txn[t].rows
        BY <3>1 DEF FitInv, OwnFits
      <3>2. CASE /\ h = DedupHash(Record(t)) /\ Backfills(t)
                 /\ written = WithRow(t, h, Backfilled(t))
        <4>1. Fits(Backfilled(t), h)
          BY <1>0, <1>a, <3>0, <3>2, BackfilledFits
        <4>2. QED
          BY <3>0, <3>2, <4>1 DEF WithRow, FitInv, OwnFits
      <3>3. CASE /\ h = DedupHash(Record(t))
                 /\ written = WithRow(t, h, RowOf(Record(t)))
        <4>1. Fits(RowOf(Record(t)), h)
          BY <3>0, <3>3, RowOfFits
        <4>2. QED
          BY <3>0, <3>3, <4>1 DEF WithRow, FitInv, OwnFits
      <3>4. QED
        BY <2>1, <3>1, <3>2, <3>3 DEF PersistsAs
    <2>4. QED
      BY <1>a, <2>2, <2>3 DEF FitInv, OwnFits
  <1>3. ASSUME NEW t \in Processes, Commit(t) \/ Abort(t)
        PROVE  /\ \A h \in Hash : Fits(jobs'[h], h)
               /\ \A u \in Processes, h \in Hash : Fits(txn'[u].rows[h], h)
    BY <1>0, <1>3, <1>a, <1>b, CloseWrites DEF FitInv, OwnFits
  <1>4. ASSUME NEW w \in Workers, Resolve(w)
        PROVE  /\ \A h \in Hash : Fits(jobs'[h], h)
               /\ \A u \in Processes, h \in Hash : Fits(txn'[u].rows[h], h)
    <2>1. PICK h \in Hash, p \in Postings : Resolves(h, p)
      BY <1>0, <1>4, ResolveCases
    <2>2. \A k \in Hash : jobs'[k] = IF k = h THEN Enriched(jobs[h], p) ELSE jobs[k]
      BY <1>0, <2>1 DEF Resolves, Typed, TypeOK
    <2>3. Enriched(jobs[h], p).amended = "resolved"
      BY <2>1, EnrichedType DEF Resolves
    <2>4. txn' = txn
      BY <2>1 DEF Resolves
    <2>5. Fits(jobs'[h], h)
      BY <2>2, <2>3 DEF Fits
    <2>6. QED
      BY <1>a, <1>c, <2>2, <2>4, <2>5
  <1>5. CASE UNCHANGED vars
    <2>1. jobs' = jobs /\ txn' = txn
      BY <1>5 DEF vars
    <2>2. QED
      BY <1>a, <1>c, <2>1
  <1>6. CASE Next
    BY <1>6, <1>1, <1>2, <1>3, <1>4, Steps, OpenCases
  <1>7. QED
    BY <1>5, <1>6

\* Whatever JobSpy filled in since, an unresolved row is found under its own fields.
THEOREM HashesFit == Spec => []HashFits
  <1>1. Init => FitInv
    <2> SUFFICES ASSUME Init PROVE FitInv
      OBVIOUS
    <2>1. \A h \in Hash : jobs[h] = NoRow
      BY DEF Init, NoRows
    <2>2. \A t \in Processes, h \in Hash : txn[t].rows[h] = NoRow
      BY ClosedWrites DEF Init
    <2>3. QED
      BY <2>1, <2>2, InitTyped DEF FitInv, HashFits, OwnFits, Fits
  <1>2. FitInv => HashFits
    BY DEF FitInv
  <1>3. QED
    BY <1>1, <1>2, FitStep, PTL DEF Spec

------------------------------------------------------------------------------
(* Rows stored after a look-up of their apply URL do not share it.         *)

\* The rows a worker sees are as the property wants them, its URL map knows
\* all of them, and manual_ingest adds none.
SeenOnce(w) ==
  \A h, k \in Hash :
    /\ Claims(Seen(w, h)) /\ Claims(Seen(w, k))
    /\ Canon(Seen(w, h).apply) = Canon(Seen(w, k).apply)
    => h = k

MapComplete(w) ==
  txn[w].source \in Mapped =>
    \A h \in Hash : Claims(Seen(w, h)) =>
                      txn[w].urls[Canon(Seen(w, h).apply)] # NoHash

ClaimInv ==
  /\ Typed /\ UrlClaimedOnce
  /\ \A w \in Workers : SeenOnce(w) /\ MapComplete(w)
  /\ \A t \in Handlers, h \in Hash : ~ Claims(txn[t].rows[h])

LEMMA NoRowClaims == ~ Claims(NoRow)
BY AbsentValues DEF Claims

LEMMA RowOfClaims ==
  ASSUME NEW p \in Postings, Claims(RowOf(p))
  PROVE  /\ p.source \in Mapped /\ RowOf(p).apply = p.apply
         /\ Canon(p.apply) = Page(p) /\ Page(p) \in Pages /\ Page(p) # None
  <1>1. p.apply # NoUrl /\ RowOf(p).apply = p.apply /\ p.source \in Mapped
    BY DEF Claims, RowOf
  <1>2. p.apply \in Url \cup {NoUrl}
    BY PostingKeys DEF Posting
  <1>3. QED
    BY <1>1, <1>2, UrlPage DEF Page, UrlForDedup

\* A worker's batch goes on: nothing new claims a URL that its map knows.
LEMMA WorkerPersist ==
  ASSUME ClaimInv, NEW w \in Workers, PersistStep(w)
  PROVE  (SeenOnce(w) /\ MapComplete(w))'
  <1>0. Typed /\ w \in Processes /\ SeenOnce(w) /\ MapComplete(w)
    BY DEF ClaimInv, Processes
  <1>1. PICK h \in Hash, written \in Rows, seen \in UrlMap :
          PersistsAs(w, h, written, seen)
    BY <1>0, PersistCases
  <1>2. /\ jobs' = jobs /\ txn'[w].source = txn[w].source
        /\ txn'[w].rows = written /\ txn'[w].urls = seen
    BY <1>0, <1>1, PersistWrites
  <1>3. \A k \in Hash : Seen(w, k)' = IF written[k] # NoRow THEN written[k] ELSE jobs[k]
    BY <1>2 DEF Seen
  <1>4. /\ txn[w].todo # <<>> /\ Record(w) \in Postings
        /\ Record(w).source = txn[w].source
        /\ txn[w].rows \in Rows /\ txn[w].urls \in UrlMap
    BY <1>0, <1>1, RecordType DEF PersistsAs, Typed, TypeOK, Txn, Rows, UrlMap
  <1>5. CASE written = txn[w].rows /\ seen = txn[w].urls
    <2>1. \A k \in Hash : Seen(w, k)' = Seen(w, k)
      BY <1>3, <1>5 DEF Seen
    <2>2. QED
      BY <1>0, <1>2, <1>5, <2>1 DEF SeenOnce, MapComplete
  <1>6. CASE /\ h = DedupHash(Record(w)) /\ Backfills(w)
             /\ written = WithRow(w, h, Backfilled(w)) /\ seen = txn[w].urls
    <2>1. Backfilled(w) # NoRow /\ ~ Claims(Backfilled(w))
      BY <1>0, <1>4, <1>6, BackfilledType, AbsentValues DEF Claims
    <2>2. \A k \in Hash : Seen(w, k)' = IF k = h THEN Backfilled(w) ELSE Seen(w, k)
      BY <1>3, <1>4, <1>6, <2>1 DEF Seen, WithRow, Rows
    <2>3. QED
      BY <1>0, <1>2, <1>6, <2>1, <2>2 DEF SeenOnce, MapComplete
  <1>7. CASE /\ h = DedupHash(Record(w)) /\ Known(w) = NoHash
             /\ Seen(w, h) = NoRow
             /\ written = WithRow(w, h, RowOf(Record(w)))
             /\ seen = WithUrl(w, h)
    <2> DEFINE p == Record(w)
               r == RowOf(p)
    <2>1. r # NoRow
      BY <1>4, PostingKeys, AbsentValues
    <2>2. \A k \in Hash : Seen(w, k)' = IF k = h THEN r ELSE Seen(w, k)
      BY <1>3, <1>4, <1>7, <2>1 DEF Seen, WithRow, Rows
    <2>3. CASE Claims(r)
      <3>1. /\ p.source \in Mapped /\ Canon(r.apply) = Page(p)
            /\ Page(p) \in Pages /\ Page(p) # None
        BY <1>4, <2>3, RowOfClaims
      <3>2. \A k \in Hash : Claims(Seen(w, k)) => Canon(Seen(w, k).apply) # Page(p)
        BY <1>0, <1>4, <1>7, <3>1 DEF MapComplete, Known
      <3>3. SeenOnce(w)'
        BY <1>0, <2>2, <3>1, <3>2 DEF SeenOnce
      <3>4. seen = [txn[w].urls EXCEPT ![Page(p)] = h]
        BY <1>4, <1>7, <3>1 DEF WithUrl
      <3>5. \A g \in Pages \cup {None} :
              seen[g] = IF g = Page(p) THEN h ELSE txn[w].urls[g]
        BY <1>4, <3>1, <3>4 DEF UrlMap
      <3>6. ASSUME NEW k \in Hash, Claims(Seen(w, k)')
            PROVE  seen[Canon(Seen(w, k)'.apply)] # NoHash
        <4>1. CASE k = h
          BY <2>2, <3>1, <3>5, <4>1, AbsentValues
        <4>2. CASE k # h
          <5>1. Seen(w, k)' = Seen(w, k)
            BY <2>2, <4>2
          <5>2. txn[w].urls[Canon(Seen(w, k).apply)] # NoHash
            BY <1>0, <1>4, <3>1, <3>6, <5>1 DEF MapComplete
          <5>3. Canon(Seen(w, k).apply) \in Pages \cup {None}
            <6>1. Seen(w, k) \in Row
              BY <1>0, <3>6, <5>1, SeenType, NoRowClaims
            <6>2. QED
              BY <6>1, UrlPage DEF Row
          <5>4. QED
            BY <3>5, <5>1, <5>2, <5>3, AbsentValues
        <4>3. QED
          BY <4>1, <4>2
      <3>7. MapComplete(w)'
        BY <1>2, <3>6 DEF MapComplete
      <3>8. QED
        BY <3>3, <3>7
    <2>4. CASE ~ Claims(r)
      <3>1. SeenOnce(w)'
        BY <1>0, <2>2, <2>4 DEF SeenOnce
      <3>2. \A g \in Pages \cup {None} :
              txn[w].urls[g] # NoHash => seen[g] # NoHash
        BY <1>4, <1>7, AbsentValues DEF WithUrl, UrlMap
      <3>3. \A k \in Hash : Claims(Seen(w, k)) =>
                              Canon(Seen(w, k).apply) \in Pages \cup {None}
        BY <1>0, SeenType, NoRowClaims, UrlPage DEF Row
      <3>4. MapComplete(w)'
        BY <1>0, <1>2, <2>2, <2>4, <3>2, <3>3 DEF MapComplete
      <3>5. QED
        BY <3>1, <3>4
    <2>5. QED
      BY <2>3, <2>4
  <1>8. QED
    BY <1>1, <1>5, <1>6, <1>7 DEF PersistsAs

\* What a worker sees can only lose claims by the steps of others.
LEMMA OthersStep ==
  ASSUME NEW w \in Workers, SeenOnce(w), MapComplete(w),
         txn'[w].source = txn[w].source, txn'[w].urls = txn[w].urls,
         \A h \in Hash : Claims(Seen(w, h)') => Seen(w, h)' = Seen(w, h)
  PROVE  (SeenOnce(w) /\ MapComplete(w))'
BY DEF SeenOnce, MapComplete

\* A worker that has written nothing sees the committed rows.
LEMMA FreshSeen ==
  ASSUME NEW w \in Workers, UrlClaimedOnce',
         \A h \in Hash : txn'[w].rows[h] = NoRow,
         txn'[w].source \in Mapped =>
           \A h \in Hash : Claims(jobs'[h]) =>
                             txn'[w].urls[Canon(jobs'[h].apply)] # NoHash
  PROVE  (SeenOnce(w) /\ MapComplete(w))'
  <1>1. \A h \in Hash : Seen(w, h)' = jobs'[h]
    BY DEF Seen
  <1>2. QED
    BY <1>1 DEF SeenOnce, MapComplete, UrlClaimedOnce

\* The rows of a manual_ingest request never claim a URL.
LEMMA HandlerPersist ==
  ASSUME ClaimInv, NEW t \in Handlers, PersistStep(t)
  PROVE  \A k \in Hash : ~ Claims(txn'[t].rows[k])
  <1>0. Typed /\ t \in Processes /\ \A k \in Hash : ~ Claims(txn[t].rows[k])
    BY DEF ClaimInv, Processes
  <1>1. PICK h \in Hash, written \in Rows, seen \in UrlMap :
          PersistsAs(t, h, written, seen)
    BY <1>0, PersistCases
  <1>2. txn'[t].rows = written
    BY <1>0, <1>1, PersistWrites
  <1>3. /\ Record(t) \in Postings /\ Record(t).source = txn[t].source
        /\ txn[t].source \in Source
        /\ txn[t].rows \in Rows
    BY <1>0, <1>1, RecordType DEF PersistsAs, Typed, TypeOK, Txn, Rows
  <1>4. txn[t].source = Manual
    BY <1>0, <1>3, SourcesAssumption DEF Typed, Shape
  <1>5. ~ Backfills(t) /\ ~ Claims(RowOf(Record(t)))
    BY <1>3, <1>4, RowOfClaims, SourcesAssumption DEF Backfills
  <1>6. CASE written = txn[t].rows
    BY <1>0, <1>2, <1>6
  <1>7. CASE written = WithRow(t, h, RowOf(Record(t)))
    BY <1>0, <1>2, <1>3, <1>5, <1>7 DEF WithRow, Rows
  <1>8. QED
    BY <1>1, <1>5, <1>6, <1>7 DEF PersistsAs

LEMMA ClaimOpen ==
  ASSUME ClaimInv, NEW t \in Processes, NEW s, NEW batch, NEW map,
         Open(t, Opened(s, batch, map)),
         s \in Mapped => map \in UrlMaps
  PROVE  /\ UrlClaimedOnce'
         /\ \A w \in Workers : (SeenOnce(w) /\ MapComplete(w))'
         /\ \A u \in Handlers, h \in Hash : ~ Claims(txn'[u].rows[h])
  <1>1. /\ jobs' = jobs
        /\ \A u \in Processes \ {t} : txn'[u] = txn[u]
        /\ \A h \in Hash : txn'[t].rows[h] = NoRow
        /\ txn'[t].source = s /\ txn'[t].urls = map
    BY OpenWrites, ClosedWrites DEF ClaimInv
  <1>2. UrlClaimedOnce'
    BY <1>1 DEF ClaimInv, UrlClaimedOnce
  <1>3. ASSUME NEW w \in Workers, w # t
        PROVE  (SeenOnce(w) /\ MapComplete(w))'
    <2>1. txn'[w] = txn[w]
      BY <1>1, <1>3 DEF Processes
    <2>2. QED
      BY <1>1, <2>1, OthersStep DEF ClaimInv, Seen
  <1>4. ASSUME t \in Workers
        PROVE  (SeenOnce(t) /\ MapComplete(t))'
    <2>1. ASSUME s \in Mapped, NEW h \in Hash, Claims(jobs[h])
          PROVE  map[Canon(jobs[h].apply)] # NoHash
      <3>1. jobs[h] \in Row /\ jobs[h].apply # NoUrl
        BY <2>1, NoRowClaims DEF Claims, ClaimInv, Typed, TypeOK
      <3>2. Canon(jobs[h].apply) \in Pages \cup {None}
        BY <3>1, UrlPage DEF Row
      <3>3. Carries(h, Canon(jobs[h].apply))
        BY <3>1 DEF Carries
      <3>4. QED
        BY <2>1, <3>2, <3>3, AbsentValues DEF UrlMaps
    <2>2. QED
      BY <1>1, <1>2, <1>4, <2>1, FreshSeen
  <1>5. \A u \in Handlers, h \in Hash : ~ Claims(txn'[u].rows[h])
    BY <1>1, NoRowClaims DEF ClaimInv, Processes
  <1>6. QED
    BY <1>2, <1>3, <1>4, <1>5

\* Every opening step, with the URL map of a source that uses one.
LEMMA MappedOpenCases ==
  ASSUME \/ \E w \in Workers : OpenMapped(w) \/ OpenUnmapped(w)
         \/ \E h \in Handlers : Submit(h)
  PROVE  \E t \in Processes : \E s, batch, map :
           Open(t, Opened(s, batch, map)) /\ (s \in Mapped => map \in UrlMaps)
BY SourcesAssumption DEF OpenMapped, OpenUnmapped, Submit, Processes

LEMMA ClaimPersist ==
  ASSUME ClaimInv, NEW t \in Processes, PersistStep(t)
  PROVE  /\ UrlClaimedOnce'
         /\ \A w \in Workers : (SeenOnce(w) /\ MapComplete(w))'
         /\ \A u \in Handlers, h \in Hash : ~ Claims(txn'[u].rows[h])
  <1>1. jobs' = jobs /\ \A u \in Processes \ {t} : txn'[u] = txn[u]
    BY PersistCases, PersistWrites DEF ClaimInv
  <1>2. UrlClaimedOnce'
    BY <1>1 DEF ClaimInv, UrlClaimedOnce
  <1>3. ASSUME NEW w \in Workers, w # t
        PROVE  (SeenOnce(w) /\ MapComplete(w))'
    <2>1. txn'[w] = txn[w]
      BY <1>1, <1>3 DEF Processes
    <2>2. QED
      BY <1>1, <2>1, OthersStep DEF ClaimInv, Seen
  <1>4. ASSUME NEW u \in Handlers, NEW h \in Hash
        PROVE  ~ Claims(txn'[u].rows[h])
    BY <1>1, HandlerPersist DEF ClaimInv, Processes
  <1>5. QED
    BY <1>2, <1>3, <1>4, WorkerPersist

LEMMA ClaimClose ==
  ASSUME SoloWorker, ClaimInv, NEW t \in Processes, Commit(t) \/ Abort(t)
  PROVE  /\ UrlClaimedOnce'
         /\ \A w \in Workers : (SeenOnce(w) /\ MapComplete(w))'
         /\ \A u \in Handlers, h \in Hash : ~ Claims(txn'[u].rows[h])
  <1>1. /\ txn'[t] = Closed /\ \A u \in Processes \ {t} : txn'[u] = txn[u]
        /\ Commit(t) => \A h \in Hash : jobs'[h] = Seen(t, h)
        /\ Abort(t) => jobs' = jobs
    BY CloseWrites DEF ClaimInv
  <1>2. \A h \in Hash : Closed.rows[h] = NoRow
    BY ClosedWrites
  <1>3. Closed.source \notin Mapped
    BY ClosedWrites, SourcesAssumption DEF Source
  <1>4. \A u \in Handlers, h \in Hash : ~ Claims(txn'[u].rows[h])
    BY <1>1, <1>2, NoRowClaims DEF ClaimInv, Processes
  <1>5. CASE t \in Workers
    <2>1. UrlClaimedOnce'
      BY <1>1, <1>5 DEF ClaimInv, SeenOnce, UrlClaimedOnce
    <2>2. \A w \in Workers : w = t
      BY <1>5 DEF SoloWorker
    <2>3. (SeenOnce(t) /\ MapComplete(t))'
      BY <1>1, <1>2, <1>3, <1>5, <2>1, FreshSeen
    <2>4. QED
      BY <1>4, <2>1, <2>2, <2>3
  <1>6. CASE t \in Handlers /\ t \notin Workers
    <2>1. \A h \in Hash : Claims(jobs'[h]) => jobs'[h] = jobs[h]
      BY <1>1, <1>6 DEF ClaimInv, Seen
    <2>2. UrlClaimedOnce'
      BY <2>1 DEF ClaimInv, UrlClaimedOnce
    <2>3. ASSUME NEW w \in Workers
          PROVE  (SeenOnce(w) /\ MapComplete(w))'
      <3>1. txn'[w] = txn[w]
        BY <1>1, <1>6 DEF Processes
      <3>2. QED
        BY <2>1, <3>1, OthersStep DEF ClaimInv, Seen
    <2>4. QED
      BY <1>4, <2>2, <2>3
  <1>7. QED
    BY <1>5, <1>6 DEF Processes

LEMMA ClaimResolve ==
  ASSUME ClaimInv, NEW v \in Workers, Resolve(v)
  PROVE  /\ UrlClaimedOnce'
         /\ \A w \in Workers : (SeenOnce(w) /\ MapComplete(w))'
         /\ \A u \in Handlers, h \in Hash : ~ Claims(txn'[u].rows[h])
  <1>0. Typed
    BY DEF ClaimInv
  <1>1. PICK h \in Hash, p \in Postings : Resolves(h, p)
    BY <1>0, ResolveCases
  <1>2. \A k \in Hash : jobs'[k] = IF k = h THEN Enriched(jobs[h], p) ELSE jobs[k]
    BY <1>0, <1>1 DEF Resolves, Typed, TypeOK
  <1>3. ~ Claims(Enriched(jobs[h], p))
    BY <1>1, EnrichedType DEF Resolves, Claims
  <1>4. txn' = txn
    BY <1>1 DEF Resolves
  <1>5. \A k \in Hash : Claims(jobs'[k]) => jobs'[k] = jobs[k]
    BY <1>2, <1>3
  <1>6. UrlClaimedOnce'
    BY <1>5 DEF ClaimInv, UrlClaimedOnce
  <1>7. ASSUME NEW w \in Workers
        PROVE  (SeenOnce(w) /\ MapComplete(w))'
    BY <1>4, <1>5, OthersStep DEF ClaimInv, Seen
  <1>8. QED
    BY <1>4, <1>6, <1>7 DEF ClaimInv

LEMMA ClaimStep ==
  ASSUME SoloWorker
  PROVE  ClaimInv /\ [Next]_vars => ClaimInv'
  <1> SUFFICES ASSUME ClaimInv, [Next]_vars PROVE ClaimInv'
    OBVIOUS
  <1>0. Typed'
    BY StepTyped DEF ClaimInv
  <1> SUFFICES /\ UrlClaimedOnce'
               /\ \A w \in Workers : (SeenOnce(w) /\ MapComplete(w))'
               /\ \A u \in Handlers, h \in Hash : ~ Claims(txn'[u].rows[h])
    BY <1>0 DEF ClaimInv
  <1>1. CASE Next
    BY <1>1, Steps, MappedOpenCases, ClaimOpen, ClaimPersist, ClaimClose,
       ClaimResolve
  <1>2. CASE UNCHANGED vars
    BY <1>2 DEF vars, ClaimInv, UrlClaimedOnce, SeenOnce, MapComplete, Seen
  <1>3. QED
    BY <1>1, <1>2

\* With the one worker of the documented deployment, no two rows a mapped
\* task stored under their own URL share it: not in a batch, not across
\* batches, not beside submissions and resolutions.
THEOREM UrlsClaimedOnce == ASSUME SoloWorker PROVE Spec => []UrlClaimedOnce
  <1>1. Init => ClaimInv
    <2> SUFFICES ASSUME Init PROVE ClaimInv
      OBVIOUS
    <2>1. \A h \in Hash : jobs[h] = NoRow
      BY DEF Init, NoRows
    <2>2. \A t \in Processes : /\ txn[t].source = None
                               /\ \A h \in Hash : txn[t].rows[h] = NoRow
      BY ClosedWrites DEF Init
    <2>3. \A w \in Workers, h \in Hash : Seen(w, h) = NoRow
      BY <2>1, <2>2 DEF Seen, Processes
    <2>4. None \notin Mapped
      BY SourcesAssumption DEF Source
    <2>5. QED
      BY <2>1, <2>2, <2>3, <2>4, InitTyped, NoRowClaims
      DEF ClaimInv, UrlClaimedOnce, SeenOnce, MapComplete, Processes
  <1>2. ClaimInv => UrlClaimedOnce
    BY DEF ClaimInv
  <1>3. QED
    BY <1>1, <1>2, ClaimStep, PTL DEF Spec

------------------------------------------------------------------------------
(* The source records of the postings that made a row.                     *)

Names(r) ==
  (IF r.source = Manual THEN {} ELSE {<<r.source, r.external>>})
    \cup ({r.canonical} \ {NoSourceKey})

Named(r) == r # NoRow => Names(r) \subseteq SourceKeys

\* A row of jobs has its records in sources; a row that a transaction has
\* written has them in sources or in the transaction.
Kept ==
  /\ \A h \in Hash :
       Named(jobs[h]) /\ (jobs[h] # NoRow =>
                            \A s \in Names(jobs[h]) : sources[s] # NoHash)
  /\ \A t \in Processes, h \in Hash :
       Named(txn[t].rows[h]) /\ (txn[t].rows[h] # NoRow =>
                            \A s \in Names(txn[t].rows[h]) : Linked(t, s) # NoHash)

KeptInv == Typed /\ Kept

LEMMA KeptImplies == KeptInv => ProvenanceKept
BY DEF KeptInv, Kept, ProvenanceKept, Names

\* What a transaction sees is kept in what it can see of job_sources.
LEMMA SeenKept ==
  ASSUME KeptInv, NEW t \in Processes, NEW h \in Hash, Seen(t, h) # NoRow
  PROVE  /\ Names(Seen(t, h)) \subseteq SourceKeys
         /\ \A s \in Names(Seen(t, h)) : Linked(t, s) # NoHash
  <1>1. CASE txn[t].rows[h] # NoRow
    BY <1>1 DEF KeptInv, Kept, Seen, Named
  <1>2. CASE txn[t].rows[h] = NoRow
    <2>1. Seen(t, h) = jobs[h]
      BY <1>2 DEF Seen
    <2>2. QED
      BY <2>1 DEF KeptInv, Kept, Named, Linked
  <1>3. QED
    BY <1>1, <1>2

\* A record of job_sources that is there stays, and other processes see it.
LEMMA KeptByGrowth ==
  ASSUME KeptInv, NEW u \in Processes, txn'[u] = txn[u],
         \A s \in SourceKeys : sources[s] # NoHash => sources'[s] # NoHash
  PROVE  \A h \in Hash :
           Named(txn'[u].rows[h]) /\ (txn'[u].rows[h] # NoRow =>
             \A s \in Names(txn'[u].rows[h]) : Linked(u, s)' # NoHash)
  <1>1. \A s \in SourceKeys : Linked(u, s) # NoHash => Linked(u, s)' # NoHash
    BY DEF Linked
  <1>2. QED
    BY <1>1 DEF KeptInv, Kept, Named

LEMMA KeptOpen ==
  ASSUME KeptInv, NEW t \in Processes, NEW s, NEW batch, NEW map,
         Open(t, Opened(s, batch, map))
  PROVE  Kept'
  <1>1. /\ jobs' = jobs /\ sources' = sources
        /\ \A u \in Processes \ {t} : txn'[u] = txn[u]
        /\ \A h \in Hash : txn'[t].rows[h] = NoRow
    BY OpenWrites, ClosedWrites DEF KeptInv, Kept
  <1>2. \A u \in Processes \ {t}, h \in Hash :
          Named(txn'[u].rows[h]) /\ (txn'[u].rows[h] # NoRow =>
            \A k \in Names(txn'[u].rows[h]) : Linked(u, k)' # NoHash)
    BY <1>1, KeptByGrowth
  <1>3. QED
    BY <1>1, <1>2 DEF Kept, KeptInv, Named

LEMMA KeptPersist ==
  ASSUME KeptInv, NEW t \in Processes, PersistStep(t)
  PROVE  Kept'
  <1>0. Typed
    BY DEF KeptInv, Kept
  <1>1. PICK h \in Hash, written \in Rows, seen \in UrlMap :
          PersistsAs(t, h, written, seen)
    BY <1>0, PersistCases
  <1>2. /\ jobs' = jobs /\ sources' = sources
        /\ \A u \in Processes \ {t} : txn'[u] = txn[u]
        /\ txn'[t].rows = written
        /\ \A s \in SourceKeys : Linked(t, s) # NoHash => Linked(t, s)' # NoHash
        /\ \A s \in SourceKeys :
             LinksRecord(t) /\ s = SourceKey(Record(t)) => Linked(t, s)' # NoHash
    BY <1>0, <1>1, PersistWrites
  <1>3. \A u \in Processes \ {t}, k \in Hash :
          Named(txn'[u].rows[k]) /\ (txn'[u].rows[k] # NoRow =>
            \A s \in Names(txn'[u].rows[k]) : Linked(u, s)' # NoHash)
    BY <1>2, KeptByGrowth
  <1>4. /\ txn[t].todo # <<>> /\ Record(t) \in Postings
        /\ Record(t).source = txn[t].source
        /\ txn[t].rows \in Rows
    BY <1>0, <1>1, RecordType DEF PersistsAs, Typed, TypeOK, Txn, Rows
  <1>5. ASSUME NEW k \in Hash, written[k] # NoRow
        PROVE  /\ Names(written[k]) \subseteq SourceKeys
               /\ \A s \in Names(written[k]) : Linked(t, s)' # NoHash
    <2>1. CASE written[k] = txn[t].rows[k]
      BY <1>2, <1>5, <2>1 DEF KeptInv, Kept, Named
    <2>2. CASE /\ k = DedupHash(Record(t)) /\ Backfills(t)
               /\ written[k] = Backfilled(t)
      <3>1. Names(Backfilled(t)) = Names(Seen(t, k))
        BY <1>0, <1>4, <2>2, BackfilledType DEF Names
      <3>2. Seen(t, k) # NoRow
        BY <2>2 DEF Backfills
      <3>3. QED
        BY <1>2, <2>2, <3>1, <3>2, SeenKept
    <2>3. CASE written[k] = RowOf(Record(t))
      <3>1. Names(RowOf(Record(t))) =
              IF LinksRecord(t) THEN {SourceKey(Record(t))} ELSE {}
        BY <1>4 DEF Names, RowOf, LinksRecord, SourceKey
      <3>2. LinksRecord(t) => SourceKey(Record(t)) \in SourceKeys
        BY <1>4, PostingKeys DEF LinksRecord
      <3>3. QED
        BY <1>2, <2>3, <3>1, <3>2
    <2>4. \/ written[k] = txn[t].rows[k]
          \/ /\ k = DedupHash(Record(t)) /\ Backfills(t)
             /\ written[k] = Backfilled(t)
          \/ written[k] = RowOf(Record(t))
      BY <1>1, <1>4 DEF PersistsAs, WithRow, Rows
    <2>5. QED
      BY <2>1, <2>2, <2>3, <2>4
  <1>6. \A k \in Hash :
          Named(txn'[t].rows[k]) /\ (txn'[t].rows[k] # NoRow =>
            \A s \in Names(txn'[t].rows[k]) : Linked(t, s)' # NoHash)
    BY <1>2, <1>5 DEF Named
  <1>7. QED
    BY <1>2, <1>3, <1>6 DEF Kept, KeptInv, Named

LEMMA KeptClose ==
  ASSUME KeptInv, NEW t \in Processes, Commit(t) \/ Abort(t)
  PROVE  Kept'
  <1>1. /\ txn'[t] = Closed /\ \A u \in Processes \ {t} : txn'[u] = txn[u]
        /\ Commit(t) => /\ \A h \in Hash : jobs'[h] = Seen(t, h)
                        /\ \A s \in SourceKeys : sources'[s] = Linked(t, s)
        /\ Abort(t) => jobs' = jobs /\ sources' = sources
    BY CloseWrites DEF KeptInv, Kept
  <1>2. \A s \in SourceKeys : sources[s] # NoHash => sources'[s] # NoHash
    BY <1>1 DEF Linked
  <1>3. \A u \in Processes \ {t}, k \in Hash :
          Named(txn'[u].rows[k]) /\ (txn'[u].rows[k] # NoRow =>
            \A s \in Names(txn'[u].rows[k]) : Linked(u, s)' # NoHash)
    BY <1>1, <1>2, KeptByGrowth
  <1>4. \A k \in Hash : txn'[t].rows[k] = NoRow
    BY <1>1, ClosedWrites
  <1>5. \A h \in Hash :
          Named(jobs'[h]) /\ (jobs'[h] # NoRow =>
                                \A s \in Names(jobs'[h]) : sources'[s] # NoHash)
    <2>1. CASE Commit(t)
      BY <1>1, <2>1, SeenKept DEF Named
    <2>2. CASE Abort(t)
      BY <1>1, <2>2 DEF KeptInv, Kept, Named
    <2>3. QED
      BY <2>1, <2>2
  <1>6. QED
    BY <1>3, <1>4, <1>5 DEF Kept, Named

LEMMA KeptResolve ==
  ASSUME KeptInv, NEW w \in Workers, Resolve(w)
  PROVE  Kept'
  <1>0. Typed
    BY DEF KeptInv, Kept
  <1>1. PICK h \in Hash, p \in Postings : Resolves(h, p)
    BY <1>0, ResolveCases
  <1>2. \A k \in Hash : jobs'[k] = IF k = h THEN Enriched(jobs[h], p) ELSE jobs[k]
    BY <1>0, <1>1 DEF Resolves, Typed, TypeOK
  <1>3. /\ \A s \in SourceKeys : sources[s] # NoHash => sources'[s] # NoHash
        /\ SourceKey(p) \in SourceKeys /\ sources'[SourceKey(p)] # NoHash
        /\ txn' = txn
    BY <1>0, <1>1, LinkType, EnrichedType DEF Resolves
  <1>4. Names(Enriched(jobs[h], p)) \subseteq Names(jobs[h]) \cup {SourceKey(p)}
    BY <1>1, EnrichedType DEF Resolves, Names
  <1>5. jobs[h] # NoRow
    BY <1>1, AbsentValues DEF Resolves
  <1>6. \A k \in Hash :
          Named(jobs'[k]) /\ (jobs'[k] # NoRow =>
                                \A s \in Names(jobs'[k]) : sources'[s] # NoHash)
    <2>1. \A k \in Hash \ {h} :
            Named(jobs'[k]) /\ (jobs'[k] # NoRow =>
                                  \A s \in Names(jobs'[k]) : sources'[s] # NoHash)
      BY <1>2, <1>3 DEF KeptInv, Kept, Named
    <2>2. /\ Names(jobs[h]) \subseteq SourceKeys
          /\ \A s \in Names(jobs[h]) : sources[s] # NoHash
      BY <1>5 DEF KeptInv, Kept, Named
    <2>3. Named(jobs'[h]) /\ \A s \in Names(jobs'[h]) : sources'[s] # NoHash
      BY <1>2, <1>3, <1>4, <2>2 DEF Named
    <2>4. QED
      BY <2>1, <2>3
  <1>7. \A u \in Processes, k \in Hash :
          Named(txn'[u].rows[k]) /\ (txn'[u].rows[k] # NoRow =>
            \A s \in Names(txn'[u].rows[k]) : Linked(u, s)' # NoHash)
    BY <1>3, KeptByGrowth
  <1>8. QED
    BY <1>6, <1>7 DEF Kept

LEMMA KeptStep == KeptInv /\ [Next]_vars => KeptInv'
  <1> SUFFICES ASSUME KeptInv, [Next]_vars PROVE KeptInv'
    OBVIOUS
  <1>0. Typed'
    BY StepTyped DEF KeptInv, Kept
  <1> SUFFICES Kept'
    BY <1>0 DEF Kept, KeptInv
  <1>1. CASE Next
    BY <1>1, Steps, OpenCases, KeptOpen, KeptPersist, KeptClose, KeptResolve
  <1>2. CASE UNCHANGED vars
    BY <1>2 DEF vars, KeptInv, Kept, Named, Linked
  <1>3. QED
    BY <1>1, <1>2

\* However the batches, submissions and resolutions of any number of
\* processes interleave and abort, a stored row keeps its source records.
THEOREM ProvenanceIsKept == Spec => []ProvenanceKept
  <1>1. Init => KeptInv
    <2> SUFFICES ASSUME Init PROVE KeptInv
      OBVIOUS
    <2>1. \A h \in Hash : jobs[h] = NoRow
      BY DEF Init, NoRows
    <2>2. \A t \in Processes, h \in Hash : txn[t].rows[h] = NoRow
      BY ClosedWrites DEF Init
    <2>3. QED
      BY <2>1, <2>2, InitTyped DEF KeptInv, Kept, Named
  <1>2. QED
    BY <1>1, KeptImplies, KeptStep, PTL DEF Spec

------------------------------------------------------------------------------
(* Waiting.                                                                *)

\* A submission that waits holds nothing, so only a worker's batch blocks
\* a process that is itself waited for.
LEMMA WaitingSubmissionHoldsNothing ==
  ASSUME Typed, NEW t \in Processes, NEW u \in WaitsFor(t), txn[u].todo # <<>>
  PROVE  u \in Workers
  <1>1. u \in Processes /\ txn[t].todo # <<>> /\ Blocks(u, t)
    BY DEF WaitsFor
  <1>2. /\ DedupHash(Record(t)) \in Hash
        /\ LinksRecord(t) => SourceKey(Record(t)) \in SourceKeys
    BY <1>1, RecordType, PostingKeys DEF LinksRecord
  <1>3. ASSUME u \in Handlers PROVE FALSE
    <2>1. txn[u].rows = NoRows /\ txn[u].links = NoLinks
      BY <1>1, <1>3 DEF Typed, Shape
    <2>2. QED
      BY <1>1, <1>2, <2>1 DEF Blocks, NoRows, NoLinks
  <1>4. QED
    BY <1>1, <1>3 DEF Processes

\* With one worker no set of open transactions ever waits for itself.
THEOREM DeadlockFree == ASSUME SoloWorker PROVE Spec => []NoDeadlock
  <1>1. Typed => NoDeadlock
    <2> SUFFICES ASSUME Typed,
                        NEW S \in SUBSET Processes, S # {},
                        \A t \in S : WaitsFor(t) \cap S # {}
                 PROVE  FALSE
      BY DEF NoDeadlock
    <2>1. \A t \in S : txn[t].todo # <<>>
      BY DEF WaitsFor
    <2>2. \A t \in S : \E u \in S : u # t /\ u \in Workers
      <3>1. ASSUME NEW t \in S
            PROVE  \E u \in S : u # t /\ u \in Workers
        <4>1. PICK u \in S : u \in WaitsFor(t)
          OBVIOUS
        <4>2. u # t
          BY <4>1 DEF WaitsFor
        <4>3. QED
          BY <2>1, <4>1, <4>2, WaitingSubmissionHoldsNothing
      <3>2. QED
        BY <3>1
    <2>3. PICK u \in S : u \in Workers
      BY <2>2
    <2>4. PICK v \in S : v # u /\ v \in Workers
      BY <2>2
    <2>5. QED
      BY <2>3, <2>4 DEF SoloWorker
  <1>2. QED
    BY <1>1, Typing, PTL

=============================================================================
