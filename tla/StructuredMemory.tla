-------------------------- MODULE StructuredMemory --------------------------
(***************************************************************************)
(* Structured memories (core/structured_memory.cpp): entries with tags,    *)
(* dimensions and words, an index from each tag and from each value of a   *)
(* dimension to the entries that carry it, and the file every change is    *)
(* saved to.  A text is the set of its words; a score is kept only as far  *)
(* as it decides what is found and what comes first.                       *)
(***************************************************************************)
EXTENDS Naturals, Sequences, FiniteSets

CONSTANTS
  Id, Tag, Dim, Value, Word,
  Limit,   \* max_results
  MaxOps,  \* bound: changes and restarts
  None

VARIABLES
  entries,    \* entries_
  tagIndex,   \* tag_index_
  dimIndex,   \* dimension_index_
  noLength,   \* avg_doc_length_ is zero
  file,       \* structured_memory.json
  hits,       \* the answer of the last search
  ops

vars == <<entries, tagIndex, dimIndex, noLength, file, hits, ops>>

\* related_ids are kept as given, and importance is one of two.
Metadata == [title : SUBSET Word, tags : SUBSET Tag, dims : [Dim -> Value \cup {None}],
             importance : {0, 1}, related : SUBSET Id]
Live == {i \in Id : entries[i] # None}

TypeOK ==
  /\ \A i \in Live : entries[i].meta \in Metadata /\ entries[i].tokens \subseteq Word
  /\ \A t \in Tag : tagIndex[t] \in Seq(Id)
  /\ \A d \in Dim : \A v \in Value : dimIndex[d][v] \in Seq(Id)
  /\ noLength \in BOOLEAN /\ hits \subseteq Id /\ ops \in 0 .. MaxOps

Init ==
  /\ entries = [i \in Id |-> None] /\ file = [torn |-> FALSE, data |-> entries]
  /\ tagIndex = [t \in Tag |-> <<>>] /\ dimIndex = [d \in Dim |-> [v \in Value |-> <<>>]]
  /\ noLength = TRUE /\ hits = {} /\ ops = 0

-----------------------------------------------------------------------------

Tokens(content, title) == content \cup title

\* The two indexes without an entry, and with one more.
WithoutTag(index, i) == [t \in Tag |-> SelectSeq(index[t], LAMBDA j : j # i)]
WithoutDim(index, i) ==
  [d \in Dim |-> [v \in Value |-> SelectSeq(index[d][v], LAMBDA j : j # i)]]
PlusTag(index, i, meta) ==
  [t \in Tag |-> IF t \in meta.tags THEN Append(index[t], i) ELSE index[t]]
PlusDim(index, i, meta) ==
  [d \in Dim |-> [v \in Value |->
     IF meta.dims[d] = v THEN Append(index[d][v], i) ELSE index[d][v]]]

AverageZero(es) == \A i \in Id : es[i] # None => es[i].tokens = {}

\* Save: the file is written over whole with what ExportToJson gives.
Save == file' = [torn |-> FALSE, data |-> entries']

AddMemory(i, content, meta) ==
  /\ ops < MaxOps /\ entries[i] = None
  /\ meta.related = {}
  /\ entries' = [entries EXCEPT ![i] = [meta |-> meta, content |-> content,
                                        tokens |-> Tokens(content, meta.title)]]
  /\ tagIndex' = PlusTag(tagIndex, i, meta) /\ dimIndex' = PlusDim(dimIndex, i, meta)
  /\ noLength' = AverageZero(entries')
  /\ Save /\ ops' = ops + 1 /\ UNCHANGED hits

\* Mutant of UpdateMemory: the entry is not taken out of the indexes first.
UpdateMemoryAppends(i, content, meta) ==
  /\ ops < MaxOps /\ entries[i] # None
  /\ entries' = [entries EXCEPT
       ![i] = [meta |-> IF meta = None THEN @.meta ELSE meta, content |-> content,
               tokens |-> Tokens(content, @.meta.title)]]
  /\ tagIndex' = PlusTag(tagIndex, i, entries'[i].meta)
  /\ dimIndex' = PlusDim(dimIndex, i, entries'[i].meta)
  /\ Save /\ ops' = ops + 1 /\ UNCHANGED <<noLength, hits>>

\* UpdateMemory: the words are those of the new text and of the old title, and
\* the average length stays what it was.  Metadata given by a caller names the
\* entry it is for.
UpdateMemory(i, content, meta) ==
  /\ ops < MaxOps /\ entries[i] # None
  /\ entries' = [entries EXCEPT
       ![i] = [meta |-> IF meta = None THEN @.meta ELSE meta, content |-> content,
               tokens |-> Tokens(content, @.meta.title)]]
  /\ tagIndex' = PlusTag(WithoutTag(tagIndex, i), i, entries'[i].meta)
  /\ dimIndex' = PlusDim(WithoutDim(dimIndex, i), i, entries'[i].meta)
  /\ Save /\ ops' = ops + 1 /\ UNCHANGED <<noLength, hits>>

DeleteMemory(i) ==
  /\ ops < MaxOps /\ entries[i] # None
  /\ tagIndex' = WithoutTag(tagIndex, i) /\ dimIndex' = WithoutDim(dimIndex, i)
  /\ entries' = [entries EXCEPT ![i] = None]
  /\ Save /\ ops' = ops + 1 /\ UNCHANGED <<noLength, hits>>

\* ImportFromJson: everything anew, the words included, in the file's order.
ImportFromJson(data, order) ==
  /\ entries' = [i \in Id |->
       IF data[i] = None THEN None
       ELSE [data[i] EXCEPT !.tokens = Tokens(data[i].content, data[i].meta.title)]]
  /\ tagIndex' = [t \in Tag |->
       SelectSeq(order, LAMBDA i : data[i] # None /\ t \in data[i].meta.tags)]
  /\ dimIndex' = [d \in Dim |-> [v \in Value |->
       SelectSeq(order, LAMBDA i : data[i] # None /\ data[i].meta.dims[d] = v)]]
  /\ noLength' = AverageZero(entries')

Orders == {s \in [1 .. Cardinality(Id) -> Id] : \A i \in Id : \E n \in DOMAIN s : s[n] = i}

\* A new process loads the file; one that cannot be parsed counts as none.
Load(order) ==
  /\ ops < MaxOps
  /\ ImportFromJson(IF file.torn THEN [i \in Id |-> None] ELSE file.data, order)
  /\ hits' = {} /\ ops' = ops + 1 /\ UNCHANGED file

\* The process ends while Save has the file open, which is empty by then.
CrashInSave ==
  /\ ops < MaxOps /\ Live # {}
  /\ file' = [torn |-> TRUE, data |-> [i \in Id |-> None]] /\ ops' = ops + 1
  /\ entries' = [i \in Id |-> None] /\ tagIndex' = [t \in Tag |-> <<>>]
  /\ dimIndex' = [d \in Dim |-> [v \in Value |-> <<>>]] /\ noLength' = TRUE /\ hits' = {}

-----------------------------------------------------------------------------

SetOf(s) == {s[n] : n \in DOMAIN s}
Least(m, n) == IF m < n THEN m ELSE n

\* At most Limit of the candidates, none left out that scores more than one
\* taken.
Best(cand, Score(_)) ==
  {S \in SUBSET cand :
     /\ Cardinality(S) = Least(Limit, Cardinality(cand))
     /\ \A i \in S : \A j \in cand \ S : Score(j) <= Score(i)}

Answer(sets) ==
  /\ hits' \in sets
  /\ UNCHANGED <<entries, tagIndex, dimIndex, noLength, file, ops>>

SearchByDimension(d, v) ==
  LET known == SelectSeq(dimIndex[d][v], LAMBDA i : entries[i] # None)
  IN  Answer({SetOf(SubSeq(known, 1, Least(Limit, Len(known))))})

SearchByTags(tags) ==
  LET score(i) == Cardinality({t \in tags : i \in SetOf(tagIndex[t])})
  IN  Answer(Best({i \in Live : score(i) > 0}, score))

\* ScoreBM25 is positive for an entry with a word of the query, unless the
\* average length is zero, which makes every score zero.
Scored(i, query) == IF noLength THEN 0 ELSE Cardinality(query \cap entries[i].tokens)

SearchFullText(query) ==
  Answer(Best({i \in Live : Scored(i, query) > 0}, LAMBDA i : Scored(i, query)))

\* HybridSearch: the entries under any of the dimension filters, or all, that
\* carry any of the tags; those without a word of the query come last.
HybridSearch(query, dims, tags) ==
  LET byDim == IF dims = {} THEN Live
               ELSE UNION {SetOf(dimIndex[f[1]][f[2]]) : f \in dims}
      byTag == IF tags = {} THEN byDim
               ELSE byDim \cap UNION {SetOf(tagIndex[t]) : t \in tags}
  IN  Answer(Best(byTag \cap Live, LAMBDA i : Scored(i, query)))

GetRelatedMemories(i) ==
  /\ entries[i] # None
  /\ Answer(Best(entries[i].meta.related \cap Live, LAMBDA j : 1))

GetTopMemories == Answer(Best(Live, LAMBDA i : entries[i].meta.importance))

Next ==
  \/ \E i \in Id :
       \/ DeleteMemory(i) \/ GetRelatedMemories(i)
       \/ \E content \in SUBSET Word, meta \in Metadata :
            AddMemory(i, content, meta) \/ UpdateMemory(i, content, meta)
       \/ \E content \in SUBSET Word : UpdateMemory(i, content, None)
  \/ \E order \in Orders : Load(order)
  \/ CrashInSave \/ GetTopMemories
  \/ \E d \in Dim, v \in Value : SearchByDimension(d, v)
  \/ \E tags \in SUBSET Tag \ {{}} : SearchByTags(tags)
  \/ \E query \in SUBSET Word : SearchFullText(query)
  \/ \E query \in SUBSET Word, dims \in SUBSET (Dim \X Value), tags \in SUBSET Tag :
       HybridSearch(query, dims, tags)

Spec == Init /\ [][Next]_vars

-----------------------------------------------------------------------------

\* The indexes and the entries agree: a tag, and a value of a dimension, leads
\* to exactly the entries that carry it, to each of them once, after any series
\* of additions, updates that move an entry from one tag to another, deletions,
\* restarts and crashes.
\* (core/structured_memory.cpp, AddMemory, UpdateMemory, DeleteMemory and
\* ImportFromJson, which each keep the indexes by hand.)
IndexesAgree ==
  \A i \in Id :
    /\ \A t \in Tag : Len(SelectSeq(tagIndex[t], LAMBDA j : j = i))
         = IF i \in Live /\ t \in entries[i].meta.tags THEN 1 ELSE 0
    /\ \A d \in Dim, v \in Value : Len(SelectSeq(dimIndex[d][v], LAMBDA j : j = i))
         = IF i \in Live /\ entries[i].meta.dims[d] = v THEN 1 ELSE 0
=============================================================================
