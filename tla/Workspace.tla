----------------------------- MODULE Workspace -----------------------------
(***************************************************************************)
(* The agent's workspace: the tools that read, write, edit and search its  *)
(* files (tools/tool_registry.cpp), the search index built anew for every  *)
(* search (core/memory_search.cpp), and the watcher and daily notes of the *)
(* memory manager (core/memory_manager.cpp).  Callers run side by side     *)
(* and a file is not locked: it is emptied when it is opened for writing,  *)
(* written afterwards, and an edit reads it before that.                   *)
(* A file is a sequence of lines, a line a word, a line without a word     *)
(* that counts ("-") or a blank one.                                       *)
(***************************************************************************)
EXTENDS Naturals, Sequences, FiniteSets
LOCAL INSTANCE SequencesExt

CONSTANTS
  Caller, Name,
  Watched,   \* the identity files among the names
  Word, Texts,
  MaxWrites, \* bound: writes
  MaxLines,  \* bound: lines of a file that is appended to
  None

VARIABLES
  disk,     \* the lines of each file, or None
  mtime,    \* its time of modification
  call,     \* what each caller is doing
  index,    \* entries_ of the index each caller builds
  watching, seen, announced,  \* watching_, file_mtimes_ and the files reported
  kept,     \* lines appended while nobody was writing over the file
  writes

vars == <<disk, mtime, call, index, watching, seen, announced, kept, writes>>

Blank == "blank"
Line == Word \cup {Blank, "-"}
Idle == [at |-> "idle", file |-> None, text |-> <<>>, visited |-> {}]
Over == {"open", "write", "edit"}

TypeOK ==
  /\ \A n \in Name : disk[n] # None => disk[n] \in Seq(Line)
  /\ \A c \in Caller : call[c].at \in {"idle", "search"} \cup Over
  /\ watching \in BOOLEAN /\ announced \subseteq Watched
  /\ \A n \in Name : kept[n] \subseteq Word /\ mtime[n] \in 0 .. 2 * MaxWrites
  /\ writes \in 0 .. MaxWrites

Init ==
  /\ disk \in [Name -> {None, <<>>}] /\ mtime = [n \in Name |-> 0]
  /\ call = [c \in Caller |-> Idle] /\ index = [c \in Caller |-> {}]
  /\ watching = FALSE /\ seen = [n \in Watched |-> None] /\ announced = {}
  /\ kept = [n \in Name |-> {}] /\ writes = 0

-----------------------------------------------------------------------------

Range0(s) == {s[i] : i \in DOMAIN s}

\* IndexFile, line by line: paragraph is collected and flushed at a blank line
\* and at the end; one without a word is not entered.
flush_paragraph(st) ==
  [st EXCEPT !.paragraph = {}, !.started = FALSE,
     !.out = IF st.paragraph = {} THEN @
             ELSE @ \cup {[line |-> st.para_start, tokens |-> st.paragraph]}]

NextLine(st, line) ==
  LET n == st.line_num + 1
  IN  IF line = Blank
      THEN [flush_paragraph(st) EXCEPT !.line_num = n, !.para_start = n + 1]
      ELSE [st EXCEPT !.line_num = n,
              !.para_start = IF st.started THEN @ ELSE n,
              !.started = TRUE,
              !.paragraph = @ \cup ({line} \cap Word)]

\* Mutant of IndexFile: nothing is flushed at the end of the file.
IndexFileUnflushed(lines) ==
  FoldLeft(NextLine, [line_num |-> 0, para_start |-> 1, started |-> FALSE,
                      paragraph |-> {}, out |-> {}], lines).out

IndexFile(lines) ==
  flush_paragraph(
    FoldLeft(NextLine, [line_num |-> 0, para_start |-> 1, started |-> FALSE,
                        paragraph |-> {}, out |-> {}], lines)).out

-----------------------------------------------------------------------------

Writing(n) == \E c \in Caller : call[c].at \in Over /\ call[c].file = n

\* write_file_tool, and memory_write_tool to overwrite: the file is opened,
\* which empties it, ...
write_file_tool(c, n, text) ==
  /\ call[c] = Idle /\ writes < MaxWrites /\ writes' = writes + 1
  /\ disk' = [disk EXCEPT ![n] = <<>>] /\ mtime' = [mtime EXCEPT ![n] = @ + 1]
  /\ call' = [call EXCEPT ![c] = [at |-> "write", file |-> n, text |-> text, visited |-> {}]]
  /\ kept' = [kept EXCEPT ![n] = {}]
  /\ UNCHANGED <<index, watching, seen, announced>>

\* ... and written at its beginning, over what others appended meanwhile.
flush_write(c) ==
  LET n == call[c].file
      text == call[c].text
  IN  /\ call[c].at = "write"
      /\ disk' = [disk EXCEPT ![n] = text \o SubSeq(@, Len(text) + 1, Len(@))]
      /\ mtime' = [mtime EXCEPT ![n] = @ + 1]
      /\ call' = [call EXCEPT ![c] = Idle]
      /\ kept' = [kept EXCEPT ![n] = {}]
      /\ UNCHANGED <<index, watching, seen, announced, writes>>

\* edit_file_tool reads the whole file and replaces the first occurrence ...
edit_file_tool(c, n, old, new) ==
  LET at == {i \in DOMAIN disk[n] : disk[n][i] = old}
      first == CHOOSE i \in at : \A j \in at : i <= j
  IN  /\ call[c] = Idle /\ disk[n] # None /\ at # {} /\ writes < MaxWrites
      /\ call' = [call EXCEPT ![c] =
           [at |-> "edit", file |-> n, text |-> [disk[n] EXCEPT ![first] = new], visited |-> {}]]
      /\ writes' = writes + 1
      /\ UNCHANGED <<disk, mtime, index, watching, seen, announced, kept>>

\* ... opens the file, and writes as above.
edit_opens(c) ==
  /\ call[c].at = "edit"
  /\ disk' = [disk EXCEPT ![call[c].file] = <<>>]
  /\ mtime' = [mtime EXCEPT ![call[c].file] = @ + 1]
  /\ call' = [call EXCEPT ![c].at = "write"]
  /\ kept' = [kept EXCEPT ![call[c].file] = {}]
  /\ UNCHANGED <<index, watching, seen, announced, writes>>

\* Mutant of Appended: the file is not opened to append.
AppendedOver(n, text) ==
  IF disk[n] = None THEN text ELSE text \o SubSeq(disk[n], Len(text) + 1, Len(disk[n]))

Appended(n, text) == IF disk[n] = None THEN text ELSE disk[n] \o text

\* memory_write_tool to append: one write at the end.
memory_write_append(c, n, text) ==
  /\ call[c] = Idle /\ writes < MaxWrites /\ writes' = writes + 1
  /\ disk[n] # None => Len(disk[n]) + Len(text) <= MaxLines
  /\ disk' = [disk EXCEPT ![n] = Appended(n, text)]
  /\ mtime' = [mtime EXCEPT ![n] = @ + 1]
  /\ kept' = IF Writing(n) THEN kept
             ELSE [kept EXCEPT ![n] = @ \cup (Range0(text) \cap Word)]
  /\ UNCHANGED <<call, index, watching, seen, announced>>

\* SaveDailyMemory appends a heading and the text to the file of the day.
SaveDailyMemory(c, n, text) == n \notin Watched /\ memory_write_append(c, n, <<"-">> \o text)

-----------------------------------------------------------------------------

\* memory_search_tool, memory.search, memory.status: a new index, then one file
\* after the other as it is by then, then the answer.
memory_search_tool(c) ==
  /\ call[c] = Idle
  /\ call' = [call EXCEPT ![c] = [Idle EXCEPT !.at = "search"]]
  /\ index' = [index EXCEPT ![c] = {}]
  /\ UNCHANGED <<disk, mtime, watching, seen, announced, kept, writes>>

IndexDirectory(c, n) ==
  /\ call[c].at = "search" /\ n \notin call[c].visited
  /\ call' = [call EXCEPT ![c].visited = @ \cup {n}]
  /\ index' = [index EXCEPT ![c] =
       IF disk[n] = None THEN @ ELSE @ \cup {[file |-> n] @@ e : e \in IndexFile(disk[n])}]
  /\ UNCHANGED <<disk, mtime, watching, seen, announced, kept, writes>>

\* Search gives the entries with a word of the query, and the index is gone.
Search(c) ==
  /\ call[c].at = "search" /\ call[c].visited = Name
  /\ call' = [call EXCEPT ![c] = Idle] /\ index' = [index EXCEPT ![c] = {}]
  /\ UNCHANGED <<disk, mtime, watching, seen, announced, kept, writes>>

-----------------------------------------------------------------------------

StartFileWatcher ==
  /\ ~watching /\ watching' = TRUE
  /\ seen' = [n \in Watched |-> IF disk[n] = None THEN seen[n] ELSE mtime[n]]
  /\ UNCHANGED <<disk, mtime, call, index, announced, kept, writes>>

\* One round of the watcher's thread looks at each file in turn.
PollFile(n) ==
  /\ watching /\ disk[n] # None /\ seen[n] # mtime[n]
  /\ seen' = [seen EXCEPT ![n] = mtime[n]]
  /\ announced' = announced \cup {n}
  /\ UNCHANGED <<disk, mtime, call, index, watching, kept, writes>>

StopFileWatcher ==
  /\ watching /\ watching' = FALSE
  /\ UNCHANGED <<disk, mtime, call, index, seen, announced, kept, writes>>

Next ==
  \/ \E c \in Caller :
       \/ flush_write(c) \/ edit_opens(c) \/ memory_search_tool(c) \/ Search(c)
       \/ \E n \in Name :
            \/ IndexDirectory(c, n)
            \/ \E old, new \in Line : edit_file_tool(c, n, old, new)
            \/ \E text \in Texts : write_file_tool(c, n, text) \/ memory_write_append(c, n, text)
                                   \/ SaveDailyMemory(c, n, text)
  \/ StartFileWatcher \/ StopFileWatcher \/ \E n \in Watched : PollFile(n)

Spec == Init /\ [][Next]_vars

-----------------------------------------------------------------------------

\* What is appended to a file stays in it until somebody overwrites or edits
\* it: appends from several callers, and searches, do not lose each other's
\* lines.
\* (tools/tool_registry.cpp, memory_write_tool; core/memory_manager.cpp,
\* SaveDailyMemory.)
AppendsKept == \A n \in Name : kept[n] # {} => kept[n] \subseteq Range0(disk[n])

\* The index of a file holds its paragraphs, the longest runs of lines that are
\* not blank, each with its words under the number of its first line: those at
\* the end of the file and those next to several blank lines too.
\* (core/memory_search.cpp, IndexFile, whose loop keeps the open paragraph and
\* its first line by hand.)
ParagraphsIndexed ==
  \A n \in Name : disk[n] # None =>
    LET lines == disk[n]
        run(a, b) == /\ \A i \in a .. b : lines[i] # Blank
                     /\ a > 1 => lines[a - 1] = Blank
                     /\ b < Len(lines) => lines[b + 1] = Blank
        words(a, b) == {lines[i] : i \in a .. b} \cap Word
    IN  IndexFile(lines) =
          {[line |-> p[1], tokens |-> words(p[1], p[2])] :
             p \in {q \in (DOMAIN lines) \X (DOMAIN lines) :
                      q[1] <= q[2] /\ run(q[1], q[2]) /\ words(q[1], q[2]) # {}}}
=============================================================================
