---------------------------- MODULE Maintenance ----------------------------
(***************************************************************************)
(* Maintenance of the session files (session/session_maintenance.cpp): a   *)
(* sweep removes what is old, what is too many and what is too much, and   *)
(* moves transcripts that are too large to archives beside them.           *)
(* Sessions append to their transcripts between sweeps.                    *)
(***************************************************************************)
EXTENDS Naturals, Sequences, FiniteSets
LOCAL INSTANCE FiniteSetsExt

CONSTANTS
  Session,   \* transcripts
  Configs,   \* settings (mode, pruneAfter, maxEntries, rotateBytes, maxDiskBytes, sweepInterval)
  MaxSize, MaxTime, MaxFiles, MaxName,  \* bounds; MaxName - 1 times archived
  None

VARIABLES
  files,      \* the files of the sessions directory
  settings,   \* config_
  now,
  last_sweep  \* last_sweep_, None at first

vars == <<files, settings, now, last_sweep>>

\* A name is that of a session, or "store" for sessions.json, followed by the
\* times at which the file was archived.
SessionFile(f) == f.name[1] \in Session \cup {"store"}
Transcript(f) == f.name[1] \in Session

TypeOK ==
  /\ \A f \in files : Len(f.name) >= 1 /\ f.mtime \in 0 .. MaxTime /\ f.size \in 0 .. MaxSize
  /\ \A f, g \in files : f.name = g.name => f = g
  /\ settings \in Configs /\ now \in 0 .. MaxTime /\ last_sweep \in 0 .. MaxTime \cup {None}

Init ==
  /\ files = {} /\ settings \in Configs /\ now = 0 /\ last_sweep = None

-----------------------------------------------------------------------------

Size(fs) == MapThenSumSet(LAMBDA f : f.size, fs)

\* get_session_files sorts by time: a set taken from the front of the list, in
\* whatever order files of one time come.
\* Mutant of FrontOf: the newest come first.
NewestOf(fs) == {S \in SUBSET fs : \A f \in S : \A g \in fs \ S : f.mtime >= g.mtime}

FrontOf(fs) == {S \in SUBSET fs : \A f \in S : \A g \in fs \ S : f.mtime <= g.mtime}

Listed(fs) == {f \in fs : SessionFile(f)}

prune_old_sessions(fs) ==
  IF settings.prune = 0 \/ settings.warn THEN {fs}
  ELSE {fs \ {f \in Listed(fs) : f.mtime + settings.prune < now}}

enforce_max_entries(fs) ==
  IF settings.entries = 0 \/ settings.warn \/ Cardinality(Listed(fs)) <= settings.entries
  THEN {fs}
  ELSE {fs \ S : S \in {T \in FrontOf(Listed(fs)) :
                         Cardinality(T) = Cardinality(Listed(fs)) - settings.entries}}

\* archive_file moves the file, over an archive of the same second; then a new
\* empty file is made in its place.  The rename keeps the time.
Archived(fs, f) ==
  LET name == Append(f.name, now)
  IN  {g \in fs : g.name \notin {f.name, name}}
        \cup {[f EXCEPT !.name = name], [f EXCEPT !.size = 0, !.mtime = now]}

\* rotate_large_files goes through the directory while it changes: an archive it
\* has just made may come up again, and archives of earlier sweeps do.
Large(fs) == {f \in fs : Transcript(f) /\ f.size > settings.rotate}

RotateEach(fs, large) == FoldSet(LAMBDA f, acc : Archived(acc, f), fs, large)

rotate_large_files(fs) ==
  IF settings.rotate = 0 \/ settings.warn THEN {fs}
  ELSE LET once == RotateEach(fs, Large(fs))
       IN  {once, RotateEach(once, Large(once))}

\* enforce_disk_limit: from the front until the total, of all files, is within
\* the limit; the last one taken was still needed.
enforce_disk_limit(fs) ==
  LET max == settings.disk
      enough(S) == /\ S # {} => \E f \in S : /\ \A g \in S : g.mtime <= f.mtime
                                             /\ Size(fs \ (S \ {f})) > max
                   /\ Size(fs \ S) <= max \/ S = Listed(fs)
  IN  IF max = 0 \/ settings.warn THEN {fs}
      ELSE {fs \ S : S \in {T \in FrontOf(Listed(fs)) : enough(T)}}

Sweep(force) ==
  /\ ~force /\ last_sweep # None => now - last_sweep >= settings.interval
  /\ last_sweep' = now
  /\ \E a \in prune_old_sessions(files) : \E b \in enforce_max_entries(a) :
       \E c \in rotate_large_files(b) : files' \in enforce_disk_limit(c)
  /\ Cardinality(files') <= MaxFiles /\ \A f \in files' : Len(f.name) <= MaxName
  /\ UNCHANGED <<settings, now>>

Configure(c) ==
  /\ c # settings /\ settings' = c /\ UNCHANGED <<files, now, last_sweep>>

\* A session appends to its transcript, and the store is saved.
AppendMessage(s) ==
  LET was == {f \in files : f.name = <<s>>}
      old == {f \in files : f.name = <<"store">>}
  IN  /\ Size(was) < MaxSize /\ Cardinality(files) < MaxFiles
      /\ files' = (files \ (was \cup old))
           \cup {[name |-> <<s>>, mtime |-> now, size |-> Size(was) + 1],
                 [name |-> <<"store">>, mtime |-> now, size |-> 1]}
      /\ UNCHANGED <<settings, now, last_sweep>>

\* Other files that lie in the directory.
OtherFile ==
  /\ Cardinality(files) < MaxFiles /\ \A f \in files : f.name # <<"other">>
  /\ files' = files \cup {[name |-> <<"other">>, mtime |-> now, size |-> 1]}
  /\ UNCHANGED <<settings, now, last_sweep>>

Tick == now < MaxTime /\ now' = now + 1 /\ UNCHANGED <<files, settings, last_sweep>>

Next ==
  \/ \E force \in BOOLEAN : Sweep(force)
  \/ \E c \in Configs : Configure(c)
  \/ \E s \in Session : AppendMessage(s)
  \/ OtherFile \/ Tick

Spec == Init /\ [][Next]_vars

-----------------------------------------------------------------------------

\* A sweep removes the older session files first: none that it leaves alone is
\* older than one that it removes, although it goes through the directory four
\* times and moves files between the third time and the fourth.
\* (session/session_maintenance.cpp, Sweep and get_session_files.)
OlderRemoved ==
  \A f \in files \cap files' : \A g \in files :
    SessionFile(f) /\ (\A h \in files' : h.name # g.name) => f.mtime >= g.mtime
=============================================================================
