----------------------------- MODULE ConfigFile -----------------------------
(***************************************************************************)
(* The configuration file (core/config.cpp) and who follows it.  Writers,  *)
(* the commands of the CLI and the handler of config.set, each read the    *)
(* file, change one path and write the whole back in place, with a backup  *)
(* before and a reload of the gateway after, and without a lock; a writer  *)
(* may die between any two steps.  The gateway (gateway_commands.cpp)      *)
(* loads the file when it starts and has a thread that polls the time of   *)
(* its last change.                                                        *)
(* A configuration is a function from the paths that are present to values *)
(* and Obj, with every prefix of a path that is present.  Comments are lost*)
(* with the first write.  Every change of the file gives it a new time.    *)
(***************************************************************************)
EXTENDS Naturals, Functions, SequencesExt

CONSTANTS
  Writer,     \* the processes and threads that change the file
  Path,       \* the paths they change, sequences of names
  Value,      \* the values they set
  None, Torn, \* no file; a file that does not parse
  Env,        \* what each value is once its ${VAR} references are expanded
  MaxWrites   \* bound: calls of SetValue and UnsetValue

VARIABLES
  file,     \* Torn, None, or the configuration in it
  bak,      \* the file .bak
  mtime,    \* last_write_time of file
  op,       \* each writer's call, and the reload that it asks for
  running,  \* config of the gateway: expanded
  gw,       \* "down", "starting" or "up"
  watch,    \* the config watcher, with config_mtime
  writes,
  last,     \* history: what was last in the file as a whole
  mixed,    \* history: two calls have overlapped
  crossed   \* history: two reloads have overlapped, or the file changed while
            \* the gateway was starting

vars == <<file, bak, mtime, op, running, gw, watch, writes, last, mixed, crossed>>

Obj == "object"
Empty == [p \in {} |-> Obj]

Idle == [at |-> "idle", root |-> None]

Above(p) == {q \in Prefixes(p) : q # << >> /\ q # p}
Present == Path \cup UNION {Above(p) : p \in Path}
Config == UNION {[S -> Value \cup {Obj}] : S \in SUBSET Present}

TypeOK ==
  /\ file \in Config \cup {None, Torn} /\ bak \in Config \cup {None, Torn}
  /\ last \in Config \cup {None}
  /\ mtime \in Nat /\ writes \in 0 .. MaxWrites
  /\ op \in [Writer -> [at: {"idle", "backup", "open", "write", "load", "assign"},
                        root: Config \cup {None}]]
  /\ DOMAIN running \subseteq Present
  /\ gw \in {"down", "starting", "up"}
  /\ watch.at \in {"asleep", "load", "assign", "done"}
  /\ watch.seen \in Nat /\ watch.current \in Nat
  /\ mixed \in BOOLEAN /\ crossed \in BOOLEAN

Whole(f) == f \notin {None, Torn}

-----------------------------------------------------------------------------
\* The tree.

\* What is above the path becomes an object if it is none, and what was below
\* or at the path goes.
Put(c, p, v) ==
  [q \in {q \in DOMAIN c : ~IsPrefix(p, q)} \cup Above(p) \cup {p} |->
     IF q = p THEN v ELSE IF q \in Above(p) THEN Obj ELSE c[q]]

Reaches(c, p) == \A q \in Above(p) : q \in DOMAIN c /\ c[q] = Obj

Erase(c, p) == Restrict(c, {q \in DOMAIN c : ~IsPrefix(p, q)})

\* expand_env_in_json: the file keeps the references, the gateway their values.
Expanded(c) == [q \in DOMAIN c |-> IF c[q] = Obj THEN Obj ELSE Env[c[q]]]

-----------------------------------------------------------------------------

Init ==
  /\ file \in {None, Empty} /\ bak = None /\ mtime = 0
  /\ op = [w \in Writer |-> Idle]
  /\ running = Empty /\ gw = "down"
  /\ watch = [at |-> "asleep", seen |-> 0, current |-> 0, got |-> None]
  /\ writes = 0 /\ last = file /\ mixed = FALSE /\ crossed = FALSE

Changing(w) == op[w].at \in {"backup", "open", "write"}
Loading == {w \in Writer : op[w].at = "assign"}

\* SetValue, up to the call of write_json_file.  A file that does not parse
\* makes read_json_file throw, and nothing is done.
SetValue(w, p, v) ==
  /\ op[w].at = "idle" /\ writes < MaxWrites /\ file # Torn
  /\ writes' = writes + 1
  /\ op' = [op EXCEPT ![w] = [at |-> "backup",
                              root |-> Put(IF file = None THEN Empty ELSE file, p, v)]]
  /\ mixed' = (mixed \/ \E x \in Writer : Changing(x))
  /\ UNCHANGED <<file, bak, mtime, running, gw, watch, last, crossed>>

\* UnsetValue: a path that does not exist is left alone, and the gateway is
\* asked to reload all the same.
UnsetValue(w, p) ==
  LET c == IF file = None THEN Empty ELSE file
  IN  /\ op[w].at = "idle" /\ writes < MaxWrites /\ file # Torn
      /\ writes' = writes + 1
      /\ op' = [op EXCEPT ![w] = IF Reaches(c, p) THEN [at |-> "backup", root |-> Erase(c, p)]
                                                  ELSE [at |-> "load", root |-> None]]
      /\ mixed' = (mixed \/ \E x \in Writer : Changing(x))
      /\ UNCHANGED <<file, bak, mtime, running, gw, watch, last, crossed>>

\* write_json_file: the copy, the opening that truncates, the writing.
Backup(w) ==
  /\ op[w].at = "backup"
  /\ bak' = IF file = None THEN bak ELSE file
  /\ op' = [op EXCEPT ![w].at = "open"]
  /\ UNCHANGED <<file, mtime, running, gw, watch, writes, last, mixed, crossed>>

Open(w) ==
  /\ op[w].at = "open"
  /\ file' = Torn /\ mtime' = mtime + 1
  /\ op' = [op EXCEPT ![w].at = "write"]
  /\ UNCHANGED <<bak, running, gw, watch, writes, last, mixed, crossed>>

\* If another has written since the file was opened, the end of its text may
\* stay behind this one.
Write(w) ==
  /\ op[w].at = "write"
  /\ file' \in {op[w].root} \cup IF file = Torn THEN {} ELSE {Torn}
  /\ mtime' = mtime + 1
  /\ last' = IF Whole(file') THEN file' ELSE last
  /\ op' = [op EXCEPT ![w] = [at |-> "load", root |-> None]]
  /\ UNCHANGED <<bak, running, gw, watch, writes, mixed, crossed>>

\* The writer, or the whole process it is in, dies.
Die(w) ==
  /\ Changing(w)
  /\ op' = [op EXCEPT ![w] = Idle]
  /\ UNCHANGED <<file, bak, mtime, running, gw, watch, writes, last, mixed, crossed>>

\* The user puts the backup in the place of a file that does not parse.
Restore ==
  /\ file = Torn /\ Whole(bak) /\ \A w \in Writer : ~Changing(w)
  /\ file' = bak /\ last' = bak /\ mtime' = mtime + 1
  /\ UNCHANGED <<bak, op, running, gw, watch, writes, mixed, crossed>>

-----------------------------------------------------------------------------
\* The gateway.

\* reload_fn for a writer: LoadFromFile returns, or throws, is logged and
\* leaves the configuration as it was.  A gateway that is starting may or may
\* not listen yet.
Reload(w) ==
  /\ op[w].at = "load"
  /\ \/ /\ gw # "down" /\ Whole(file)
        /\ op' = [op EXCEPT ![w] = [at |-> "assign", root |-> file]]
        /\ crossed' = (crossed \/ Loading # {} \/ watch.at = "assign")
     \/ /\ gw # "up" \/ ~Whole(file)
        /\ op' = [op EXCEPT ![w] = Idle] /\ UNCHANGED crossed
  /\ UNCHANGED <<file, bak, mtime, running, gw, watch, writes, last, mixed>>

Assign(w) ==
  /\ op[w].at = "assign"
  /\ running' = Expanded(op[w].root)
  /\ op' = [op EXCEPT ![w] = Idle]
  /\ UNCHANGED <<file, bak, mtime, gw, watch, writes, last, mixed, crossed>>

\* ForegroundCommand: the configuration is the first thing it loads, ...
Start ==
  /\ gw = "down"
  /\ gw' = "starting"
  /\ running' = IF Whole(file) THEN Expanded(file) ELSE Empty
  /\ watch' = [watch EXCEPT !.current = mtime]
  /\ UNCHANGED <<file, bak, mtime, op, writes, last, mixed, crossed>>

\* ... and the time of its change, which the watcher compares, one of the last.
\* If there is no file yet, config_mtime stays what it is, older than any.
StartWatcher ==
  /\ gw = "starting"
  /\ gw' = "up"
  /\ watch' = [watch EXCEPT !.seen = mtime]
  /\ crossed' = (crossed \/ mtime # watch.current)
  /\ UNCHANGED <<file, bak, mtime, op, running, writes, last, mixed>>

Poll ==
  /\ gw = "up" /\ watch.at = "asleep" /\ file # None /\ mtime # watch.seen
  /\ watch' = [watch EXCEPT !.at = "load", !.current = mtime]
  /\ UNCHANGED <<file, bak, mtime, op, running, gw, writes, last, mixed, crossed>>

WatcherLoads ==
  /\ watch.at = "load"
  /\ watch' = [watch EXCEPT !.at = IF Whole(file) THEN "assign" ELSE "done",
                            !.got = IF Whole(file) THEN file ELSE None]
  /\ crossed' = (crossed \/ Loading # {})
  /\ UNCHANGED <<file, bak, mtime, op, running, gw, writes, last, mixed>>

WatcherAssigns ==
  /\ watch.at = "assign"
  /\ running' = Expanded(watch.got)
  /\ watch' = [watch EXCEPT !.at = "done", !.got = None]
  /\ UNCHANGED <<file, bak, mtime, op, gw, writes, last, mixed, crossed>>

WatcherDone ==
  /\ watch.at = "done"
  /\ watch' = [watch EXCEPT !.at = "asleep", !.seen = watch.current]
  /\ UNCHANGED <<file, bak, mtime, op, running, gw, writes, last, mixed, crossed>>

\* The commands "config set" and "config unset", and config.set: the change of
\* the file, then the reload.
ConfigSet(w) == \E p \in Path, v \in Value : SetValue(w, p, v)
ConfigUnset(w) == \E p \in Path : UnsetValue(w, p)

Next ==
  \/ \E w \in Writer :
       \/ ConfigSet(w) \/ ConfigUnset(w)
       \/ Backup(w) \/ Open(w) \/ Write(w) \/ Die(w) \/ Reload(w) \/ Assign(w)
  \/ Restore
  \/ Start \/ StartWatcher \/ Poll \/ WatcherLoads \/ WatcherAssigns \/ WatcherDone

Spec == Init /\ [][Next]_vars

-----------------------------------------------------------------------------

\* A file that a dead writer left half written has a backup with all that was in
\* it, whatever is tried afterwards, if no two writers overlapped: a file that
\* does not parse is never copied over the backup.
\* (core/config.cpp, read_json_file and write_json_file.)
FileOrBackup == file = Torn /\ ~mixed => bak = last

\* A gateway whose watcher sees nothing new runs the configuration of the file,
\* unless two reloads overlapped or the file changed while the gateway was
\* starting: a half-written file is read again when it is whole.
\* (cli/gateway_commands.cpp, reload_fn and config_watcher.)
FollowsFile ==
  /\ gw = "up" /\ watch.at = "asleep" /\ watch.seen = mtime
  /\ Whole(file) /\ Loading = {} /\ ~crossed
  => running = Expanded(file)

=============================================================================
