------------------------------- MODULE Skills -------------------------------
(***************************************************************************)
(* The skill loader (skill_loader.cpp): the files of the skill directories *)
(* are read in turn; the frontmatter of each goes line by line through     *)
(* parse_yaml_frontmatter, its requirements are extracted and tested       *)
(* against the machine, and LoadSkills keeps the first skill of each name. *)
(*                                                                         *)
(* A line is its indentation and one of                                    *)
(*   "key"      a key without a value, that a list or a mapping may follow *)
(*   "text"     a key with a word        "inline"  a key with [word]       *)
(*   "item"     - word                   "object"  - key: word             *)
(* The tree that is built maps a path, a sequence of keys and, for an      *)
(* object in a list, of its index, to what is there.                       *)
(***************************************************************************)
EXTENDS Integers, SequencesExt, TLC

CONSTANTS
  KeyOrder,   \* the keys, in the order in which a JSON object is walked
  Word,       \* binaries, variables, names of systems
  Indent,     \* the indentations of the lines, a set of even numbers
  Name,       \* names of skills
  Disabled,   \* the names that the configuration switches off
  Dirs,       \* how many directories are searched
  None,
  MaxLines,   \* bound: lines read
  MaxFiles    \* bound: files read

VARIABLES
  present,    \* the words that the machine has
  doc,        \* the lines of the file that is being read
  tree, ctx, pending,   \* the parser's result, stack, and key without a value
  file,       \* the file being read, or None
  dir,        \* the directory it is in
  loaded,     \* what LoadSkills has accepted
  tested,     \* the file last read, what the machine had, and whether it passed
  lines, files

vars == <<present, doc, tree, ctx, pending, file, dir, loaded, tested, lines, files>>

Key == ToSet(KeyOrder)
Line ==
  [indent: Indent, kind: {"key"}, key: Key]
    \cup [indent: Indent, kind: {"text", "inline", "object"}, key: Key, word: Word]
    \cup [indent: Indent, kind: {"item"}, word: Word]

Object == [kind |-> "object", items |-> << >>]
Text   == [kind |-> "text", items |-> << >>]
List(s) == [kind |-> "list", items |-> s]
Root == << >>

TypeOK ==
  /\ present \subseteq Word
  /\ \A i \in DOMAIN doc : doc[i] \in Line
  /\ \A p \in DOMAIN tree : tree[p].kind \in {"object", "list", "text"}
  /\ \A i \in DOMAIN ctx : ctx[i].path \in DOMAIN tree /\ tree[ctx[i].path].kind = "object"
  /\ pending # None => pending.parent \in DOMAIN tree
  /\ file \in Name \cup {None} /\ dir \in 1 .. Dirs
  /\ \A i \in DOMAIN loaded : loaded[i].name \in Name
  /\ lines \in 0 .. MaxLines /\ files \in 0 .. MaxFiles

-----------------------------------------------------------------------------
(* The parser.                                                             *)

\* Store a value under a path; what was below it goes.
Put(t, path, value) ==
  [p \in {q \in DOMAIN t : ~IsPrefix(path, q)} \cup {path} |->
     IF p = path THEN value ELSE t[p]]

\* The stack after a line of this indentation has closed the deeper ones.
Popped(stack, indent) ==
  LET keep == {n \in DOMAIN stack : n = 1 \/ stack[n].indent <= indent}
  IN  SubSeq(stack, 1, CHOOSE n \in keep : \A m \in keep : m <= n)

\* The list that an item is appended to: of the lists in this object, the one
\* whose key is the last in order.  None when there is no list.
LastList(t, path) ==
  LET ks == {n \in DOMAIN KeyOrder :
               Append(path, KeyOrder[n]) \in DOMAIN t /\ t[Append(path, KeyOrder[n])].kind = "list"}
  IN  IF ks = {} THEN None ELSE Append(path, KeyOrder[CHOOSE n \in ks : \A m \in ks : m <= n])

IsItem(l) == l.kind \in {"item", "object"}

\* The pending key gets a list, a mapping or an empty text, by the line that
\* follows it: the tree and the stack.
Resolved(l) ==
  LET stack == Popped(ctx, l.indent)
      path  == IF pending = None THEN Root ELSE Append(pending.parent, pending.key)
  IN  CASE pending = None -> [tree |-> tree, ctx |-> stack]
        [] pending # None /\ l.indent <= pending.indent ->
             [tree |-> Put(tree, path, Text), ctx |-> stack]
        [] pending # None /\ l.indent > pending.indent /\ IsItem(l) ->
             [tree |-> Put(tree, path, List(<< >>)), ctx |-> stack]
        [] OTHER ->
             [tree |-> Put(tree, path, Object),
              ctx |-> Append(stack, [indent |-> l.indent, path |-> path])]

\* An item: a word is appended, an object is appended and entered.
AddItem(l, r) ==
  LET list == LastList(r.tree, Last(r.ctx).path)
      n    == Len(r.tree[list].items) + 1
      at   == Append(list, ToString(n))
      grown(w) == Put(r.tree, list, List(Append(r.tree[list].items, w)))
      kept(w)  == [p \in DOMAIN r.tree |-> IF p = list THEN grown(w)[list] ELSE r.tree[p]]
  IN  IF list = None THEN r
      ELSE IF l.kind = "item" THEN [r EXCEPT !.tree = kept(l.word)]
      ELSE [tree |-> Put(Put(kept("object"), at, Object), Append(at, l.key), Text),
            ctx  |-> Append(r.ctx, [indent |-> l.indent + 1, path |-> at])]

\* A key with a value.
AddKey(l, r) ==
  [r EXCEPT !.tree = Put(@, Append(Last(r.ctx).path, l.key),
                         IF l.kind = "inline" THEN List(<<l.word>>) ELSE Text)]

-----------------------------------------------------------------------------
(* The requirements and the gate.                                          *)

\* The words of a list at a path; << >> when there is none.
Words(t, path) == IF path \in DOMAIN t THEN t[path].items ELSE << >>

\* get<std::vector<std::string>>() throws on a text and on an object among the
\* words, get<std::string>() on a list or a mapping.
Throws(t, path) ==
  /\ path \in DOMAIN t
  /\ IF path = <<"always">> THEN t[path].kind # "text"
     ELSE t[path].kind # "list" \/ "object" \in ToSet(t[path].items)

\* The keys in the order in which parse_skill_file reads them: what follows
\* one that throws is not read.
Reads == <<<<"always">>, <<"requires", "bins">>, <<"requires", "env">>, <<"requires", "anyBins">>>>

\* Mutant of Extract: only the keys under requires are read.
ExtractNested(t) ==
  [always |-> <<"always">> \in DOMAIN t,
   bins |-> ToSet(Words(t, Reads[2])), env |-> ToSet(Words(t, Reads[3])),
   anyBins |-> ToSet(Words(t, Reads[4]))]

\* always, extract_requires, and its fallback to the keys of the root.
Extract(t) ==
  LET threw   == {n \in DOMAIN Reads : Throws(t, Reads[n])}
      read(n) == \A m \in threw : n < m
      flat(k) == IF threw = {} /\ <<k>> \in DOMAIN t /\ t[<<k>>].kind = "list"
                 THEN Words(t, <<k>>) ELSE << >>
      words(n) == IF read(n) /\ Words(t, Reads[n]) # << >> THEN Words(t, Reads[n])
                  ELSE flat(Reads[n][2])
  IN  [always |-> read(1) /\ <<"always">> \in DOMAIN t,
       bins |-> ToSet(words(2)), env |-> ToSet(words(3)), anyBins |-> ToSet(words(4))]

\* SkillLoader::CheckSkillGating.
CheckSkillGating(need, have) ==
  \/ need.always
  \/ /\ need.bins \subseteq have
     /\ need.anyBins # {} => need.anyBins \cap have # {}
     /\ need.env \subseteq have

-----------------------------------------------------------------------------
(* What the lines mean, as YAML.                                           *)

\* The line that a line belongs to: the last one before it with less
\* indentation; 0 for the top.
Owner(d, i) ==
  LET less == {j \in 1 .. (i - 1) : d[j].indent < d[i].indent}
  IN  IF less = {} THEN 0 ELSE CHOOSE j \in less : \A k \in less : k <= j

Children(d, i) == {j \in DOMAIN d : Owner(d, j) = i}

\* A document in which every line belongs to a key or to an object, the lines
\* that belong to one line are aligned and are all items or all keys, and a
\* mapping has a key once.
WellFormed(d) ==
  \A i \in DOMAIN d :
    LET o == Owner(d, i)
    IN  /\ o = 0 => d[i].indent = 0 /\ ~IsItem(d[i])
        /\ o # 0 => d[o].kind = "key" \/ (d[o].kind = "object" /\ d[i].indent = d[o].indent + 2
                                          /\ ~IsItem(d[i]) /\ d[i].key # d[o].key)
        /\ \A j \in 1 .. (i - 1) : Owner(d, j) = o =>
             /\ d[j].indent = d[i].indent /\ IsItem(d[j]) = IsItem(d[i])
             /\ ~IsItem(d[i]) => d[j].key # d[i].key

\* The key k of the mapping that line i begins (0 for the whole document).
KeyLine(d, i, k) == {j \in Children(d, i) : ~IsItem(d[j]) /\ d[j].key = k}

Listed(d, i, k) ==
  UNION {IF d[j].kind = "inline" THEN {d[j].word} ELSE {d[c].word : c \in Children(d, j)}
           : j \in {n \in KeyLine(d, i, k) : d[n].kind \in {"key", "inline"}}}

\* What a document asks for.
Written(d) ==
  LET req   == KeyLine(d, 0, "requires")
      of(k) == LET nested == UNION {Listed(d, r, k) : r \in req}
               IN  IF nested # {} THEN nested ELSE Listed(d, 0, k)
  IN  [always |-> KeyLine(d, 0, "always") # {},
       bins |-> of("bins"), env |-> of("env"), anyBins |-> of("anyBins")]

\* The keys of requirements are lists of words, and every key has a value.
Plain(d) ==
  \A i \in DOMAIN d :
    /\ d[i].kind = "key" => Children(d, i) # {}
    /\ d[i].kind # "object"
    /\ d[i].kind # "item" =>
         CASE d[i].key = "requires" -> d[i].kind = "key" /\ Owner(d, i) = 0
                                       /\ \A c \in Children(d, i) : ~IsItem(d[c])
           [] d[i].key = "always" -> d[i].kind = "text" /\ Owner(d, i) = 0
           [] OTHER -> /\ d[i].kind \in {"key", "inline"}
                       /\ \A c \in Children(d, i) : IsItem(d[c])

\* No mapping has two lists.
OneListEach(d) ==
  \A i \in 0 .. Len(d) :
    \A j, k \in {c \in Children(d, i) : \/ d[c].kind = "inline"
                                        \/ d[c].kind = "key" /\ \E x \in Children(d, c) : IsItem(d[x])} :
      j = k

-----------------------------------------------------------------------------

Init ==
  /\ present \in SUBSET Word
  /\ doc = << >> /\ tree = [p \in {Root} |-> Object]
  /\ ctx = <<[indent |-> -1, path |-> Root]>> /\ pending = None
  /\ file = None /\ dir = 1 /\ loaded = << >> /\ tested = None /\ lines = 0 /\ files = 0

\* LoadSkillsFromDirectory comes to a file.
OpenFile(name) ==
  /\ file = None /\ files < MaxFiles
  /\ file' = name /\ files' = files + 1 /\ tested' = None
  /\ doc' = << >> /\ tree' = [p \in {Root} |-> Object]
  /\ ctx' = <<[indent |-> -1, path |-> Root]>> /\ pending' = None
  /\ UNCHANGED <<present, dir, loaded, lines>>

\* LoadSkills goes on to the next directory: workspace, user, extra.
NextDirectory ==
  /\ file = None /\ dir < Dirs
  /\ dir' = dir + 1
  /\ UNCHANGED <<present, doc, tree, ctx, pending, file, loaded, tested, lines, files>>

\* One turn of the parser's loop.  Only documents with a meaning are given.
ReadLine(l) ==
  /\ file # None /\ lines < MaxLines
  /\ WellFormed(Append(doc, l))
  /\ doc' = Append(doc, l) /\ lines' = lines + 1
  /\ LET r == Resolved(l)
         s == IF IsItem(l) THEN AddItem(l, r) ELSE IF l.kind = "key" THEN r ELSE AddKey(l, r)
     IN  /\ tree' = s.tree /\ ctx' = s.ctx
         /\ pending' = IF l.kind = "key"
                       THEN [key |-> l.key, indent |-> l.indent, parent |-> Last(s.ctx).path]
                       ELSE None
  /\ UNCHANGED <<present, file, dir, loaded, tested, files>>

\* The tree at the end of the frontmatter.
Parsed == IF pending = None THEN tree
          ELSE Put(tree, Append(pending.parent, pending.key), Text)

\* The end of the file: the gate, and LoadSkills' tests of name and flag.
CloseFile ==
  /\ file # None
  /\ LET passes == CheckSkillGating(Extract(Parsed), present)
     IN  /\ tested' = [doc |-> doc, had |-> present, passed |-> passes]
         /\ loaded' = IF /\ passes /\ file \notin Disabled
                         /\ \A i \in DOMAIN loaded : loaded[i].name # file
                      THEN Append(loaded, [name |-> file, dir |-> dir]) ELSE loaded
  /\ file' = None /\ doc' = << >> /\ tree' = [p \in {Root} |-> Object]
  /\ ctx' = <<[indent |-> -1, path |-> Root]>> /\ pending' = None
  /\ UNCHANGED <<present, dir, lines, files>>

\* `ravbot skills install` looks for the skill among those that passed the
\* gate.
Found(name) == \E i \in DOMAIN loaded : loaded[i].name = name

\* SkillLoader::InstallSkill: one of the skill's install instructions succeeds;
\* when none does, nothing changes.  (skills.install passes a skill without
\* instructions, and changes nothing.)
InstallSkill(name, w) ==
  /\ file = None /\ Found(name)
  /\ present' = present \cup {w} /\ w \notin present
  /\ UNCHANGED <<doc, tree, ctx, pending, file, dir, loaded, tested, lines, files>>

Next ==
  \/ \E n \in Name : OpenFile(n)
  \/ NextDirectory
  \/ \E l \in Line : ReadLine(l)
  \/ CloseFile
  \/ \E n \in Name, w \in Word : InstallSkill(n, w)

Spec == Init /\ [][Next]_vars

-----------------------------------------------------------------------------

\* A skill file whose mappings hold at most one list each passes the gate
\* exactly when the machine has what the file, read as YAML, asks for: nothing
\* is lost or moved by the parser's stack, its pending key and its search for
\* the list that an item belongs to.
\* (skill_loader.cpp, parse_yaml_frontmatter, parse_skill_file, CheckSkillGating.)
GatedAsWritten ==
  tested # None /\ Plain(tested.doc) /\ OneListEach(tested.doc) =>
    tested.passed = CheckSkillGating(Written(tested.doc), tested.had)
=============================================================================
