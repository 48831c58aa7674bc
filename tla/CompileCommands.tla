--------------------------- MODULE CompileCommands ---------------------------
(***************************************************************************)
(* compile_commands.json, a copy of what the Makefiles say that every make *)
(* refreshes: the hook in compile_commands.mk runs gen_compile_commands.py *)
(* while the Makefile is parsed, the script dry-runs make in one directory *)
(* after the other and replaces the file if it differs.  Nothing keeps two *)
(* makes apart, Makefiles change and break while a script runs, and a      *)
(* script is killed with its make.                                         *)
(***************************************************************************)
EXTENDS Integers, Sequences, FiniteSets, SequencesExt

CONSTANTS Proc,      \* terminals in which make is run
          Dir,       \* directories with a Makefile: numbers in the order of their paths
          Printed,   \* Printed[d][v]: the command lines version v of d's Makefile prints
          HasAll,    \* HasAll[d]: whether it has a target "all"
          EDITS, FAULTS, KILLS, MAKES   \* bounds on how often each of these happens

\* A word of a command line is told apart by its kind: the compiler, a source, "-o",
\* "-ofile", a -l or -L flag, anything else (-lineinfo too).  The name of a source is
\* that of the file its path resolves to.
Token == [kind : {"compiler", "source", "-o", "-ofile", "link", "other"}, name : STRING]

\* What the file has of a source.
EntryType == [directory : Dir, file : STRING, arguments : Seq(Token)]

ASSUME DatabaseAssumption ==
  /\ IsFiniteSet(Dir) /\ Dir # {} /\ Dir = 1 .. Cardinality(Dir)
  /\ EDITS \in Nat /\ FAULTS \in Nat /\ KILLS \in Nat /\ MAKES \in Nat
  /\ HasAll \in [Dir -> BOOLEAN]
  /\ Printed \in [Dir -> [0 .. EDITS -> Seq(Seq(Token))]]

VARIABLES version,  \* of each Makefile
          health,   \* of each Makefile: "fine", "broken" (make fails) or "hangs", in both calls of make alike
          file,     \* the entries in compile_commands.json; none if there is no file
          pc,       \* what each terminal's make is doing
          dir,      \* the directory its script is at
          entries,  \* the entries its script has
          alone,    \* history: nothing disturbed the script since it started
          faults, kills, makes

local == <<dir, entries>>
world == <<version, health, faults>>
vars == <<world, file, pc, local, alone, kills, makes>>

Init ==
  /\ version = [d \in Dir |-> 0]
  /\ health = [d \in Dir |-> "fine"]
  /\ file = <<>>
  /\ pc = [p \in Proc |-> "idle"]
  /\ dir = [p \in Proc |-> 1]
  /\ entries = [p \in Proc |-> <<>>]
  /\ alone = [p \in Proc |-> FALSE]
  /\ faults = 0 /\ kills = 0 /\ makes = 0

(***************************************************************************)
(* parse_command.                                                          *)
(***************************************************************************)
\* Mutant: what follows -o is kept.
ParsedWithOutput(tokens) ==
  LET rest == SelectSeq(Tail(tokens), LAMBDA t : t.kind \notin {"-o", "-ofile", "link"})
      sources == SelectSeq(rest, LAMBDA t : t.kind = "source")
  IN [source |-> IF sources = <<>> THEN <<>> ELSE <<Last(sources).name>>, arguments |-> rest]

\* What the words behind the compiler say: the last source, if there is one, and the
\* arguments.
Parsed(tokens) ==
  LET from[i \in 2 .. Len(tokens) + 2] ==
        IF i > Len(tokens) THEN [source |-> <<>>, arguments |-> <<>>]
        ELSE LET token == tokens[i]
                 rest == from[i + 1]
             IN CASE token.kind = "-o"                  -> from[i + 2]
                  [] token.kind \in {"-ofile", "link"}  -> rest
                  [] OTHER ->
                       [source    |-> IF token.kind = "source" /\ rest.source = <<>>
                                      THEN <<token.name>> ELSE rest.source,
                        arguments |-> <<token>> \o rest.arguments]
  IN from[2]

\* The entry of a line, if it compiles something.
parse_command(d, tokens) ==
  IF tokens = <<>> \/ tokens[1].kind # "compiler" \/ Parsed(tokens).source = <<>> THEN <<>>
  ELSE <<[directory |-> d, file |-> Parsed(tokens).source[1],
          arguments |-> <<tokens[1]>> \o Parsed(tokens).arguments]>>

\* What the lines of each directory yield.
Found == [d \in Dir |-> [v \in 0 .. EDITS |->
            [i \in DOMAIN Printed[d][v] |-> parse_command(d, Printed[d][v][i])]]]

\* A line yields an entry for a file that is not seen so far.
Fresh(es, yield) == yield # <<>> /\ \A k \in DOMAIN es : es[k].file # yield[1].file

\* The entries so far and the fresh ones of a directory's lines.
Collect(have, found) ==
  LET after[i \in 0 .. Len(found)] ==
        IF i = 0 THEN have
        ELSE LET es == after[i - 1] IN IF Fresh(es, found[i]) THEN es \o found[i] ELSE es
  IN after[Len(found)]

(***************************************************************************)
(* The script.  A make of the user runs it at parse time; the makes the    *)
(* script starts, those within a make and dry runs do not.                 *)
(***************************************************************************)
Running(p) == pc[p] \in {"scan", "retry", "compare", "write", "store"}

\* GUARD_ENV is set in the environment of the makes the script starts.
HookRuns(env) == ~env.guarded /\ env.level = 0 /\ ~env.dry_run

Make(p) ==
  /\ ~Running(p) /\ makes < MAKES
  /\ makes' = makes + 1
  /\ \E env \in [guarded : {FALSE}, level : 0 .. 1, dry_run : BOOLEAN] :
       IF HookRuns(env)
       THEN /\ pc' = [pc EXCEPT ![p] = "scan"]
            /\ alone' = [q \in Proc |-> q = p /\ \A r \in Proc : ~Running(r)]
       ELSE /\ pc' = [pc EXCEPT ![p] = "build"]
            /\ alone' = [alone EXCEPT ![p] = FALSE]
  /\ UNCHANGED <<world, file, local, kills>>

\* Mutant: the next script starts with what this one had.
LeaveKeeping(p, how) == pc' = [pc EXCEPT ![p] = how] /\ UNCHANGED local

\* The script is over, and what it had is gone.
Leave(p, how) ==
  /\ pc' = [pc EXCEPT ![p] = how]
  /\ dir' = [dir EXCEPT ![p] = 1]
  /\ entries' = [entries EXCEPT ![p] = <<>>]

\* On to the next directory with what the lines yield that this one printed.
Advance(p, found) ==
  /\ entries' = [entries EXCEPT ![p] = Collect(@, found)]
  /\ dir' = [dir EXCEPT ![p] = @ + 1]
  /\ pc' = [pc EXCEPT ![p] = IF dir[p] = Cardinality(Dir) THEN "compare" ELSE "scan"]

\* `make -B -n all`: its lines; or it fails, and the script tries without "all".
DryRun(p) ==
  /\ pc[p] = "scan" /\ health[dir[p]] # "hangs"
  /\ IF health[dir[p]] = "fine" /\ HasAll[dir[p]]
     THEN Advance(p, Found[dir[p]][version[dir[p]]])
     ELSE pc' = [pc EXCEPT ![p] = "retry"] /\ UNCHANGED local
  /\ UNCHANGED <<world, file, alone, kills, makes>>

\* `make -B -n`: a directory where this fails too has no lines.
Retry(p) ==
  /\ pc[p] = "retry" /\ health[dir[p]] # "hangs"
  /\ Advance(p, IF health[dir[p]] = "fine" THEN Found[dir[p]][version[dir[p]]] ELSE <<>>)
  /\ UNCHANGED <<world, file, alone, kills, makes>>

\* Mutant: the call has no timeout.
NoTimeout(p) == FALSE /\ UNCHANGED vars

\* 120 seconds are over.  In the first call that is caught; in the second the
\* exception ends the script, and `|| true` lets make go on.
Timeout(p) ==
  /\ pc[p] \in {"scan", "retry"} /\ health[dir[p]] = "hangs"
  /\ IF pc[p] = "scan"
     THEN Advance(p, <<>>)
     ELSE Leave(p, "build")
  /\ UNCHANGED <<world, file, alone, kills, makes>>

\* Mutant: the file is always written.
CompareNever(p) ==
  /\ pc[p] = "compare"
  /\ IF entries[p] = <<>>
     THEN Leave(p, "build")
     ELSE pc' = [pc EXCEPT ![p] = "write"] /\ UNCHANGED local
  /\ UNCHANGED <<world, file, alone, kills, makes>>

\* A script with no entries gives up, one with the entries of the file is done.
\* A torn file is text that differs: paths and flags are taken to be ASCII, so that
\* read_text never meets half a character.
Compare(p) ==
  /\ pc[p] = "compare"
  /\ IF entries[p] \in {<<>>, file}
     THEN Leave(p, "build")
     ELSE pc' = [pc EXCEPT ![p] = "write"] /\ UNCHANGED local
  /\ UNCHANGED <<world, file, alone, kills, makes>>

\* write_text opens the file, which empties it, ...
Truncate(p) ==
  /\ pc[p] = "write"
  /\ file' = <<>>
  /\ pc' = [pc EXCEPT ![p] = "store"]
  /\ UNCHANGED <<world, local, alone, kills, makes>>

\* ... and writes from its beginning.  What another script wrote in the meantime
\* shows behind the end.
Store(p) ==
  /\ pc[p] = "store"
  /\ file' = entries[p] \o SubSeq(file, Len(entries[p]) + 1, Len(file))
  /\ Leave(p, "build")
  /\ UNCHANGED <<world, alone, kills, makes>>

ScriptStep(p) ==
  DryRun(p) \/ Retry(p) \/ Timeout(p) \/ Compare(p) \/ Truncate(p) \/ Store(p)

\* The user interrupts make, which takes the script with it.
Kill(p) ==
  /\ Running(p) /\ kills < KILLS
  /\ kills' = kills + 1
  /\ Leave(p, "killed")
  /\ UNCHANGED <<world, file, alone, makes>>

Disturb == alone' = [p \in Proc |-> FALSE] /\ UNCHANGED <<file, pc, local, kills, makes>>

\* The user edits a Makefile, which also repairs it, ...
Edit(d) ==
  /\ version[d] < EDITS
  /\ version' = [version EXCEPT ![d] = @ + 1]
  /\ health' = [health EXCEPT ![d] = "fine"]
  /\ UNCHANGED faults
  /\ Disturb

\* ... or breaks it.
Break(d) ==
  /\ faults < FAULTS
  /\ faults' = faults + 1
  /\ \E h \in {"broken", "hangs"} : health' = [health EXCEPT ![d] = h]
  /\ UNCHANGED version
  /\ Disturb

Next ==
  \/ \E p \in Proc : Make(p) \/ ScriptStep(p) \/ Kill(p)
  \/ \E d \in Dir : Edit(d) \/ Break(d)

Spec == Init /\ [][Next]_vars /\ \A p \in Proc : WF_vars(ScriptStep(p))

(***************************************************************************)
(* Properties.                                                             *)
(***************************************************************************)

\* The shape of every variable; nothing of a script outlives it, main starts from
\* nothing.
TypeOK ==
  /\ version \in [Dir -> 0 .. EDITS]
  /\ health \in [Dir -> {"fine", "broken", "hangs"}]
  /\ file \in Seq(EntryType)
  /\ pc \in [Proc -> {"idle", "scan", "retry", "compare", "write", "store", "build", "killed"}]
  /\ dir \in [Proc -> 1 .. Cardinality(Dir) + 1]
  /\ entries \in [Proc -> Seq(EntryType)]
  /\ alone \in [Proc -> BOOLEAN]
  /\ \A p \in Proc : ~Running(p) => dir[p] = 1 /\ entries[p] = <<>>

\* Whether word k of a line is the name of its output: it follows a -o that is not
\* itself a name.
OutputName(tokens) ==
  LET named[k \in 0 .. Len(tokens)] == k > 1 /\ tokens[k - 1].kind = "-o" /\ ~named[k - 1] IN named

\* The words that tell how a line compiles: not what names its output or is for the linker.
Telling(tokens) ==
  {k \in DOMAIN tokens :
     k = 1 \/ (tokens[k].kind \notin {"-o", "-ofile", "link"} /\ ~OutputName(tokens)[k])}
TellingSources(tokens) == {k \in Telling(tokens) : tokens[k].kind = "source"}

\* These words in their order.
Words(tokens) ==
  LET upto[k \in 0 .. Len(tokens)] ==
        IF k = 0 THEN <<>>
        ELSE IF k \in Telling(tokens) THEN Append(upto[k - 1], tokens[k]) ELSE upto[k - 1]
  IN upto[Len(tokens)]

\* A line that compiles something, and what an entry of directory d says of it: of several
\* sources the last.
Compiles(tokens) == tokens # <<>> /\ tokens[1].kind = "compiler" /\ TellingSources(tokens) # {}
Meant(d, tokens) ==
  [directory |-> d, file |-> tokens[Max(TellingSources(tokens))].name, arguments |-> Words(tokens)]

\* The places of the lines that compile something, in Makefiles that work.
Line(at) == Printed[at[1]][version[at[1]]][at[2]]
Lines == UNION {{d} \X DOMAIN Printed[d][version[d]] : d \in {e \in Dir : health[e] = "fine"}}
Commands == {at \in Lines : Compiles(Line(at))}
EntryOf(at) == Meant(at[1], Line(at))
FileOf(at) == EntryOf(at).file

\* For each source the first command that compiles it.
EarlierThan(a, b) == a[1] < b[1] \/ (a[1] = b[1] /\ a[2] < b[2])
FirstCommands ==
  {at \in Commands : \A b \in Commands : EarlierThan(b, at) => FileOf(b) # FileOf(at)}

\* es has the entries of these commands, in their order, and no others.
Lists(es, commands) ==
  /\ \A i \in DOMAIN es : \E at \in commands : es[i] = EntryOf(at)
  /\ \A at \in commands : \E i \in DOMAIN es : es[i] = EntryOf(at)
  /\ \A i, j \in DOMAIN es : \A a, b \in commands :
       i < j /\ es[i] = EntryOf(a) /\ es[j] = EntryOf(b) => EarlierThan(a, b)

\* The file has, for each source the working Makefiles compile, its first command, and
\* no second entry for it.
UpToDate == Lists(file, FirstCommands)

\* A make that nothing disturbs leaves the file up to date, whatever others left
\* there: an old version, two versions mixed, or nothing.  Only if no Makefile
\* compiles anything does the file stay as it was.
RefreshedByMake ==
  \A p \in Proc : pc[p] = "build" /\ alone[p] /\ FirstCommands # {} => UpToDate

\* A make that nothing disturbs does not touch a file that is up to date, so that the
\* editor does not read it again, and never replaces it by nothing.
UntouchedIfUpToDate ==
  [][\A p \in Proc : alone[p] /\ pc[p] = "write" /\ pc'[p] = "store" =>
       ~UpToDate /\ FirstCommands # {}]_vars

\* No directory can keep make from building: the script comes to an end even
\* where the make it runs does not.
MakeGoesOn == \A p \in Proc : Running(p) ~> ~Running(p)
=============================================================================
