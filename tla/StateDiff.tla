----------------------------- MODULE StateDiff -----------------------------
(***************************************************************************)
(* `federation state-diff` (rezzy-cli/src/federation/state_diff.rs): state *)
(* and auth-chain ids of one event as several servers report them, compared*)
(* with what is held locally and with each other, and fetched on request.  *)
(*                                                                         *)
(* A destination is a sequence of characters; file_stem replaces ":" by    *)
(* "_".  The file names are tuples of their parts, except that the stem of *)
(* a comparison is one string again.                                       *)
(***************************************************************************)
EXTENDS Naturals, SequencesExt, FiniteSets

CONSTANTS
    Commands,   \* [destinations, fetch, known_file]: known_file is the path of --known
    Known,      \* the ids in that file
    Deep,       \* the ids in it that lie below --max-depth
    Answers     \* what a server may answer: {} or {[state, auth_chain]}

VARIABLES
    command, pc, answers, files, asked

vars == <<command, pc, answers, files, asked>>

file_stem(d) == [i \in DOMAIN d |-> IF d[i] = ":" THEN "_" ELSE d[i]]
pair_stem(a, b) == file_stem(a) \o <<"__vs__">> \o file_stem(b)

KINDS == {"state", "auth_chain"}

Pairs(ds) == {<<i, j>> \in (DOMAIN ds) \X (DOMAIN ds) : i < j}

\* generated_paths: every file that the command may write.
generated_paths(ds, fetch) ==
    {<<file_stem(ds[i]), k, x>> : i \in DOMAIN ds, k \in KINDS, x \in {"ids", "missing"}} \cup
    {<<file_stem(ds[i]), "state", "jsonl">> : i \in {n \in DOMAIN ds : fetch}} \cup
    {<<pair_stem(ds[p[1]], ds[p[2]]), k, x>> :
        p \in Pairs(ds), k \in KINDS, x \in {"only-first", "only-second"}}

\* ensure_distinct_stems: two pairs or two destinations with one file name.
ensure_distinct_stems(ds) ==
    /\ \A p, q \in Pairs(ds) : p # q => pair_stem(ds[p[1]], ds[p[2]]) # pair_stem(ds[q[1]], ds[q[2]])
    /\ \A i, j \in DOMAIN ds : i # j => file_stem(ds[i]) # file_stem(ds[j])

Init ==
    /\ command \in Commands
    /\ pc = "start" /\ answers = <<>> /\ asked = 0
    /\ files = {[path |-> command.known_file, by |-> <<>>, ids |-> Known]}

\* run, up to the first request.
Start ==
    /\ pc = "start"
    /\ pc' = IF /\ ensure_distinct_stems(command.destinations)
                /\ command.known_file \notin generated_paths(command.destinations, command.fetch)
             THEN "ask" ELSE "refused"
    /\ UNCHANGED <<command, answers, files, asked>>

\* write_lines replaces a file; by is a ghost: for whom it is written.
written(fs, new) == {f \in fs : \A n \in new : n.path # f.path} \cup new

File(path, by, ids) == [path |-> path, by |-> by, ids |-> ids]

\* One destination of ask_servers.
Ask(answer) ==
    /\ pc = "ask" /\ asked < Len(command.destinations)
    /\ asked' = asked + 1
    /\ \E d \in {command.destinations[asked + 1]} :
         IF answer = {} THEN UNCHANGED <<answers, files>>
         ELSE \E a \in answer : \E r \in {[k \in KINDS |-> a[k] \ Deep]} :
                /\ answers' = Append(answers, [dest |-> d, reported |-> r])
                /\ files' = written(files,
                     {File(<<file_stem(d), k, "ids">>, <<d>>, r[k]) : k \in KINDS} \cup
                     {File(<<file_stem(d), k, "missing">>, <<d>>, r[k] \ Known) : k \in KINDS})
    /\ UNCHANGED <<command, pc>>

\* compare_pairs
Compare ==
    /\ pc = "ask" /\ asked = Len(command.destinations)
    /\ files' = written(files, UNION {
         LET a == answers[p[1]]
             b == answers[p[2]]
             stem == pair_stem(a.dest, b.dest)
         IN  {File(<<stem, k, "only-first">>, <<a.dest, b.dest>>, a.reported[k] \ b.reported[k])
                 : k \in KINDS} \cup
             {File(<<stem, k, "only-second">>, <<a.dest, b.dest>>, b.reported[k] \ a.reported[k])
                 : k \in KINDS}
         : p \in Pairs(answers)})
    /\ pc' = IF command.fetch THEN "fetch" ELSE "done"
    /\ UNCHANGED <<command, answers, asked>>

\* fetch_missing: the crawler of RemoteDag gets some of the ids.
Fetch(got) ==
    /\ pc = "fetch"
    /\ files' = written(files, UNION {
         LET starts == (a.reported["state"] \cup a.reported["auth_chain"]) \ Known
         IN  {File(<<file_stem(a.dest), "state", "jsonl">>, <<a.dest>>, starts \cap got) :
                 x \in {y \in {1} : starts # {}}}
         : a \in ToSet(answers)})
    /\ pc' = "done"
    /\ UNCHANGED <<command, answers, asked>>

Ended == pc \in {"refused", "done"} /\ UNCHANGED vars

Next ==
    \/ Start \/ \E answer \in Answers : Ask(answer)
    \/ Compare
    \/ \E got \in {{}, UNION {a["state"] : a \in UNION Answers}} : Fetch(got)
    \/ Ended

Spec == Init /\ [][Next]_vars

----------------------------------------------------------------------------
\* No file of the command takes the place of another one or of the --known file:
\* what each server and each pair gave is all there in the end.
NoFileIsOverwritten ==
    /\ \E f \in files : f.by = <<>> /\ f.path = command.known_file
    /\ \A a \in ToSet(answers) : \A k \in KINDS :
         File(<<file_stem(a.dest), k, "ids">>, <<a.dest>>, a.reported[k]) \in files
    /\ pc = "done" => \A p \in Pairs(answers) :
         Cardinality({f \in files : f.by = <<answers[p[1]].dest, answers[p[2]].dest>>}) = 4
=============================================================================
