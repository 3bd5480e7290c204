-------------------------- MODULE SemanticTargets --------------------------
(***************************************************************************)
(* semantic_targets.py: the typed targets of an invocation, taken from its *)
(* words without expanding them, and the fields that expansions might      *)
(* change.                                                                 *)
(*                                                                         *)
(* A word has its static text and is dynamic when the shell expands it.    *)
(* What the patterns and parsers of hosts and URLs make of a text is given *)
(* by constants, as are the tables of names and options.                   *)
(***************************************************************************)
EXTENDS Naturals, Sequences, SequencesExt

CONSTANTS
    Options,            \* texts that start with "-"
    Folded,             \* casefold, for the texts that it changes
    HostOf,             \* normalize_host, for the texts that it accepts
    UrlOf,              \* normalize_url, likewise: the URL and its host
    RemoteOf,           \* for the texts with a ":", the part before it
    Servers,            \* texts that start with "@"
    Overlong,           \* texts of more than MAX_TARGET_LENGTH characters
    NetworkExecutables, FileExecutables,
    PackageVerbs,       \* PACKAGE_EXECUTABLES
    NetworkValued, FileValued, GitValued,  \* options that take the next word
    MaxTargets

Fold(text) == IF text \in DOMAIN Folded THEN Folded[text] ELSE text

TargetFields ==
    {"network.destinations", "network.urls", "file.paths", "git.operations",
     "git.repositories", "package.operations", "package.names"}

\* _bounded_unique
BoundedUnique(values) ==
    LET Add(kept, v) ==
            IF v \in {""} \cup Overlong \cup Range(kept) \/ Len(kept) = MaxTargets
            THEN kept ELSE Append(kept, v)
    IN  FoldLeft(Add, <<>>, values)

\* A turn of the loop of _static_positionals: words that are neither options nor
\* their values are kept.
Positional(s, w, valued) ==
    LET isOption == s.options /\ w.value \in Options \ {"-"}
    IN  [words |-> IF s.takes \/ isOption THEN s.words ELSE Append(s.words, w),
         options |-> s.options /\ (s.takes \/ w.value # "--"),
         takes |-> ~s.takes /\ isOption /\ w.value \in valued,
         uncertain |-> s.uncertain \/ w.dynamic]

\* What is kept, and whether expansions, or the end of the words, leave that open.
Positionals(words, valued) ==
    LET read[n \in 0..Len(words)] ==
            IF n = 0 THEN [words |-> <<>>, options |-> TRUE, takes |-> FALSE, uncertain |-> FALSE]
            ELSE Positional(read[n - 1], words[n], valued)
        r == read[Len(words)]
    IN  [words |-> r.words, uncertain |-> r.uncertain \/ r.takes]

Texts(words) == [i \in DOMAIN words |-> words[i].value]
Static(words) == SelectSeq(words, LAMBDA w : ~w.dynamic)
HasDynamic(words) == \E w \in Range(words) : w.dynamic

\* Targets that a part of the function finds, and the fields it leaves open.
Nothing == [values |-> [f \in TargetFields |-> <<>>], uncertain |-> {}]
Found(field, values) == [Nothing EXCEPT !.values[field] = values]
Open(fields) == [Nothing EXCEPT !.uncertain = fields]
Both(s, t) == [values |-> [f \in TargetFields |-> s.values[f] \o t.values[f]],
               uncertain |-> s.uncertain \cup t.uncertain]
When(condition, found) == IF condition THEN found ELSE Nothing

Network == {"network.destinations", "network.urls"}

\* The URLs of texts and their hosts, or else the hosts that parts of them are.
Destinations(texts, parts) ==
    LET Url(i) == IF texts[i] \in DOMAIN UrlOf THEN <<UrlOf[texts[i]].url>> ELSE <<>>
        Host(i) == CASE texts[i] \in DOMAIN UrlOf -> <<UrlOf[texts[i]].host>>
                     [] texts[i] \notin DOMAIN UrlOf /\ parts[i] \in DOMAIN HostOf ->
                          <<HostOf[parts[i]]>>
                     [] OTHER -> <<>>
    IN  Both(Found("network.urls", FlattenSeq([i \in DOMAIN texts |-> Url(i)])),
             Found("network.destinations", FlattenSeq([i \in DOMAIN texts |-> Host(i)])))

\* Redirections, but not the duplications of descriptors.
OfRedirections(redirections) ==
    LET files == {i \in DOMAIN redirections : redirections[i].operator \notin {">&", "<&"}}
        open == {i \in files : redirections[i].target.dynamic}
        Path(i) == IF i \in files \ open THEN <<redirections[i].target.value>> ELSE <<>>
    IN  Both(Found("file.paths", FlattenSeq([i \in DOMAIN redirections |-> Path(i)])),
             When(open # {}, Open({"file.paths"})))

\* The positionals that name destinations.
Candidates(executable, positionals) ==
    LET n == Len(positionals)
        names == SelectSeq(positionals, LAMBDA w : w.value \notin Servers)
    IN  CASE executable \in {"ping", "ping6"} /\ n > 0 -> <<Last(positionals)>>
          [] executable \in {"ssh", "sftp"} /\ n > 0 -> <<Head(positionals)>>
          [] executable \in {"nc", "ncat", "netcat"} /\ n > 1 -> <<positionals[n - 1]>>
          [] executable \in {"dig", "host", "nslookup"} ->
               IF names = <<>> THEN <<>> ELSE <<Head(names)>>
          [] executable = "scp" -> SelectSeq(positionals, LAMBDA w : w.value \in DOMAIN RemoteOf)
          [] OTHER -> positionals

OfNetwork(executable, words, dynamic) ==
    LET p == Positionals(words, NetworkValued)
        scp == executable = "scp"
        files == SelectSeq(p.words, LAMBDA w : w.value \notin DOMAIN RemoteOf)
        names == Texts(Static(Candidates(executable, p.words)))
        Part(i) == IF scp /\ names[i] \in DOMAIN RemoteOf THEN RemoteOf[names[i]] ELSE names[i]
    IN  Both(When(dynamic \/ p.uncertain, Open(Network)),
             Both(When(scp, Found("file.paths", Texts(Static(files)))),
                  Destinations(names, [i \in DOMAIN names |-> Part(i)])))

\* Mutant: the arguments that xargs adds are forgotten.
OfFilesUnforced(words, dynamic) ==
    LET p == Positionals(words, FileValued)
    IN  Both(Found("file.paths", Texts(Static(p.words))),
             When(p.uncertain, Open({"file.paths"})))

OfFiles(words, dynamic) ==
    LET p == Positionals(words, FileValued)
    IN  Both(Found("file.paths", Texts(Static(p.words))),
             When(dynamic \/ p.uncertain, Open({"file.paths"})))

\* The word that names the repository.
Repository(operation, positionals) ==
    CASE operation \in {"clone", "fetch", "pull", "push"} /\ Len(positionals) > 1 ->
           <<positionals[2]>>
      [] /\ operation = "remote" /\ Len(positionals) > 3
         /\ positionals[2].value = "add" -> <<positionals[4]>>
      [] OTHER -> <<>>

OfGit(words, dynamic) ==
    LET p == Positionals(words, GitValued)
        first == Head(p.words)
        operation == Fold(first.value)
        names == Texts(Static(Repository(operation, p.words)))
        noParts == [i \in DOMAIN names |-> ""]  \* only a URL has a destination
    IN  Both(When(p.uncertain, Open({"git.operations", "git.repositories"})),
             CASE p.words = <<>> -> When(dynamic, Open({"git.operations"}))
               [] p.words # <<>> /\ first.dynamic -> Open({"git.operations"})
               [] OTHER -> Both(Both(Found("git.operations", <<operation>>),
                                     Found("git.repositories", names)),
                                Destinations(names, noParts)))

OfPackages(executable, words, dynamic) ==
    LET p == Positionals(words, {})
        verbs == {i \in DOMAIN p.words : Fold(p.words[i].value) \in PackageVerbs[executable]}
        i == CHOOSE k \in verbs : \A j \in verbs : k \leq j
        names == SubSeq(p.words, i + 1, Len(p.words))
    IN  Both(When(p.uncertain, Open({"package.operations", "package.names"})),
             IF verbs = {} THEN When(dynamic, Open({"package.operations"}))
             ELSE Both(Found("package.operations", <<executable \o "." \o Fold(p.words[i].value)>>),
                       Found("package.names", Texts(Static(names)))))

\* extract_process_targets
ProcessTargets(executable, words, redirections, force) ==
    LET dynamic == force \/ HasDynamic(words)
        parts == <<OfRedirections(redirections),
                   When(executable \in NetworkExecutables, OfNetwork(executable, words, dynamic)),
                   When(executable \in FileExecutables, OfFiles(words, dynamic)),
                   When(executable = "git", OfGit(words, dynamic)),
                   When(executable \in DOMAIN PackageVerbs,
                        OfPackages(executable, words, dynamic))>>
        All(f) == FlattenSeq([k \in DOMAIN parts |-> parts[k].values[f]])
    IN  [values |-> [f \in TargetFields |-> BoundedUnique(All(f))],
         uncertain |-> UNION {parts[k].uncertain : k \in DOMAIN parts}]
=============================================================================
