-------------------------- MODULE MCShellDispatch --------------------------
(***************************************************************************)
(* Small instances of ShellDispatch for TLC: all pairs of a prefix and a   *)
(* core, and pairs of cores with an operator between them.                 *)
(***************************************************************************)
EXTENDS ShellDispatch, TLC

CONSTANT unlexed

Word(w) == [kind |-> "word", word |-> w]
W(text) == Word(StaticWord(text))
D(text) == Word([value |-> text, dynamic |-> TRUE, substitutions |-> <<>>])
S(program) == Word([value |-> "", dynamic |-> TRUE, substitutions |-> <<program>>])
Op(operator) == [kind |-> "operator", operator |-> operator]
To(operator) == [kind |-> "redirection", operator |-> operator]
Ws(texts) == [i \in DOMAIN texts |-> W(texts[i])]

Inner == Ws(<<"rm", "f1">>)
Deeper == Ws(<<"curl">>) \o <<S(Inner)>>

MCTokens ==
    (<<"rm f1">> :> Inner) @@ (<<"nested">> :> Ws(<<"bash", "-c", "rm f1">>))
    @@ (<<"rm", "f1">> :> Inner) @@ (<<"rm", "{}">> :> Ws(<<"rm", "{}">>))
    @@ (<<"again">> :> Ws(<<"eval", "again">>))
    @@ (<<"sub">> :> Deeper \o <<To(">")>> \o <<S(Ws(<<"ls">>))>>)

PrefixLines ==
    {<<>>, Ws(<<"A=1">>), Ws(<<"sudo", "-u", "rm">>), Ws(<<"env", "A=1", "-u", "A", "A=1">>),
     Ws(<<"env", "-S">>), Ws(<<"timeout", "5">>), Ws(<<"timeout", "-v", "-s">>),
     Ws(<<"nice", "-n", "1", "A=1", "sudo", "--">>), Ws(<<"exec", "-a", "rm">>), Ws(<<"nice", "-v">>),
     Ws(<<"env", "--split-string=">>), Ws(<<"time", "-v", "-o", "rm", "chroot", "--", "f1">>)}

Cores ==
    {<<>>, Ws(<<"/bin/rm", "f1", "f2", "f1">>), Ws(<<"rm">>) \o <<D("")>>,
     Ws(<<"rm", "--">>) \o <<D("f1")>> \o Ws(<<"-t">>), Ws(<<"rm", "-t", "f1", "f2">>), <<D("rm")>>,
     Ws(<<"rm">>) \o <<S(Deeper)>>, Ws(<<"ls">>) \o <<To(">")>> \o <<S(Inner)>>,
     <<To(">"), W("f1"), S(Inner)>>, Ws(<<"ls">>) \o <<To(">&"), W("f1"), To(">"), W("f2")>>,
     Ws(<<"curl", "-o", "f1", "u1">>), Ws(<<"curl", "-o">>) \o <<D(""), W("u1")>>,
     Ws(<<"curl", "-o">>), Ws(<<"ping", "-t">>) \o <<D(""), W("h1")>>, Ws(<<"ping", "h2", "h1">>),
     Ws(<<"nc", "h1", "h2">>), Ws(<<"dig", "@h", "h1", "h2">>), Ws(<<"ssh", "h1", "rm", "f1">>),
     Ws(<<"scp", "h1:f", "f1">>), Ws(<<"scp", "f1">>) \o <<D("")>>,
     Ws(<<"git", "-C", "f1", "Clone", "u1">>), Ws(<<"git", "clone">>) \o <<D("")>>,
     Ws(<<"git", "-C">>) \o <<D("")>> \o Ws(<<"push", "u1">>), <<W("git"), D("")>>,
     Ws(<<"git", "remote", "add", "f1", "u1">>), Ws(<<"git", "-C">>),
     Ws(<<"npm", "-v", "Install", "p1">>), Ws(<<"npm", "install">>) \o <<D("")>>, <<W("npm"), D("")>>,
     Ws(<<"bash", "-c", "nested", "f1">>), <<W("bash"), D("-c"), W("rm f1")>>,
     Ws(<<"bash", "-c", "sub">>), Ws(<<"bash", "--", "-c", "rm f1">>), Ws(<<"bash", "-c">>),
     Ws(<<"xargs", "-n", "1", "rm">>), Ws(<<"xargs", "curl", "h1">>), Ws(<<"xargs", "git", "clone">>),
     Ws(<<"xargs", "git">>), Ws(<<"xargs", "npm">>), Ws(<<"xargs", "npm", "install">>),
     Ws(<<"xargs", "sudo", "scp", "h1:f">>), Ws(<<"xargs", "xargs", "--", "bash", "-c", "rm f1">>),
     Ws(<<"xargs", "--max-lines", "rm", "f1">>), Ws(<<"xargs", "-n">>), Ws(<<"xargs", "-u", "rm">>), Ws(<<"xargs", "-">>), Ws(<<"xargs">>),
     Ws(<<"find", "f1", "-exec", "rm", "{}", ";", "-ok", "nice", "scp", "{}", "h1:f", "+">>),
     Ws(<<"find", "-exec", "ls", "+", "-exec", "rm", "{}", "+">>),
     Ws(<<"find", "-exec", "rm", "f1">>), Ws(<<"find", "-exec", ";">>),
     Ws(<<"watch", "-n", "-x", "rm", "f1">>), Ws(<<"watch", "-x", "rm">>) \o <<D("")>>,
     Ws(<<"watch", "rm">>) \o <<D("")>>, Ws(<<"watch", "-d">>), Ws(<<"watch", "-u", "rm">>),
     Ws(<<"eval", "again">>), Ws(<<"eval", "rm", "f1">>), Ws(<<"eval", "f1">>), Ws(<<"eval", "--", "rm">>), <<W("eval"), D("")>>,
     <<W("eval"), S(Inner)>>, Ws(<<"eval">>), Ws(<<"parallel", "rm">>), Ws(<<"A=1", "if", "rm">>),
     Ws(<<"rm">>) \o <<To("<<"), W("f1")>>, Ws(<<"rm">>) \o <<To(">")>>}

Separators == {<<Op(";")>>, <<Op("|")>>, <<Op(")"), Op("&")>>, <<Op(";;")>>, <<Op("(")>>}
Firsts == {Inner, Deeper, Ws(<<"sudo", "bash", "-c", "sub">>), Ws(<<"xargs", "rm">>), <<To(">"), W("f1")>>}

MCInputs ==
    {p \o c : p \in PrefixLines, c \in Cores}
    \cup {open \o a \o s \o c :
             open \in {<<>>, <<Op("(")>>}, a \in Firsts, s \in Separators, c \in Cores}

MCOptions ==
    {"-u", "--", "-S", "-v", "-s", "-n", "-a", "-t", "-o", "-C", "-c", "-exec", "-ok", "-x", "-d", "-",
     "--split-string=", "--max-lines"}

\* What the programs take these options for.
MCManual ==
    LET Takes(valued, alone) == [o \in valued \cup alone |-> IF o \in valued THEN "valued" ELSE "alone"]
    IN  [command |-> Takes({}, {"-v"}), builtin |-> Takes({}, {}), nohup |-> Takes({}, {}),
         exec |-> Takes({"-a"}, {"-c"}), time |-> Takes({"-o"}, {"-a", "-v"}),
         env |-> [o \in {"-S", "--split-string="} |-> "carries"] @@ Takes({"-u", "-C"}, {"-v", "-"}),
         sudo |-> Takes({"-u", "-C"}, {"-n", "-v"}),
         timeout |-> Takes({"-s"}, {"-v"}), nice |-> Takes({"-n"}, {}), setsid |-> Takes({}, {"-c"}),
         stdbuf |-> Takes({"-o"}, {}), chroot |-> Takes({}, {}),
         xargs |-> Takes({"-n", "-s", "-a", "-d"}, {"-t", "-o", "-x", "--max-lines"}),
         watch |-> Takes({"-n"}, {"-d", "-t", "-x", "-c"})]

MCHostOf == [h \in {"h1", "h2", "f1"} |-> h]
MCUrlOf == [u \in {"u1"} |-> [url |-> "u1", host |-> "h1"]]
MCRemoteOf == [t \in {"h1:f"} |-> "h1"]
MCFolded == ("Clone" :> "clone") @@ ("Install" :> "install")
MCPaths == ("/bin/rm" :> "rm")
MCPackageVerbs == ("npm" :> {"install", "remove"})

MCExpansions ==
    {<<>>, <<"f2">>, <<"u1">>, <<"-o">>, <<"--">>, <<"remove">>, <<"h2", "h1:f">>, <<"push", "u1">>}
=============================================================================
