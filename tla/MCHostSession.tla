----------------------------- MODULE MCHostSession -----------------------------
(***************************************************************************)
(* Two hosts.  The first shares two folders of one name, a public and a    *)
(* protected one, with a folder in a folder; the second a folder of the    *)
(* name once more and one whose folders have names that mislead.           *)
(***************************************************************************)
EXTENDS CarefulSession

MCNames  == {"..", "FS:", "C:", "Ann", "Bob", "Docs", "MyDocs", "Old",
             "a", "b", "f", "v1.0", "Tmp"}
MCRestOf == [p \in {<<n, n>> : n \in MCNames} \cup {<<"MyDocs", "Docs">>} |->
               p[2]]

MCNameOfHost == [ann |-> "Ann", bob |-> "Bob"]
MCOwnerOf    == [public |-> "ann", vault |-> "ann", other |-> "bob",
                 odd |-> "bob"]
MCKindOf     == [public |-> "nf", vault |-> "ef", other |-> "nf",
                 odd |-> "nf"]

T(name, folders, files) == [name |-> name, folders |-> folders, files |-> files]
Plain2 == T("Docs", {<<>>, <<"a">>, <<"a", "b">>},
            {<<"f">>, <<"a", "f">>, <<"a", "b", "f">>})
MCTreeOf     ==
  [public |-> Plain2,
   vault  |-> Plain2,
   other  |-> T("Docs", {<<>>, <<"a">>}, {<<"f">>, <<"a", "f">>}),
   odd    |-> T("Old", {<<>>, <<"Old">>, <<"v1.0">>},
                {<<"f">>, <<"Old", "f">>, <<"v1.0", "f">>})]

MCLocalDirs == {<<"C:", "b">>, <<"C:", "MyDocs">>}

\* Among them "..\" and "..", and what ends in one backslash or two.
MCDown  == {<<"a">>, <<"f">>, <<"a", "b">>, <<"a", "f">>, <<"b", "f">>,
            <<"Docs", "f">>, <<"v1.0", "f">>, <<"Old", "f">>,
            <<"a", "">>, <<"a", "", "">>}
MCTyped == [ups : 0 .. 2, down : MCDown]
             \cup [ups : {1, 2}, down : {<<"">>, <<"", "">>}]
             \cup [ups : {0, 1}, down : {<<"..">>}]
             \cup {Relative(0, <<>>)}

\* One public folder, and a user who does nothing that could mislead a search:
\* PulledSubfolder.
OneHost   == [ann |-> "Ann"]
OneOwner  == [public |-> "ann"]
OneKind   == [public |-> "nf"]
OneTree   == [public |-> Plain2]
OneDirs   == {<<"C:", "Tmp">>}
OneTyped  == {Relative(0, <<"f">>), Relative(0, <<"a">>),
              Relative(0, <<"b">>), Relative(1, <<"">>)}
=============================================================================
