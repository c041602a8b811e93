---------------------------- MODULE MCMediaQuery ----------------------------
(* Denied directories with every character that LIKE treats specially, a   *)
(* letter with two cases, and more of them than the hook takes.            *)
EXTENDS MediaQuery

Letters == {"a", "A", "b", "%", "_", "\\"}
SomePlans ==
    {<<<<"_">>>>, <<<<"%">>, <<"\\">>>>, <<<<"a">>, <<"_", "b">>>>,
     <<<<"a">>, <<"b">>, <<"_">>>>, <<<<"_", "%", "\\">>>>, << >>}

Path(tail) == Root \o <<"/">> \o tail
SomePaths ==
    {Path(<<c>>) : c \in Letters}
    \cup {Path(<<c, d>>) : c \in Letters, d \in {"b", "%"}}
    \cup {Path(<<c, "/", "a">>) : c \in Letters}
    \cup {Path(<<c, "b", "/", "a">>) : c \in Letters}
SomeRows ==
    [data : SomePaths, mime : {<<"m">>}] \cup [data : {Null}, mime : {<<"m">>, Null}]

Query(selection, args) ==
    [code |-> "query", authority |-> "media", extra |-> FALSE,
     selection |-> selection, args |-> args]
Plain == Query(<<"data != ?">>, <<Path(<<"b">>)>>)
Either == <<"data = ?", "OR", "mime != ?">>
ManyQueries ==
    {Query(<< >>, << >>), Plain,
     Query(<<"data = ?">>, <<Path(<<"a">>)>>), Query(<<"mime != ?">>, << >>),
     Query(<< >>, <<Path(<<"a">>)>>),
     Query(<<"data != ?", "AND", "data != ?">>, <<Path(<<"b">>), Path(<<"a">>)>>),
     Query(Either, <<Path(<<"a">>), <<"n">>>>), Query(Either, <<Path(<<"a">>)>>),
     Query(<<"mime != ?", "AND", "(">> \o Either \o <<")">>, <<<<"n">>, Path(<<"a">>), <<"m">>>>),
     [Plain EXCEPT !.code = "other"], [Plain EXCEPT !.authority = "contacts"],
     [Plain EXCEPT !.extra = TRUE]}
SomeQueries ==
    [t \in Threads |-> IF t = CHOOSE u \in Threads : TRUE THEN ManyQueries ELSE {Plain}]
=============================================================================
