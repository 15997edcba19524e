----------------------------- MODULE MCServices -----------------------------
(* The server's smaller components.  They share the database and at most    *)
(* the job table, so one of them moves in a behaviour: `part` says which.   *)
(* The runners go round while the server is up, and clocks advance.         *)
EXTENDS Dictionary, Translation, Text, Compile, Plugins, Catalog, Profiles, Library,
        History, Sessions

CONSTANTS g1, g2, s1, gen, lemma, text, l1, ida, Parts, MaxText

VARIABLES part, keys, typed

textVars == <<keys, typed>>
sentences == <<runRows, row, ensureVars>>
requests == <<genVars, asked, sentences>>
records == <<historyVars, sessionVars>>
owners == <<pluginVars, catalogVars, profileVars, rows, records>>
serviceVars == <<requests, compileVars, textVars, owners, part>>

-----------------------------------------------------------------------------
(* Dictionary and Translation.                                              *)

GenType == [j \in Job |-> "generation"]
GenOwner == [j \in Job |-> s1]
OneAttempt == [j \in Job |-> 1]
SamePriority == [j \in Job |-> 0]
ServesAll == [w \in Owner |-> Type]
Modes == [r \in GenJob |-> IF r = g1 THEN "ensure" ELSE "regenerate"]

WordOfJob(source, l, t) ==
    [source |-> source, role |-> "word", pair |-> TRUE, lemma |-> l,
     canonical |-> l, text |-> t]

\* An occurrence of a word with a sense and an annotation of its lemma.
References == [r \in GenJob |->
    IF r = g1 THEN [WordOfJob("occurrence", lemma, text) EXCEPT !.role = "token"]
              ELSE WordOfJob("annotation", None, lemma)]
SameForm == [f \in {lemma, text} |-> f]
ASSUME ResolveSubject(References[g1]) = ResolveSubject(References[g2])

Explore(A)   == part = "dictionary" /\ A /\ UNCHANGED <<sentences, compileVars, textVars, owners, part>>
Sentences(A) == part = "sentence" /\ A /\ UNCHANGED <<asked, compileVars, textVars, owners, part>>

Waits(s) == IF part = "dictionary" THEN EntryWaits(s) ELSE SentenceWaits(s)

\* Every run of the history ends and nobody polls for ever, through crashes,
\* lost leases, storage errors and readers that leave between the claim of a
\* run and its job (RunOnce of both runners, ReconcileOrphanRuns).
GenerationsEnd ==
    /\ \A j \in GenJob : "running" \in {runOf[j], former[j]} ~> "running" \notin {runOf[j], former[j]}
    /\ \A s \in Subject : Waits(s) ~> ~Waits(s)

-----------------------------------------------------------------------------
(* Text: every text of MaxText characters over a few alphabets.             *)

Alphabets == {{"a", "A", " ", ".", "'"}, {"a", "w", "-", "^", "!"},
              {"1", ".", "(", ")", "A"}, {"a", " ", "\n", "\r"}}
TwoLetters == {<<"a", "a">>}

Type1(c) == Len(typed) < MaxText /\ typed' = Append(typed, c)
Text(A)  == part = "text" /\ A /\ UNCHANGED <<keys, requests, compileVars, owners, part>>

\* Anchors of tokens and sentences, and paragraphs, of every text typed.
TextAnchorsHold == AnchorsHold(typed) /\ ParagraphsKeepText(typed)

-----------------------------------------------------------------------------
(* Compile: a paragraph with a verb in two parts and one that uses a word   *)
(* of it again; or one without a word, and one after it.                    *)

Block(words) == [words |-> words, sentence |-> [i \in DOMAIN words |-> 1]]
Stories == {0 :> Block(<<"op", "er", "plan">>) @@ 1 :> Block(<<"Plan">>),
            0 :> Block(<<>>) @@ 1 :> Block(<<"plan">>)}
Forms == [w \in {"op", "er", "plan", "Plan", "aim", "<"} |-> IF w = "Plan" THEN "plan" ELSE w]
Lengths == [r \in {"op", "plan", "long", "far"} |-> IF r = "long" THEN 95 ELSE IF r = "far" THEN 110 ELSE 4]

Ref(name)     == [blocks |-> <<>>, name |-> name]
Name(t)       == IF t = <<"op">> THEN "op" ELSE "plan"
Sense(r, kind, t, disc) == [ref |-> r, kind |-> kind, canonical |-> t, normalized |-> t, disc |-> disc]

\* How one word may be explained: by a new sense, by a candidate, by a sense
\* carried forward, as a name, or not at all.
Explanations(chunk, t) ==
    LET w == <<WordOf(chunk.blocks, t)>>
        base == [token |-> t, class |-> "word", kind |-> "word", id |-> Nothing, ref |-> Nothing]
    IN  {[base EXCEPT !.ref = Ref(Name(w))], [base EXCEPT !.class = "proper_name"], base}
        \cup {[base EXCEPT !.id = c.id] : c \in chunk.candidates}
        \cup {[base EXCEPT !.ref = s.ref] : s \in chunk.prior}

NewSenses(chunk, xs, disc) ==
    SetToSeq({Sense(xs[i].ref, "word", <<WordOf(chunk.blocks, xs[i].token)>>, disc) :
                 i \in {i \in DOMAIN xs : xs[i].ref # Nothing /\ \A s \in chunk.prior : s.ref # xs[i].ref}})

Draft(chunk, xs, disc, cs, extra) ==
    [tokens |-> xs, senses |-> NewSenses(chunk, xs, disc) \o extra, constructions |-> cs]

Span1(b, words) == [block |-> b, words |-> words, occurrence |-> 0]
Apart(b, r) ==
    [role |-> "discontinuous", kind |-> "phrase", id |-> Nothing, ref |-> r,
     members |-> <<<<b, 1>>, <<b, 3>>>>, spans |-> <<Span1(b, <<"op">>), Span1(b, <<"plan">>)>>]
Joined(b, r) ==
    [Apart(b, r) EXCEPT !.role = "contiguous", !.members = <<<<b, 1>>, <<b, 2>>>>,
                        !.spans = <<Span1(b, <<"op", "er">>)>>]
Phrase(r) == Sense(r, "phrase", <<"op", "plan">>, "d1")

Names(chunk) ==
    LET n == Len(chunk.blocks[chunk.block].words) IN
    [i \in 1 .. n |-> [token |-> <<chunk.block, i>>, class |-> "proper_name", kind |-> "word",
                       id |-> Nothing, ref |-> Nothing]]

\* The second attempt gets one plain answer, the first all of these: words
\* explained in every way, and constructions of every shape.
AnyDraft(chunk, n) ==
    LET b == chunk.block
        plain == Names(chunk)
        word(i, x) == [plain EXCEPT ![i] = x]
        one == {Draft(chunk, word(Len(plain), x), d, <<>>, <<>>) :
                   x \in Explanations(chunk, <<b, Len(plain)>>), d \in {"d1"} \cup {IF b = 1 THEN "d2" ELSE "d1"}}
        r == Ref("op")
        with(cs, ss) == Draft(chunk, plain, "d1", cs, ss)
    IN  IF plain = <<>> THEN {Draft(chunk, plain, "d1", <<>>, <<>>)}
        ELSE IF Len(plain) = 1 THEN IF n = 1 THEN one ELSE {d \in one : d.senses # <<>>}
        ELSE IF n > 1 THEN {with(<<Apart(b, r)>>, <<Phrase(r)>>)}
        ELSE one \cup {with(<<Apart(b, q)>>, <<Phrase(q)>>) :
                          q \in {r, Ref("long"), Ref("far"), [r EXCEPT !.blocks = <<0>>]}}
             \cup {with(<<Joined(b, r)>>, <<Phrase(r)>>), with(<<Apart(b, Nothing)>>, <<>>),
                   with(<<Joined(b, r), Joined(b, r)>>, <<Phrase(r)>>),
                   with(<<[Apart(b, r) EXCEPT !.role = "contiguous"]>>, <<Phrase(r)>>),
                   with(<<Apart(b, r)>>, <<Sense(r, "word", <<"op">>, "d1")>>)}

\* The English word, the source's own spelling with and without a sense that
\* is spelled so, and a copied phrase.
AnyRendering(chunk, v) ==
    LET items(shadow(_), sense(_), phrase(_)) ==
            [tokens |-> [i \in DOMAIN v.tokens |->
                [token |-> v.tokens[i].token,
                 shadow |-> IF Special(v.tokens[i].class) THEN <<>> ELSE shadow(v.tokens[i])]],
             senses |-> [i \in DOMAIN v.senses |->
                [ref |-> v.senses[i].ref, english |-> sense(v.senses[i])]],
             constructions |-> [i \in DOMAIN v.constructions |->
                [construction_id |-> v.constructions[i].construction_id,
                 shadow |-> phrase(v.constructions[i].construction)]]]
        aim(x)  == <<"aim">>
        copy(x) == <<WordOf(chunk.blocks, x.token)>>
    IN  {items(aim, aim, aim), items(copy, aim, aim),
         items(copy, LAMBDA s : s.canonical, aim),
         items(aim, aim, LAMBDA c : [k \in DOMAIN c.members |-> WordOf(chunk.blocks, c.members[k])])}

Compiles(A) == part = "compile" /\ A /\ UNCHANGED <<requests, textVars, owners, part>>

-----------------------------------------------------------------------------
(* Plugins: a good package and one that fails at each stage of Load; a      *)
(* provider two plugins want, an observer, and subscriptions, one of them illegal.*)

ThisHost == [api |-> 1, build |-> "go", graph |-> 7, role |-> "server", platform |-> "linux"]
Good == LET m == [id |-> "p", target |-> <<"server">>, api |-> 1, build |-> "go", graph |-> 7, checksum |-> 1]
        IN  [readable |-> TRUE, sidecar |-> m, embedded |-> [m EXCEPT !.checksum = 0],
             content |-> 1, platform |-> "linux", opens |-> "opened"]
Artifacts == [l \in PluginLoad |-> IF l = l1 THEN {Good} ELSE
    {Good, [Good EXCEPT !.sidecar.id = "q", !.embedded.id = "q"],
     [Good EXCEPT !.readable = FALSE], [Good EXCEPT !.sidecar.target = <<"server", "server">>],
     [Good EXCEPT !.content = 2], [Good EXCEPT !.sidecar.graph = 8],
     [Good EXCEPT !.opens = "lookup"], [Good EXCEPT !.embedded.target = <<"agent">>]}]
Offers ==
    {[surface |-> "provider", key |-> "x"], [surface |-> "observer", key |-> "o"],
     [surface |-> "event_handler", key |-> <<"b", "a">>], [surface |-> "event_handler", key |-> <<"a", "a">>]}
FewAdds == [l \in PluginLoad |-> IF l = l1 THEN 2 ELSE 1]
OneEvent == [d \in Dispatch |-> "event"]

\* Dispatches of one event are alike, and so are requests of the owner: it is
\* enough that the same one of them starts first.
InOrder(S, started) == started # {} => (CHOOSE x \in S : TRUE) \in started

Hosts(A) ==
    /\ part = "plugins" /\ A /\ InOrder(Dispatch, {d \in Dispatch : dispatch'[d].result # "none"})
    /\ UNCHANGED <<requests, compileVars, textVars, catalogVars, profileVars, rows, records, part>>

-----------------------------------------------------------------------------
(* Catalog and Profiles: a model that one provider always lists and another *)
(* one at times; a short body, and one with every choice and a second       *)
(* correction prompt.  The database is empty or from before the library.    *)

Binding(p) == [provider |-> p, model |-> "m"]
Bindings(l, t) == [s \in RegisteredStages |-> IF s = "translation" THEN Binding(t) ELSE Binding(l)]
Short == [name |-> "x", bindings |-> Bindings("p", "p"), explore |-> {}, prompts |-> {}]
Bodies == {Short, [name |-> "y", bindings |-> Bindings("p", "q"), explore |-> {},
                   prompts |-> {<<t, IF t = "correction" THEN 2 ELSE 1>> : t \in PromptTypes}]}
Lists == {{Binding("p")}, {Binding("p"), Binding("q")}}
OldProfiles == [i \in Profile |-> IF i = ida THEN {[Short EXCEPT !.explore = {Binding("p")}]} ELSE {}]
ShortProfile == {Short}

Catalogs(A) == part = "catalog" /\ A /\ UNCHANGED <<requests, compileVars, textVars, pluginVars, profileVars, rows, records, part>>
Edits(A) ==
    /\ part = "profiles" /\ A /\ InOrder(Request, {c \in Request : call'[c] # NotStarted})
    /\ UNCHANGED <<requests, compileVars, textVars, pluginVars, catalogVars, rows, records, part>>

\* Library: a shelf of two libraries, and one record of each level below.
Shelf == [libA |-> "library", libB |-> "library", work |-> "work", edition |-> "edition",
          chapter |-> "chapter", asset |-> "source_asset"]
AnyRecord == DOMAIN Shelf
AnyTimings == {[f \in {g} |-> n] : g \in Timing, n \in -1 .. 1} \cup {<<>>}

Shelves(A) == part = "library" /\ A /\ UNCHANGED <<requests, compileVars, textVars, pluginVars, catalogVars, profileVars, records, part>>

\* History: an article of two paragraphs.
Records(A) == part = "history" /\ A /\ UNCHANGED <<requests, compileVars, textVars, pluginVars, catalogVars, profileVars, rows, sessionVars, part>>

\* Sessions: a question and its correction.
Talks(A) == part = "sessions" /\ A /\ UNCHANGED <<requests, compileVars, textVars, pluginVars, catalogVars, profileVars, rows, historyVars, part>>

-----------------------------------------------------------------------------

ServicesInit ==
    /\ part \in Parts
    /\ DictInit /\ SentenceInit
    /\ typed = <<>> /\ keys \in IF part = "text" THEN Alphabets ELSE {{}}
    /\ CompileInit /\ PluginsInit /\ CatalogInit /\ ProfilesInit /\ LibraryInit /\ HistoryInit /\ SessionsInit
    /\ part # "catalog" => offered = [p \in Provider |-> {}]
    /\ part # "profiles" => Stored = {} /\ listing = {Binding("p")}
    /\ part # "sessions" => transport = "history"
    /\ part # "compile" => article = CHOOSE s \in Stories : TRUE

ServicesNext ==
    \/ Explore(DictNext)
    \/ Sentences(SentenceNext)
    \/ \E c \in keys : Text(Type1(c))
    \/ Compiles(CompileNext)
    \/ Hosts(PluginsNext)
    \/ Catalogs(CatalogNext)
    \/ Edits(ProfilesNext)
    \/ Shelves(LibraryNext)
    \/ Records(HistoryNext)
    \/ Talks(SessionsNext)

ServicesSpec ==
    /\ ServicesInit /\ [][ServicesNext]_serviceVars
    /\ \A k \in Kind : WF_serviceVars(Explore(DictRun(k)) \/ Sentences(SentenceRun(k)))
    /\ WF_serviceVars(\E r \in GenJob : Explore(DictLeaseEnds(r)) \/ Sentences(SentenceLeaseEnds(r)))
    /\ WF_serviceVars(\E r \in GenJob : Sentences(RunAges(r)))
=============================================================================
