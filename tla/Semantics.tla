------------------------------ MODULE Semantics -------------------------------
(* What makes a provider's answer for a paragraph acceptable                *)
(* (internal/semantics: stages.go, types.go, chunks.go, store.go).          *)
(*                                                                          *)
(* A text is a sequence of words; a paragraph gives each of its words the   *)
(* sentence it lies in.  A token is named by its paragraph and position.    *)
(* Words that differ only in case have one Normal form.  Notes,             *)
(* pronunciations, confidences and alternatives are left out: they are      *)
(* bounded strings nothing else refers to.                                  *)
EXTENDS Integers, SequencesExt

CONSTANTS
    Nothing,
    Normal,      \* normalized form of each word
    Unsafe,      \* words with markup or control characters
    Scalars,     \* length of each name a provider gives a sense
    EveryRef, LocalRef   \* bounds on a reference: 120 anywhere, 96 in a chunk

NormalizeForm(t) == [i \in DOMAIN t |-> Normal[t[i]]]
Same(t, u)       == NormalizeForm(t) = NormalizeForm(u)
Safe(t)          == ToSet(t) \cap Unsafe = {}

\* A reference is a name behind the prefixes "bN:" of the paragraphs it went through.
SenseRef        == [blocks : Seq(Nat), name : DOMAIN Scalars]
RefLength(ref)  == 3 * Len(ref.blocks) + Scalars[ref.name]
Prefixed(b, ref) == [blocks |-> <<b>> \o ref.blocks, name |-> ref.name]

SenseKind     == {"word", "phrase", "idiom", "expression", "proverb"}
Spelling      == Seq(DOMAIN Normal)
SenseIdentity == [kind : SenseKind, form : Spelling, disc : STRING]

ASSUME SemanticsAssumption ==
    /\ Nothing \notin SenseRef /\ Nothing \notin SenseIdentity
    /\ Normal \in [DOMAIN Normal -> DOMAIN Normal]
    /\ Scalars \in [DOMAIN Scalars -> Nat]
    /\ LocalRef \in Nat /\ EveryRef \in Nat /\ LocalRef <= EveryRef

-----------------------------------------------------------------------------
(* Input.  An article's blocks are numbered from 0.                         *)

Tokens(blocks) == UNION {{<<b, i>> : i \in DOMAIN blocks[b].words} : b \in DOMAIN blocks}
WordOf(blocks, t)     == blocks[t[1]].words[t[2]]
SentenceOf(blocks, t) == blocks[t[1]].sentence[t[2]]

\* A sense is shown to the provider when its spelling occurs in the paragraph.
\* Lemmas, and words found inside other words, are left out.
Relevant(canonical, words) ==
    \E i \in DOMAIN words : /\ i + Len(canonical) - 1 <= Len(words)
                             /\ Same(SubSeq(words, i, i + Len(canonical) - 1), canonical)

\* The lexicon maps a sense's identity to its spelling and its translation;
\* only senses of the forms that occur are candidates.
LookupCandidates(lexicon, blocks) ==
    {[id |-> s, canonical |-> lexicon[s].canonical, english |-> lexicon[s].english] :
        s \in {s \in DOMAIN lexicon :
                  \E t \in Tokens(blocks) : s.form = <<Normal[WordOf(blocks, t)]>>}}

\* The paragraphs before the chunk are empty.  The senses carried forward are a
\* set: each has a reference of its own, and nothing depends on their order.
PrepareChunk(blocks, candidates, b, prior) ==
    [block      |-> b,
     blocks     |-> [i \in 0 .. b |-> IF i = b THEN blocks[b] ELSE [words |-> <<>>, sentence |-> <<>>]],
     candidates |-> {c \in candidates : Relevant(c.canonical, blocks[b].words)},
     prior      |-> {s \in prior : Relevant(s.canonical, blocks[b].words)}]

-----------------------------------------------------------------------------
(* Rules shared by the stage validators and the final validator.            *)

ValidSense(s) ==
    /\ s.kind \in SenseKind /\ s.canonical # <<>> /\ s.disc # Nothing
    /\ Safe(s.canonical) /\ Same(s.canonical, s.normalized)

ValidRefs(prior, senses) ==
    /\ \A s \in prior \cup ToSet(senses) : RefLength(s.ref) <= EveryRef
    /\ \A s, t \in prior : s.ref = t.ref => s = t
    /\ \A i \in DOMAIN senses : \A s \in prior : senses[i].ref # s.ref
    /\ \A i, j \in DOMAIN senses : senses[i].ref = senses[j].ref => i = j

\* A sense is named by a candidate's id or by a reference, of the same kind.
ValidReference(x, candidates, senses) ==
    /\ x.id = Nothing \/ x.ref = Nothing
    /\ x.id # Nothing => \E c \in candidates : c.id = x.id /\ c.id.kind = x.kind
    /\ x.ref # Nothing => \E s \in senses : s.ref = x.ref /\ s.kind = x.kind

Special(class) == class \in {"proper_name", "number", "acronym"}

ValidToken(x, candidates, senses) ==
    /\ x.class \notin {"", "unchanged"}
    /\ x.id = Nothing /\ x.ref = Nothing => Special(x.class)
    /\ ValidReference(x, candidates, senses)

\* The items of an answer are named by one of their fields: every name exactly
\* once, nothing else.
Corresponds(items, key, names) ==
    /\ {items[i][key] : i \in DOMAIN items} = names
    /\ \A i, j \in DOMAIN items : items[i][key] = items[j][key] => i = j

Covers(results, tokens) == Corresponds(results, "token", tokens)

\* Where an occurrence of a text begins, 0 when there is none.  Occurrences are
\* counted from 0 and do not overlap.
OccurrenceOf(text, number, words) ==
    LET starts == {i \in DOMAIN words : /\ i + Len(text) - 1 <= Len(words)
                                        /\ SubSeq(words, i, i + Len(text) - 1) = text}
        after(i) == LET at == {k \in starts : k >= i} IN IF at = {} THEN 0 ELSE Min(at)
        find[n \in 0 .. number] ==
            IF n = 0 THEN after(1)
            ELSE IF find[n - 1] = 0 THEN 0 ELSE after(find[n - 1] + Len(text))
    IN  IF starts = {} THEN 0 ELSE find[number]

ResolveSpan(blocks, s) ==
    LET first == IF s.block \in DOMAIN blocks /\ s.words # <<>>
                 THEN OccurrenceOf(s.words, s.occurrence, blocks[s.block].words) ELSE 0
    IN  [block |-> s.block, first |-> first, last |-> first + Len(s.words) - 1]

Inside(t, span) == t[1] = span.block /\ span.first <= t[2] /\ t[2] <= span.last

memberRunCount(members) ==
    Cardinality({k \in DOMAIN members :
                    k > 1 => members[k] # <<members[k - 1][1], members[k - 1][2] + 1>>})

Contiguous(c) == c.role = "contiguous"

ValidConstruction(c, blocks, candidates, senses) ==
    LET spans   == [k \in DOMAIN c.spans |-> ResolveSpan(blocks, c.spans[k])]
        members == c.members
    IN  /\ c.kind \in SenseKind \ {"word"}
        /\ ValidReference(c, candidates, senses)
        /\ IF Contiguous(c) THEN DOMAIN spans = {1} ELSE {1, 2} \subseteq DOMAIN spans
        /\ members # <<>>
        /\ \A k \in DOMAIN spans : spans[k].first > 0
        /\ \A k \in 2 .. Len(spans) :
              spans[k].block = spans[k - 1].block /\ spans[k].first > spans[k - 1].last
        /\ \A k \in DOMAIN members :
              /\ members[k] \in Tokens(blocks)
              /\ \E s \in ToSet(spans) : Inside(members[k], s)
              /\ k > 1 => members[k][1] = members[k - 1][1] /\ members[k][2] > members[k - 1][2]
              /\ \A j \in DOMAIN members : SentenceOf(blocks, members[j]) = SentenceOf(blocks, members[k])
        /\ IF Contiguous(c)
           THEN /\ memberRunCount(members) = 1
                /\ \A t \in Tokens(blocks) : Inside(t, spans[1]) => t \in ToSet(members)
           ELSE memberRunCount(members) >= 2

\* Contiguous constructions do not overlap.
LayersApart(constructions, blocks) ==
    \A i, j \in DOMAIN constructions :
        (i # j /\ Contiguous(constructions[i]) /\ Contiguous(constructions[j])) =>
            LET s == ResolveSpan(blocks, constructions[i].spans[1])
                t == ResolveSpan(blocks, constructions[j].spans[1])
            IN  ~(s.block = t.block /\ s.first <= t.last /\ t.first <= s.last)

\* Faulty: a name or a number needs a subtitle, too.
ValidWordSubtitle(class, source, shadow, english) ==
    /\ Safe(shadow) /\ shadow # <<>>
    /\ Same(shadow, <<source>>) => (english # Nothing /\ Same(english, <<source>>))

\* A word's subtitle copies its spelling only when its sense's translation does.
ValidSubtitle(class, source, shadow, english) ==
    /\ Safe(shadow)
    /\ ~Special(class) => /\ shadow # <<>>
                          /\ Same(shadow, <<source>>) => (english # Nothing /\ Same(english, <<source>>))

\* A construction's subtitle copies nothing of the source.
ValidConstructionSubtitle(c, blocks, shadow, canonical) ==
    /\ shadow # <<>> /\ Safe(shadow)
    /\ canonical # Nothing => ~Same(shadow, canonical)
    /\ ~Same(shadow, [k \in DOMAIN c.members |-> WordOf(blocks, c.members[k])])
    /\ \A s \in ToSet(c.spans) : ~Same(shadow, s.words)

\* What candidates and senses say of a reference, Nothing when they say nothing.
Said(x, candidates, senses, field) ==
    LET named == {c \in candidates : x.id # Nothing /\ c.id = x.id}
                 \cup {s \in senses : x.id = Nothing /\ x.ref # Nothing /\ s.ref = x.ref}
    IN  IF named = {} THEN Nothing ELSE (CHOOSE n \in named : TRUE)[field]

-----------------------------------------------------------------------------
(* The two stages of a paragraph and their merge.                           *)

\* An answer has the fields its stage asks for, which are empty when it leaves
\* them out, and no other.
DecodeLinguisticArtifact(a) ==
    /\ \A i \in DOMAIN a.tokens : DOMAIN a.tokens[i] = {"token", "class", "kind", "id", "ref"}
    /\ \A i \in DOMAIN a.senses :
          /\ DOMAIN a.senses[i] = {"ref", "kind", "canonical", "normalized", "disc"}
          /\ a.senses[i].ref \in SenseRef
          /\ a.senses[i].canonical \in Spelling
          /\ a.senses[i].disc \in STRING \cup {Nothing}
    /\ \A i \in DOMAIN a.constructions :
          DOMAIN a.constructions[i] = {"role", "kind", "id", "ref", "members", "spans"}

ValidateLinguistic(chunk, a) ==
    LET senses == chunk.prior \cup ToSet(a.senses) IN
    /\ ValidRefs(chunk.prior, a.senses)
    /\ \A s \in ToSet(a.senses) : ValidSense(s)
    /\ Covers(a.tokens, Tokens(chunk.blocks))
    /\ \A x \in ToSet(a.tokens) : ValidToken(x, chunk.candidates, senses)
    /\ \A c \in ToSet(a.constructions) : ValidConstruction(c, chunk.blocks, chunk.candidates, senses)
    /\ LayersApart(a.constructions, chunk.blocks)

\* Constructions are numbered in source order; the texts that decide between
\* two with the same ends are left out.
ConstructionBefore(c, d) ==
    \/ c.members[1][2] < d.members[1][2]
    \/ c.members[1] = d.members[1] /\ Last(c.members)[2] < Last(d.members)[2]

SourceOrders(cs) ==
    {order \in [DOMAIN cs -> DOMAIN cs] : \A i, j \in DOMAIN cs :
        /\ order[i] = order[j] => i = j
        /\ i < j => ~ConstructionBefore(cs[order[j]], cs[order[i]])}

\* What an accepted answer becomes.
Validated(chunk, a) ==
    {[tokens |-> a.tokens, senses |-> a.senses,
      constructions |-> [k \in DOMAIN a.constructions |->
          LET c == a.constructions[order[k]] IN
          [construction_id |-> <<chunk.block, k>>, construction |-> c,
           spans |-> [i \in DOMAIN c.spans |-> ResolveSpan(chunk.blocks, c.spans[i])]]]] :
        order \in SourceOrders(a.constructions)}

\* The provider's shape again, without the server's numbering.
rawLinguisticArtifact(v) ==
    [tokens |-> v.tokens, senses |-> v.senses,
     constructions |-> [k \in DOMAIN v.constructions |-> v.constructions[k].construction]]

Named(items, key, name)    == items[CHOOSE i \in DOMAIN items : items[i][key] = name]
ShadowOf(items, key, name) == Named(items, key, name).shadow

\* A translation is refused when there is nothing to translate.
Untranslatable(v) == v.tokens = <<>>

ValidateTranslation(chunk, v, a) ==
    LET senses == ToSet(a.senses) \cup chunk.prior
        forms  == ToSet(v.senses) \cup chunk.prior
    IN  /\ ~Untranslatable(v)
        /\ Corresponds(a.tokens, "token", {x.token : x \in ToSet(v.tokens)})
        /\ Corresponds(a.senses, "ref", {s.ref : s \in ToSet(v.senses)})
        /\ Corresponds(a.constructions, "construction_id", {c.construction_id : c \in ToSet(v.constructions)})
        /\ \A s \in ToSet(a.senses) : s.english # <<>> /\ Safe(s.english)
        /\ \A x \in ToSet(v.tokens) :
              ValidSubtitle(x.class, WordOf(chunk.blocks, x.token),
                            ShadowOf(a.tokens, "token", x.token),
                            Said(x, chunk.candidates, senses, "english"))
        /\ \A c \in ToSet(v.constructions) :
              ValidConstructionSubtitle(c.construction, chunk.blocks,
                  ShadowOf(a.constructions, "construction_id", c.construction_id),
                  Said(c.construction, chunk.candidates, forms, "canonical"))

With(r, field, value) == [f \in DOMAIN r \cup {field} |-> IF f = field THEN value ELSE r[f]]

MergeLinguisticTranslation(v, a) ==
    [tokens |-> [i \in DOMAIN v.tokens |->
        With(v.tokens[i], "shadow", ShadowOf(a.tokens, "token", v.tokens[i].token))],
     senses |-> [i \in DOMAIN v.senses |->
        With(v.senses[i], "english",
             Named(a.senses, "ref", v.senses[i].ref).english)],
     constructions |-> [i \in DOMAIN v.constructions |->
        With(v.constructions[i].construction, "shadow",
             ShadowOf(a.constructions, "construction_id", v.constructions[i].construction_id))]]

-----------------------------------------------------------------------------
(* The merged answer.                                                       *)

ValidateResponse(blocks, candidates, r, prior) ==
    LET senses == prior \cup ToSet(r.senses) IN
    /\ ValidRefs(prior, r.senses)
    /\ \A s \in senses : ValidSense(s) /\ s.english # <<>> /\ Safe(s.english)
    /\ Covers(r.tokens, Tokens(blocks))
    /\ \A x \in ToSet(r.tokens) :
          /\ ValidToken(x, candidates, senses)
          /\ ValidSubtitle(x.class, WordOf(blocks, x.token), x.shadow, Said(x, candidates, senses, "english"))
    /\ \A c \in ToSet(r.constructions) :
          /\ ValidConstruction(c, blocks, candidates, senses)
          /\ ValidConstructionSubtitle(c, blocks, c.shadow, Said(c, candidates, senses, "canonical"))
    /\ LayersApart(r.constructions, blocks)

ValidateChunkResponse(chunk, r) ==
    /\ ValidateResponse(chunk.blocks, chunk.candidates, r, chunk.prior)
    /\ \A s \in ToSet(r.senses) : RefLength(s.ref) <= LocalRef

\* References to a paragraph's own senses get its prefix.
NamespaceAllowed(b, r, prior) ==
    \A s \in ToSet(r.senses) :
        /\ RefLength(Prefixed(b, s.ref)) <= EveryRef
        /\ \A p \in prior : p.ref # s.ref /\ p.ref # Prefixed(b, s.ref)

Rewrite(b, r, ref) == IF \E s \in ToSet(r.senses) : s.ref = ref THEN Prefixed(b, ref) ELSE ref

\* Faulty: constructions keep their references.
NamespaceWords(b, r) ==
    LET point(xs) == [i \in DOMAIN xs |-> With(xs[i], "ref", Rewrite(b, r, xs[i].ref))]
    IN  [tokens |-> point(r.tokens), senses |-> point(r.senses), constructions |-> r.constructions]

NamespaceChunkResponse(b, r) ==
    LET point(xs) == [i \in DOMAIN xs |-> With(xs[i], "ref", Rewrite(b, r, xs[i].ref))]
    IN  [tokens |-> point(r.tokens), senses |-> point(r.senses),
         constructions |-> point(r.constructions)]

\* The answer to paragraph b, and the senses that the ones before it carry forward.
NamespacedChunk(chunks, b) == NamespaceChunkResponse(b, chunks[b + 1].response)
CarriedInto(chunks, b)     == UNION {ToSet(NamespacedChunk(chunks, k).senses) : k \in 0 .. b - 1}

\* The items of all answers, by paragraph and position.
AllItems(chunks, field) ==
    LET places == UNION {{<<b, i>> : i \in DOMAIN NamespacedChunk(chunks, b)[field]} :
                            b \in 0 .. Len(chunks) - 1}
    IN  [p \in places |-> NamespacedChunk(chunks, p[1])[field][p[2]]]

\* The whole article once more, from the answers as the providers gave them.
MergeChunks(blocks, candidates, chunks) ==
    /\ DOMAIN blocks = 0 .. Len(chunks) - 1
    /\ \A b \in DOMAIN blocks :
          LET chunk == PrepareChunk(blocks, candidates, b, CarriedInto(chunks, b)) IN
          /\ chunks[b + 1].chunk = chunk
          /\ ValidateChunkResponse(chunk, chunks[b + 1].response)
          /\ NamespaceAllowed(b, chunks[b + 1].response, CarriedInto(chunks, b))
    /\ ValidateResponse(blocks, candidates,
                        [tokens |-> AllItems(chunks, "tokens"), senses |-> AllItems(chunks, "senses"),
                         constructions |-> AllItems(chunks, "constructions")], {})

-----------------------------------------------------------------------------
(* The shared lexicon.                                                      *)

SenseId(s) == [kind |-> s.kind, form |-> NormalizeForm(s.canonical), disc |-> s.disc]

Homonyms(ids, o) == {id \in ids : id.kind = o.kind /\ id.form = o.form}

\* The first of a list of senses with one of these identities.
FirstOf(senses, ids) == senses[Min({i \in DOMAIN senses : SenseId(senses[i]) \in ids})]

\* Faulty: a homonym of an entry is not added.
EnsureSpellings(lexicon, senses) ==
    [o \in DOMAIN lexicon \cup {id \in {SenseId(s) : s \in ToSet(senses)} :
                                   Homonyms(DOMAIN lexicon, id) = {}} |->
        IF o \in DOMAIN lexicon THEN lexicon[o]
        ELSE [canonical |-> FirstOf(senses, {o}).canonical, english |-> FirstOf(senses, {o}).english]]

\* A list of senses, one after the other.  An active sense of the same identity
\* is reused as it is; a new one takes the spelling of its item, which is that
\* of the first sense of the kind and form.
EnsureSenses(lexicon, senses) ==
    LET named == {SenseId(s) : s \in ToSet(senses)} IN
    [o \in DOMAIN lexicon \cup named |->
        IF o \in DOMAIN lexicon THEN lexicon[o]
        ELSE [canonical |-> IF Homonyms(DOMAIN lexicon, o) # {}
                            THEN lexicon[CHOOSE h \in Homonyms(DOMAIN lexicon, o) : TRUE].canonical
                            ELSE FirstOf(senses, Homonyms(named, o)).canonical,
              english   |-> FirstOf(senses, {o}).english]]
=============================================================================
