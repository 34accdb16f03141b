------------------------------ MODULE TextServices -----------------------------
(***************************************************************************)
(* What the bridge does with the model beside correcting: rephrasing,      *)
(* tones and continuations, from the handlers of restserver/handlers.go    *)
(* through Service.Rephrase and AnalyzeTone (correction/service.go) and    *)
(* Complete (complete.go), with the caches of tones and continuations      *)
(* (tone_cache.go, complete_cache.go).  Requests run at the same time and  *)
(* share only the caches.                                                  *)
(*                                                                         *)
(* A text is a sequence of sentences, of which some are blank, and a unit  *)
(* of it is a text too.  A backend is the name of its model and the place  *)
(* it is at: the caches know the name alone.  A body that does not decode  *)
(* or names no known provider is refused before anything here; the log of  *)
(* tones is left out.                                                      *)
(***************************************************************************)
EXTENDS Integers, Sequences, SequencesExt, FiniteSets

CONSTANTS
  Requests,   \* requests, each made at most once
  Asks,       \* what may be asked
  Setups,     \* configurations of the service
  CacheSize   \* entries of each cache

VARIABLE services

Features == {"rephrase", "tone", "complete"}

\* What is asked is of one of the handlers, about a text of sentences.
Constants ==
  \A ask \in Asks :
    /\ ask.feature \in Features /\ ask.granularity \in {"sentence", "field"}
    /\ ask.text \in Seq(STRING) /\ ask.alternatives \in Int

Nothing == [is |-> "none"]
Blank == <<"">>

\* What the model says: tones as they parse, of a rephrasing or a continuation
\* what is left when it is trimmed.
Tones == {{}, {[tag |-> "polite", confidence |-> 0]},
          {[tag |-> "polite", confidence |-> 2], [tag |-> "direct", confidence |-> 1]}}
Wordings == {"", "one", "two"}

Init ==
  \E setup \in Setups :
    services = [setup |-> setup,
                toneCache |-> <<>>, completeCache |-> <<>>,   \* least recently used first
                hits |-> 0, misses |-> 0,                     \* of the tone cache
                requests |-> [r \in Requests |-> Nothing],
                \* history: what which model said, and of what
                given |-> [feature \in Features |-> {}]]

-----------------------------------------------------------------------------
(* The caches: lru.Cache.  Slip_... definitions are slips the definition   *)
(* after them could have; nothing uses them.                               *)

Cached(cache, key) == \E i \in DOMAIN cache : cache[i].key = key
Place(cache, key) == CHOOSE i \in DOMAIN cache : cache[i].key = key
EntryOf(cache, key) == cache[Place(cache, key)]
Without(cache, key) == IF Cached(cache, key) THEN RemoveAt(cache, Place(cache, key)) ELSE cache
Used(cache, key) == Append(Without(cache, key), EntryOf(cache, key))

Added(cache, key, value) ==
  LET next == Append(Without(cache, key), [key |-> key, value |-> value])
  IN  IF CacheSize <= 0 THEN <<>> ELSE IF Len(next) > CacheSize THEN Tail(next) ELSE next

Slip_TextAlone(model, unit) == <<"", unit>>
ToneKey(model, unit) == <<model, unit>>
CompleteKey(source, text) == <<source, text>>

-----------------------------------------------------------------------------
(* Handlers. *)

Refused(status) == [is |-> "done", status |-> status, ask |-> Nothing, answer |-> Nothing]
Done(req, status, answer) == [is |-> "done", status |-> status, ask |-> req.ask, answer |-> answer]

\* The backend of the request, of the feature, of rephrasing, or the service's;
\* building one may fail.
Slip_DefaultWins(setup, ask) ==
  IF setup.factory /\ ask.feature = "tone" /\ setup.tone # Nothing THEN setup.tone
  ELSE IF setup.factory /\ ask.override # Nothing THEN ask.override ELSE setup.llm
ClientOf(setup, ask) ==
  IF ask.feature = "complete" \/ ~setup.factory THEN setup.llm
  ELSE IF ask.override # Nothing THEN ask.override
  ELSE IF ask.feature = "tone" /\ setup.tone # Nothing THEN setup.tone
  ELSE IF setup.rephrase # Nothing THEN setup.rephrase
  ELSE setup.llm

Built(setup, ask) ==
  /\ setup.factory /\ ask.feature # "complete"
  /\ \/ ask.override # Nothing \/ setup.rephrase # Nothing
     \/ ask.feature = "tone" /\ setup.tone # Nothing

Enabled(setup, feature) ==
  CASE feature = "tone" -> setup.toneEnabled
    [] feature = "complete" -> setup.completeEnabled
    [] OTHER -> TRUE

\* The units a tone is of.
Units(setup, ask) ==
  IF ask.granularity = "sentence" THEN [i \in DOMAIN ask.text |-> <<ask.text[i]>>]
  ELSE IF Len(ask.text) < setup.toneMinChars THEN <<>>
  ELSE <<ask.text>>

Began(setup, ask) ==
  LET client == ClientOf(setup, ask)
  IN  IF client = Nothing THEN Refused(502)
      ELSE CASE ask.feature = "rephrase" ->
                  [is |-> "running", ask |-> ask, client |-> client, called |-> 0, variants |-> <<>>]
             [] ask.feature = "tone" ->
                  [is |-> "running", ask |-> ask, client |-> client,
                   left |-> Units(setup, ask), tones |-> <<>>, waits |-> FALSE]
             [] OTHER -> [is |-> "running", ask |-> ask, client |-> client, waits |-> FALSE]

Ask(r) ==
  /\ services.requests[r] = Nothing
  /\ \E ask \in Asks, fails \in BOOLEAN :
       LET setup == services.setup IN
       /\ fails => Built(setup, ask)
       /\ services' = [services EXCEPT !.requests[r] =
            IF ~Enabled(setup, ask.feature) THEN Refused(404)
            ELSE IF ask.text = <<>> THEN Refused(400)
            ELSE IF fails THEN Refused(502)
            ELSE Began(setup, ask)]

Said(s, req, of, what) ==
  [s EXCEPT !.given[req.ask.feature] = @ \cup {[by |-> req.client, of |-> of, is |-> what]}]

-----------------------------------------------------------------------------
(* Rephrasing. *)

Calls(ask) == IF ask.alternatives < 1 THEN 1 ELSE IF ask.alternatives > 5 THEN 5 ELSE ask.alternatives

Rephrased(req, variants) ==
  IF variants = <<>> THEN Done(req, 502, Nothing) ELSE Done(req, 200, variants)

Slip_KeepsAll(variants, v) == IF v = "" THEN variants ELSE Append(variants, v)
Varied(variants, v) == IF v = "" \/ Contains(variants, v) THEN variants ELSE Append(variants, v)

\* One call of the loop of Rephrase; an error ends it.
CallToRephrase(r) ==
  LET req == services.requests[r] IN
  /\ req.is = "running" /\ req.ask.feature = "rephrase"
  /\ \/ services' = [services EXCEPT !.requests[r] = Rephrased(req, req.variants)]
     \/ \E v \in Wordings :
          LET variants == Varied(req.variants, v)
              next == [req EXCEPT !.called = @ + 1, !.variants = variants]
          IN  services' = [Said(services, req, req.ask.text, v) EXCEPT
                !.requests[r] = IF next.called = Calls(req.ask) THEN Rephrased(next, variants) ELSE next]

-----------------------------------------------------------------------------
(* Tones. *)

\* The most sure of each tag.
Aggregated(sentences) ==
  LET all == UNION ToSet(sentences) IN
  {t \in all : \A u \in all : u.tag = t.tag => u.confidence <= t.confidence}

Toned(req, tones) ==
  [req EXCEPT !.left = Tail(@), !.tones = Append(@, tones), !.waits = FALSE]

\* All units have theirs, or the text is too short.
FinishTone(r) ==
  LET req == services.requests[r] IN
  /\ req.is = "running" /\ req.ask.feature = "tone" /\ req.left = <<>>
  /\ services' = [services EXCEPT !.requests[r] =
       Done(req, 200, [tags |-> Aggregated(req.tones),
                       sentences |-> IF req.ask.granularity = "sentence" THEN req.tones ELSE <<>>])]

\* toneTagsFor: blank, cached, or to be asked for.
LookForTone(r) ==
  LET req == services.requests[r]
      unit == Head(req.left)
      key == ToneKey(req.client.model, unit)
  IN  /\ req.is = "running" /\ req.ask.feature = "tone" /\ req.left # <<>> /\ ~req.waits
      /\ services' =
           IF unit = Blank THEN [services EXCEPT !.requests[r] = Toned(req, {})]
           ELSE IF Cached(services.toneCache, key)
           THEN [services EXCEPT !.toneCache = Used(@, key), !.hits = @ + 1,
                                 !.requests[r] = Toned(req, EntryOf(services.toneCache, key).value)]
           ELSE [services EXCEPT !.requests[r].waits = TRUE,
                                 !.misses = @ + (IF CacheSize > 0 THEN 1 ELSE 0)]

\* A model that fails, or makes no sense, has said nothing, and that is not kept.
HearTone(r) ==
  LET req == services.requests[r]
      unit == Head(req.left)
  IN  /\ req.is = "running" /\ req.ask.feature = "tone" /\ req.left # <<>> /\ req.waits
      /\ \/ services' = [services EXCEPT !.requests[r] = Toned(req, {})]
         \/ \E tones \in Tones :
              services' = [Said(services, req, unit, tones) EXCEPT
                !.requests[r] = Toned(req, tones),
                !.toneCache = Added(@, ToneKey(req.client.model, unit), tones)]

-----------------------------------------------------------------------------
(* Continuations. *)

LookForCompletion(r) ==
  LET req == services.requests[r]
      key == CompleteKey(req.ask.source, req.ask.text)
  IN  /\ req.is = "running" /\ req.ask.feature = "complete" /\ ~req.waits
      /\ services' =
           IF Cached(services.completeCache, key)
           THEN [services EXCEPT !.completeCache = Used(@, key),
                  !.requests[r] = Done(req, 200, EntryOf(services.completeCache, key).value)]
           ELSE [services EXCEPT !.requests[r].waits = TRUE]

Slip_KeepsEmpty(cache, key, v) == Added(cache, key, v)
\* A continuation that is empty may be asked for again.
Completed(cache, key, v) == IF v = "" THEN cache ELSE Added(cache, key, v)

HearCompletion(r) ==
  LET req == services.requests[r]
      key == CompleteKey(req.ask.source, req.ask.text)
  IN  /\ req.is = "running" /\ req.ask.feature = "complete" /\ req.waits
      /\ \/ services' = [services EXCEPT !.requests[r] = Done(req, 502, Nothing)]
         \/ \E v \in Wordings :
              services' = [Said(services, req, key, v) EXCEPT
                !.requests[r] = Done(req, 200, v),
                !.completeCache = Completed(@, key, v)]

Next ==
  \E r \in Requests :
    \/ Ask(r) \/ CallToRephrase(r)
    \/ FinishTone(r) \/ LookForTone(r) \/ HearTone(r)
    \/ LookForCompletion(r) \/ HearCompletion(r)

Spec == Init /\ [][Next]_services

-----------------------------------------------------------------------------
(* Properties.  Invariants. *)

CacheOK(cache) ==
  /\ Len(cache) <= CacheSize
  /\ \A i, j \in DOMAIN cache : cache[i].key = cache[j].key => i = j

\* The caches stay within their size with one entry of a key, and a request is
\* answered with one of the statuses of its handler.
TypeOK ==
  /\ CacheOK(services.toneCache) /\ CacheOK(services.completeCache)
  /\ services.hits \in Nat /\ services.misses \in Nat
  /\ \A r \in Requests :
       LET req == services.requests[r] IN
       \/ req = Nothing
       \/ req.is = "running" /\ req.ask \in Asks /\ req.client # Nothing
       \/ req.is = "done" /\ req.status \in {200, 400, 404, 502}

\* Whatever is remembered was said, by a model of that name of that text, and is
\* more than nothing where nothing may be asked for again.
RememberedWasSaid ==
  /\ \A e \in ToSet(services.toneCache) :
       \E g \in services.given["tone"] : <<g.by.model, g.of>> = e.key /\ g.is = e.value
  /\ \A e \in ToSet(services.completeCache) :
       e.value # "" /\ \E g \in services.given["complete"] : g.of = e.key /\ g.is = e.value

\* The model a request was to have said it: the one it names, if one can be had.
WasSaid(ask, text, what) ==
  LET wanted == IF services.setup.factory /\ ask.override # Nothing THEN ask.override.model
                ELSE ClientOf(services.setup, ask).model
  IN  \E g \in services.given[ask.feature] : g.by.model = wanted /\ g.of = text /\ g.is = what

\* Alternatives differ and say something.
RephrasingWasSaid(ask, answer) ==
  /\ answer # <<>> /\ IsInjective(answer) /\ "" \notin ToSet(answer)
  /\ Len(answer) <= 5
  /\ \A v \in ToSet(answer) : WasSaid(ask, ask.text, v)

ContinuationWasSaid(ask, answer) ==
  \E g \in services.given["complete"] : g.of = CompleteKey(ask.source, ask.text) /\ g.is = answer

\* Tones of a text are those of its sentences, none less sure than a sentence has it.
TonesWereSaid(ask, answer) ==
  /\ \A s, t \in answer.tags : s.tag = t.tag => s = t
  /\ ask.granularity = "field" => answer.tags = {} \/ WasSaid(ask, ask.text, answer.tags)
  /\ ask.granularity = "sentence" =>
       /\ Len(answer.sentences) = Len(ask.text)
       /\ \A i \in DOMAIN ask.text :
            answer.sentences[i] = {} \/ WasSaid(ask, <<ask.text[i]>>, answer.sentences[i])
       /\ \A i \in DOMAIN ask.text : \A t \in answer.sentences[i] :
            \E u \in answer.tags : u.tag = t.tag /\ u.confidence >= t.confidence

\* What a request is answered with was said of its own text.
AnswersWereSaid ==
  \A r \in Requests :
    LET req == services.requests[r]
    IN  req.is = "done" /\ req.status = 200 =>
          /\ req.ask.feature = "rephrase" => RephrasingWasSaid(req.ask, req.answer)
          /\ req.ask.feature = "complete" => ContinuationWasSaid(req.ask, req.answer)
          /\ req.ask.feature = "tone" => TonesWereSaid(req.ask, req.answer)

\* Every unit that has something to ask of is looked for once, in the cache or by
\* asking, in whatever order requests take turns.
UnitsLookedUpOnce ==
  CacheSize > 0 =>
    services.hits + services.misses =
      MapThenSumSet(LAMBDA r :
        LET req == services.requests[r] IN
        IF req.is = "none" THEN 0
        ELSE IF req.ask = Nothing THEN 0
        ELSE IF req.ask.feature # "tone" THEN 0
        ELSE LET units == Units(services.setup, req.ask)
                 seen  == IF req.is = "done" THEN Len(units)
                          ELSE Len(req.tones) + (IF req.waits THEN 1 ELSE 0)
             IN  Cardinality({i \in 1..seen : units[i] # Blank}), Requests)
=============================================================================
