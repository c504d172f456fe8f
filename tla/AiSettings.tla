------------------------------ MODULE AiSettings ------------------------------
(***************************************************************************)
(* The settings that say which AI provider and which model answer a call:  *)
(* the rows an administrator and the users write (platform/config), and    *)
(* the calls that look them up, one row at a time, while they change       *)
(* (ai/providers/ai-provider.factory.ts and the five providers).           *)
(***************************************************************************)
EXTENDS Naturals, Sequences, FiniteSets

CONSTANTS
    Users,
    Writers,       \* requests that set or delete a setting
    Calls,         \* calls of a provider
    WrittenKeys,   \* the keys the requests are about
    WrittenValues, \* and the values they set
    CallKinds,         \* what the calls ask for: "text", "audio" or "chat"
    Models,        \* model names a setting may hold
    Aliases,       \* names OmniRoute takes for its own default: general-audio-combo, nova-3
    DefaultModels, \* per provider and kind, the models used when none is set
    Configured,    \* providers whose API key is in the environment
    MaxIds,        \* rows made in all
    None

Providers == {"gemini", "openrouter", "groq", "omniroute", "cloudflare"}
ProviderKeys == {"ai.provider", "ai.audio.provider", "ai.chat.provider"}
Keys == ProviderKeys \cup {"ai.model", "ai.audio.model", "ai.chat.model"}
Owners == Users \cup {"system"}
Values == Providers \cup Models \cup {"junk"}

ASSUME SettingsAssumption ==
    /\ "system" \notin Users /\ None \notin Users \cup Values /\ "junk" \notin Models
    /\ Models \cap Providers = {}
    /\ WrittenKeys \subseteq Keys /\ WrittenValues \subseteq Values
    /\ CallKinds \subseteq {"text", "audio", "chat"}
    /\ Aliases \subseteq Models /\ Configured \subseteq Providers
    /\ DefaultModels \in [Providers \X {"text", "audio", "chat"} -> SUBSET Models \ {{}}]
    /\ \E m \in Models : DefaultModels[<<"omniroute", "audio">>] = {m}
    /\ MaxIds \in Nat

VARIABLES
    rows,    \* the table config
    nextId,
    writes,  \* the requests
    calls    \* the calls

settingsVars == <<rows, nextId, writes, calls>>

Row == [id : 1..MaxIds, owner : Owners, key : Keys, value : Values]
Write == [pc : {"new", "find", "update", "create", "delete", "done", "failed"}, owner : Owners,
          key : Keys, value : Values \cup {None}, id : 0..MaxIds]
Call == [pc : {"new", "provider", "model", "api", "answered", "failed"},
         kind : {"text", "audio", "chat"}, user : Users \cup {None},
         keys : Seq(Keys), own : BOOLEAN, provider : Providers \cup {None},
         tried : Seq(Models), disturbed : BOOLEAN]

SettingsTypeOK ==
    /\ rows \subseteq Row
    /\ nextId \in 1..MaxIds + 1
    /\ writes \in [Writers -> Write]
    /\ calls \in [Calls -> Call]

SettingsInit ==
    /\ rows = {}
    /\ nextId = 1
    /\ writes = [w \in Writers |-> [pc |-> "new", owner |-> "system", key |-> "ai.provider",
                                    value |-> None, id |-> 0]]
    /\ calls = [c \in Calls |-> [pc |-> "new", kind |-> "text", user |-> None, keys |-> <<>>,
                                 own |-> FALSE, provider |-> None, tried |-> <<>>,
                                 disturbed |-> FALSE]]

Of(owner, key) == {r \in rows : r.owner = owner /\ r.key = key}

-----------------------------------------------------------------------------
(* Setting and deleting. *)

\* ConfigPipe: a provider is one of four, except for the chat, whose keys take any value.
Accepted(key) ==
    CASE key \in {"ai.provider", "ai.audio.provider"} -> Providers \ {"cloudflare"}
      [] key \in {"ai.model", "ai.audio.model"}       -> Models
      [] key = "ai.chat.provider"                     -> Providers \cup {"junk"}
      [] key = "ai.chat.model"                        -> Models \cup {"junk"}

\* What a call under way has read may now be stale.
Disturb == calls' = [c \in Calls |-> [calls[c] EXCEPT !.disturbed = @ \/ calls[c].pc # "new"]]

Finish(w, outcome) == writes' = [writes EXCEPT ![w].pc = outcome]

\* A request to set a value; to delete, when there is none.
RequestSetting(w) ==
    /\ writes[w].pc = "new"
    /\ \E owner \in Owners, key \in WrittenKeys :
       \E value \in (Accepted(key) \cap WrittenValues) \cup {None} :
          writes' = [writes EXCEPT ![w] = [pc |-> "find", owner |-> owner, key |-> key,
                                           value |-> value, id |-> 0]]
    /\ UNCHANGED <<rows, nextId, calls>>

\* upsertUserConfig: one statement, ON CONFLICT of the unique index on scope, user and key.
UpsertUserConfig(w) ==
    LET write == writes[w] IN
    /\ write.pc = "find" /\ write.owner # "system" /\ write.value # None
    /\ nextId <= MaxIds
    /\ LET old == Of(write.owner, write.key) IN
       IF old # {}
       THEN /\ rows' = {IF r \in old THEN [r EXCEPT !.value = write.value] ELSE r : r \in rows}
            /\ UNCHANGED nextId
       ELSE /\ rows' = rows \cup {[id |-> nextId, owner |-> write.owner, key |-> write.key,
                                   value |-> write.value]}
            /\ nextId' = nextId + 1
    /\ Finish(w, "done")
    /\ Disturb

\* upsertSystemConfig and the two deletions look for the row first.
FindConfig(w) ==
    LET write == writes[w]
        found == Of(write.owner, write.key) IN
    /\ write.pc = "find"
    /\ write.owner = "system" \/ write.value = None
    /\ \/ \E r \in found :
             writes' = [writes EXCEPT ![w].pc = IF write.value = None THEN "delete" ELSE "update",
                                      ![w].id = r.id]
       \/ found = {} /\ Finish(w, IF write.value = None THEN "failed" ELSE "create")
    /\ UNCHANGED <<rows, nextId, calls>>

\* The partial unique index on the system's keys (migration 20251109002702).
Unique(owner, key) == Of(owner, key) = {}

CreateConfig(w) ==
    LET write == writes[w] IN
    /\ write.pc = "create"
    /\ nextId <= MaxIds
    /\ Unique(write.owner, write.key)
    /\ rows' = rows \cup {[id |-> nextId, owner |-> write.owner, key |-> write.key,
                           value |-> write.value]}
    /\ nextId' = nextId + 1
    /\ Finish(w, "done")
    /\ Disturb

CreateConflict(w) ==
    /\ writes[w].pc = "create"
    /\ ~Unique(writes[w].owner, writes[w].key)
    /\ Finish(w, "failed")
    /\ UNCHANGED <<rows, nextId, calls>>

UpdateConfig(w) ==
    LET write == writes[w] IN
    /\ write.pc = "update"
    /\ \E r \in rows : r.id = write.id
    /\ rows' = {IF r.id = write.id THEN [r EXCEPT !.value = write.value] ELSE r : r \in rows}
    /\ Finish(w, "done")
    /\ Disturb
    /\ UNCHANGED nextId

DeleteConfig(w) ==
    /\ writes[w].pc = "delete"
    /\ \E r \in rows : r.id = writes[w].id
    /\ rows' = {r \in rows : r.id # writes[w].id}
    /\ Finish(w, "done")
    /\ Disturb
    /\ UNCHANGED nextId

\* The row found is gone: Prisma's P2025.
RowGone(w) ==
    /\ writes[w].pc \in {"update", "delete"}
    /\ \A r \in rows : r.id # writes[w].id
    /\ Finish(w, "failed")
    /\ UNCHANGED <<rows, nextId, calls>>

-----------------------------------------------------------------------------
(* Looking up. *)

\* The keys that name the provider of a kind of call, the first to be tried first.
ProviderOrder(kind) ==
    CASE kind = "text"  -> <<"ai.provider">>
      [] kind = "audio" -> <<"ai.audio.provider", "ai.provider">>
      [] kind = "chat"  -> <<"ai.chat.provider", "ai.provider">>

\* Mutant: OmniRoute hears with the model it writes with.
ModelOrderShared(provider, kind) ==
    IF provider = "cloudflare" /\ kind # "audio" THEN <<"ai.chat.model">>
    ELSE IF kind = "audio" THEN <<"ai.audio.model", "ai.model">> ELSE <<"ai.model">>

\* The keys that name its model: getModelName and getAudioModelName of the provider.
ModelOrder(provider, kind) ==
    CASE provider = "cloudflare" /\ kind # "audio" -> <<"ai.chat.model">>
      [] provider # "cloudflare" /\ kind # "audio" -> <<"ai.model">>
      [] provider \in {"cloudflare", "omniroute"} /\ kind = "audio" -> <<"ai.audio.model">>
      [] provider \notin {"cloudflare", "omniroute"} /\ kind = "audio" ->
            <<"ai.audio.model", "ai.model">>

\* chat() asks for the model of nobody in particular: the system's.
ModelUser(kind, user) == IF kind = "chat" THEN None ELSE user

\* OmniRoute's names for its audio models: normalizeAudioModelName.
Normal(provider, kind, model) ==
    IF provider = "omniroute" /\ kind = "audio" /\ model \in Aliases
    THEN CHOOSE m \in DefaultModels[<<"omniroute", "audio">>] : TRUE ELSE model

Lookup(c, phase, provider, keys, user) ==
    calls' = [calls EXCEPT ![c].pc = phase, ![c].provider = provider, ![c].keys = keys,
                           ![c].own = user # None]

\* createProvider throws when the provider has no API key.
EnterModel(c, provider) ==
    LET call == calls[c] IN
    IF provider \in Configured
    THEN Lookup(c, "model", provider, ModelOrder(provider, call.kind),
                ModelUser(call.kind, call.user))
    ELSE calls' = [calls EXCEPT ![c].pc = "failed", ![c].provider = provider]

Use(c, model) == calls' = [calls EXCEPT ![c].pc = "api", ![c].tried = <<model>>]

\* A value has been read, or there is none: it is taken if it will do, else the next key's
\* turn comes, and after the last one the default's.
Found(c, value) ==
    LET call == calls[c]
        more == Len(call.keys) > 1 IN
    \/ call.pc = "provider" /\ value \in Providers /\ EnterModel(c, value)
    \/ call.pc = "provider" /\ value \notin Providers /\ ~more /\ EnterModel(c, "gemini")
    \/ /\ call.pc = "model" /\ value \in Models
       /\ Use(c, Normal(call.provider, call.kind, value))
    \/ /\ call.pc = "model" /\ value \notin Models /\ ~more
       /\ \E m \in DefaultModels[<<call.provider, call.kind>>] : Use(c, m)
    \/ /\ value \notin (IF call.pc = "provider" THEN Providers ELSE Models) /\ more
       /\ Lookup(c, call.pc, call.provider, Tail(call.keys),
                 IF call.pc = "model" THEN ModelUser(call.kind, call.user) ELSE call.user)

Start(c) ==
    /\ calls[c].pc = "new"
    /\ \E kind \in CallKinds, user \in Users \cup {None} :
          calls' = [calls EXCEPT ![c] = [@ EXCEPT !.pc = "provider", !.kind = kind, !.user = user,
                                         !.keys = ProviderOrder(kind), !.own = user # None]]
    /\ UNCHANGED <<rows, nextId, writes>>

\* findConfig: the user's row, whatever is in it, and only if there is none the system's.
FindUserConfig(c) ==
    LET call == calls[c]
        own == Of(call.user, Head(call.keys)) IN
    /\ call.pc \in {"provider", "model"} /\ call.own
    /\ IF own # {} THEN \E r \in own : Found(c, r.value)
                   ELSE calls' = [calls EXCEPT ![c].own = FALSE]
    /\ UNCHANGED <<rows, nextId, writes>>

FindSystemConfig(c) ==
    LET call == calls[c]
        common == Of("system", Head(call.keys)) IN
    /\ call.pc \in {"provider", "model"} /\ ~call.own
    /\ IF common # {} THEN \E r \in common : Found(c, r.value) ELSE Found(c, None)
    /\ UNCHANGED <<rows, nextId, writes>>

Answer(c) ==
    /\ calls[c].pc = "api"
    /\ calls' = [calls EXCEPT ![c].pc = "answered"]
    /\ UNCHANGED <<rows, nextId, writes>>

Fail(c) ==
    /\ calls[c].pc = "api"
    /\ calls' = [calls EXCEPT ![c].pc = "failed"]
    /\ UNCHANGED <<rows, nextId, writes>>

\* shouldRetryWithDefaultAudioModel
Retries(call) == /\ call.provider = "omniroute" /\ call.kind = "audio"
                 /\ Len(call.tried) = 1
                 /\ call.tried[1] \notin DefaultModels[<<"omniroute", "audio">>]

\* OmniRoute does not know the audio model: its default is tried instead.
InvalidModel(c) ==
    /\ calls[c].pc = "api"
    /\ Retries(calls[c])
    /\ \E m \in DefaultModels[<<"omniroute", "audio">>] :
          calls' = [calls EXCEPT ![c].tried = Append(@, m)]
    /\ UNCHANGED <<rows, nextId, writes>>

WriteStep(w) == \/ RequestSetting(w) \/ UpsertUserConfig(w) \/ FindConfig(w) \/ CreateConfig(w)
                \/ CreateConflict(w) \/ UpdateConfig(w) \/ DeleteConfig(w) \/ RowGone(w)
CallStep(c) == \/ Start(c) \/ FindUserConfig(c) \/ FindSystemConfig(c)
               \/ Answer(c) \/ Fail(c) \/ InvalidModel(c)

SettingsNext == (\E w \in Writers : WriteStep(w)) \/ (\E c \in Calls : CallStep(c))

SettingsSpec == SettingsInit /\ [][SettingsNext]_settingsVars

-----------------------------------------------------------------------------
(* Properties. *)

\* The reference: the first value, along the keys, that is one of the good ones; at each key
\* a user's own row hides the system's, whatever it holds.
Effective(user, key) ==
    LET seen == IF user # None /\ Of(user, key) # {} THEN Of(user, key) ELSE Of("system", key)
    IN  {r.value : r \in seen}
Chosen(user, keys, good) ==
    LET hits == {i \in DOMAIN keys : Effective(user, keys[i]) \cap good # {}} IN
    IF hits = {} THEN {}
    ELSE Effective(user, keys[CHOOSE i \in hits : \A j \in hits : i <= j])

\* A call during which no setting changed ends up with the provider and the first model that
\* the settings name for its kind and user, or with the defaults: the walk over up to eight
\* rows, own and system's, of up to four keys, adds up to that.
CallResolves ==
    \A c \in Calls :
        LET call == calls[c]
            named == Chosen(call.user, ProviderOrder(call.kind), Providers)
            order == IF call.kind = "audio" /\ call.provider # "omniroute" /\ call.provider # "cloudflare"
                     THEN <<"ai.audio.model", "ai.model">>
                     ELSE IF call.kind = "audio" THEN <<"ai.audio.model">>
                     ELSE IF call.provider = "cloudflare" THEN <<"ai.chat.model">> ELSE <<"ai.model">>
            model == Chosen(IF call.kind = "chat" THEN None ELSE call.user, order, Models)
        IN  ~call.disturbed /\ call.pc \in {"api", "answered", "failed"} =>
               /\ call.provider \in (IF named = {} THEN {"gemini"} ELSE named)
               /\ call.provider \notin Configured <=> call.tried = <<>>
               /\ call.tried # <<>> =>
                     call.tried[1] \in (IF model = {} THEN DefaultModels[<<call.provider, call.kind>>]
                                        ELSE {Normal(call.provider, call.kind, m) : m \in model})

\* Find-then-create by two administrators at once leaves one row of a key (which of several
\* findFirst returned would be the database's choice), and one of a user's.
OneRow == \A r, q \in rows : r.owner = q.owner /\ r.key = q.key => r = q

\* A transcription is asked of a model once: a refused default is not tried again.
NoModelTriedTwice == \A c \in Calls : \A i, j \in DOMAIN calls[c].tried :
    i # j => calls[c].tried[i] # calls[c].tried[j]
=============================================================================
