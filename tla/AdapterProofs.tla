------------------------------ MODULE AdapterProofs ------------------------------
(*
For any keys, forms, presets, rules and numbers of jobs: what the creation page offers the
forms take, what the forms and a regeneration queue can be sent, and what upstream answers
on a documented channel ends a wait only with the video.
*)
EXTENDS Adapter, FiniteSetTheorems, TLAPS

--------------------------------------------------------------------------------
\* Types.

\* Names the program knows, and what administrators type.
Text ==
  {"", "none", "default", "active", "disabled", "deleted", "renamed", "flow", "wuyin", "veo flash"}
  \cup LiveProviders \cup RETIRED_PROVIDERS \cup GROK_MODELS \cup OMNI_MODELS
  \cup UNION {{form.provider, form.model, form.model10, form.url} : form \in KeyForms}

Statuses == {"queued", "submitting", "submitted", "polling", "remote_completed", "completed", "failed"}
ChannelRow == [provider : Text, model : Text, model10 : Text, url : Text]
KeyRow == [provider : Text, model : Text, model10 : Text, url : Text, status : Text]
JobRecord ==
  [status : Statuses, prompt : {"clean", "word"}, key : Keys \cup {NoKey}, row : ChannelRow,
   model : Text, seconds : Nat, size : Sizes, images : Nat, video : BOOLEAN, retryOf : 0..MaxJobs]
Request ==
  [pc : {"chosen", "specs", "materials"}, prompts : SUBSET {"clean", "word"},
   normal : SUBSET {"clean", "word"}, key : Keys \cup {NoKey}, seconds : Nat, row : KeyRow,
   provider : Text, model : Text, size : Sizes \cup {<<"", "">>}, images : Nat, video : BOOLEAN]
Life ==
  [attempts : Nat, thread : {"none", "raised", "posting"}, channel : ChannelRow, full : BOOLEAN,
   link : {"none", "video", "echo"}, got : {"none", "video", "echo"}]

Types ==
  /\ key \in [Keys -> KeyRow]
  /\ req = Idle \/ req \in Request
  /\ job \in [Jobs -> JobRecord \cup {NoJob}]
  /\ task \in [Jobs -> {"none", "running", "finished", "failed"}]
  /\ life \in [Jobs -> Life]

\* What a form stored has the name the program knows, and an address.
Stored(row) == row.url # "none" /\ NormalizeProviderName(row.provider) = row.provider
KeyStored(k) == key[k] = NoRow \/ Stored(key[k])

--------------------------------------------------------------------------------
\* What the creation checks, step by step.

\* The job's request passes at channel `row`, with the model the channel has for it.
Sendable(row, j) ==
  /\ PayloadAccepted(row, [j EXCEPT !.model = ModelIdForSeconds(row, j.seconds)])
  /\ ~SubmitRaises(row, j)

ChannelChosen(r) ==
  r.key # NoKey =>
    /\ Stored(r.row) /\ Selectable(r.row, r.seconds)
    /\ r.provider = r.row.provider /\ r.model = ModelIdForSeconds(r.row, r.seconds)
SpecsFit(r) == r.pc \in {"specs", "materials"} => r.size \in Sizes /\ SpecsAllowed(r, r.size)
MaterialsFit(r) ==
  r.pc = "materials" /\ r.key # NoKey => r.images <= MaxImages(r.provider, r.model, r.size[1])
NormalHasKey(r) == r.normal = {} <=> r.key = NoKey

RequestFits(r) == ChannelChosen(r) /\ SpecsFit(r) /\ MaterialsFit(r) /\ NormalHasKey(r)

\* A job that waits has a key, its model is its channel's, and its request would pass. One
\* regenerated under an edited channel has no channel that could be as it was.
JobFits(j) ==
  job[j] # NoJob =>
    /\ job[j].key = NoKey => job[j].status = "failed"
    /\ job[j].key # NoKey => key[job[j].key] # NoRow
    /\ job[j].key # NoKey /\ job[j].row.url # "none" =>
         /\ Sendable(job[j].row, job[j])
         /\ job[j].status \in {"queued", "submitting"} =>
              job[j].model = ModelIdForSeconds(job[j].row, job[j].seconds)

CreationInv ==
  /\ \A k \in Keys : KeyStored(k)
  /\ req # Idle => RequestFits(req)
  /\ \A j \in Jobs : JobFits(j)

--------------------------------------------------------------------------------
\* What the answers leave behind.

\* Before its task there is nothing; on a documented channel full progress means that the
\* task has finished, and a link is the video's.
Told(n, t, l) ==
  /\ n.status \in {"none", "queued", "submitting"} => ~l.full /\ l.link = "none" /\ l.got = "none"
  /\ l.channel.provider \in FlowFamily /\ l.full => t = "finished"
  /\ l.channel.provider \in FlowFamily /\ ~LateLinks =>
       /\ l.link # "echo"
       /\ l.full => l.link = "video"
       /\ n.status = "completed" => l.got = "video"
LifeFits(j) == Told(job[j], task[j], life[j])

AdapterInv == Types /\ CreationInv /\ \A j \in Jobs : LifeFits(j)

--------------------------------------------------------------------------------
\* Channels.

LEMMA LiveNames ==
  \A p \in LiveProviders :
    NormalizeProviderName(p) = p /\ ProviderName(p) = p /\ ~ProviderIsRetired(p)
  <1> SUFFICES ASSUME NEW p \in LiveProviders
               PROVE  NormalizeProviderName(p) = p /\ ProviderName(p) = p /\ ~ProviderIsRetired(p)
    OBVIOUS
  <1>1. p \notin DOMAIN Alias
    BY DEF LiveProviders, Alias
  <1>2. NormalizeProviderName(p) = p
    BY <1>1 DEF NormalizeProviderName
  <1>3. p \notin RETIRED_PROVIDERS
    BY DEF LiveProviders, RETIRED_PROVIDERS
  <1> QED BY <1>2, <1>3 DEF ProviderName, ProviderIsRetired

\* The name a form stored normalises to itself.
LEMMA NormalIsNormal ==
  \A text : NormalizeProviderName(NormalizeProviderName(text)) = NormalizeProviderName(text)
  <1> SUFFICES ASSUME NEW text
               PROVE  NormalizeProviderName(NormalizeProviderName(text)) = NormalizeProviderName(text)
    OBVIOUS
  <1>1. DOMAIN Alias = {"grok", "sora", "google_omni"}
    BY DEF Alias
  <1>2. CASE text \in DOMAIN Alias
    <2>1. Alias[text] \in {"podgrok", "sora_api", "wuyin_omni"}
      BY <1>1, <1>2 DEF Alias
    <2>2. Alias[text] \notin DOMAIN Alias
      BY <1>1, <2>1
    <2> QED BY <1>2, <2>2 DEF NormalizeProviderName
  <1>3. CASE text \notin DOMAIN Alias
    BY <1>3 DEF NormalizeProviderName
  <1> QED BY <1>2, <1>3

\* The lengths of the channels in use.
LEMMA LiveLengths ==
  /\ DOMAIN PROVIDER_SECONDS = LiveProviders \cup RETIRED_PROVIDERS
  /\ PROVIDER_SECONDS["oaire_grok"] = 1..15 /\ PROVIDER_SECONDS["flow_omni"] = {8}
  /\ PROVIDER_SECONDS["oaire_omni"] = {10} /\ PROVIDER_SECONDS["veo_omni"] = {10}
  /\ PROVIDER_SECONDS["wuyin_omni"] = {10}
  BY DEF PROVIDER_SECONDS, LiveProviders, RETIRED_PROVIDERS

LEMMA ModelOf ==
  \A row, s : row.provider \in LiveProviders /\ ModelIdForSeconds(row, s) # NoModel =>
    /\ row.provider = "oaire_grok" => s \in 1..15 /\ ModelIdForSeconds(row, s) \in GROK_MODELS
    /\ row.provider = "flow_omni" => s \in {8} /\ ModelIdForSeconds(row, s) = "flow"
    /\ row.provider = "oaire_omni" => s \in {10} /\ ModelIdForSeconds(row, s) \in OMNI_MODELS
    /\ row.provider \in {"wuyin_omni", "veo_omni"} => s \in {10}
  <1> SUFFICES ASSUME NEW row, NEW s, row.provider \in LiveProviders,
                      ModelIdForSeconds(row, s) # NoModel
               PROVE
    /\ row.provider = "oaire_grok" => s \in 1..15 /\ ModelIdForSeconds(row, s) \in GROK_MODELS
    /\ row.provider = "flow_omni" => s \in {8} /\ ModelIdForSeconds(row, s) = "flow"
    /\ row.provider = "oaire_omni" => s \in {10} /\ ModelIdForSeconds(row, s) \in OMNI_MODELS
    /\ row.provider \in {"wuyin_omni", "veo_omni"} => s \in {10}
    BY Zenon
  <1>0. NormalizeProviderName(row.provider) = row.provider
    BY LiveNames
  <1>1. CASE row.provider = "oaire_grok"
    BY <1>0, <1>1 DEF ModelIdForSeconds
  <1>2. CASE row.provider = "flow_omni"
    BY <1>0, <1>2 DEF ModelIdForSeconds
  <1>3. CASE row.provider = "oaire_omni"
    BY <1>0, <1>3 DEF ModelIdForSeconds
  <1>4. CASE row.provider \in {"wuyin_omni", "veo_omni"}
    BY <1>0, <1>4 DEF ModelIdForSeconds
  <1> QED BY <1>1, <1>2, <1>3, <1>4 DEF LiveProviders

\* A key that may be chosen is of a channel in use.
LEMMA ChosenIsLive ==
  \A row, s : Selectable(row, s) /\ NormalizeProviderName(row.provider) = row.provider
               => row.provider \in LiveProviders
  BY LiveLengths DEF Selectable, ProviderIsRetired, ProviderSupportsSeconds

\* The checks of the creation form cover those of the request's builder.
LEMMA ChecksAgree ==
  ASSUME NEW row, row.provider \in LiveProviders, row.url # "none", NEW j \in JobRecord,
         ModelIdForSeconds(row, j.seconds) # NoModel,
         j.images <= MaxImages(row.provider, ModelIdForSeconds(row, j.seconds), j.size[1]),
         IF row.provider = "oaire_grok"
         THEN ValidGrok(ModelIdForSeconds(row, j.seconds), j.seconds, j.size, j.images)
         ELSE j.size \in SUPPORTED_VIDEO_SIZES,
         j.video => row.provider \notin FlowFamily \cup {"veo_omni"}
  PROVE  Sendable(row, j)
  <1> DEFINE m == ModelIdForSeconds(row, j.seconds)
             J == [j EXCEPT !.model = m]
  <1>1. ProviderName(row.provider) = row.provider
    BY LiveNames
  <1>2. /\ J.model = m /\ J.seconds = j.seconds /\ J.size = j.size /\ J.images = j.images
        /\ J.video = j.video
    BY DEF JobRecord
  <1>3. /\ row.provider = "oaire_grok" => j.seconds \in 1..15 /\ m \in GROK_MODELS
        /\ row.provider = "flow_omni" => j.seconds \in {8} /\ m = "flow"
        /\ row.provider = "oaire_omni" => j.seconds \in {10} /\ m \in OMNI_MODELS
        /\ row.provider \in {"wuyin_omni", "veo_omni"} => j.seconds \in {10}
    BY ModelOf
  <1>4. m # NoModel /\ j.images <= MaxImages(row.provider, m, j.size[1])
        /\ IF row.provider = "oaire_grok" THEN ValidGrok(m, j.seconds, j.size, j.images)
                                          ELSE j.size \in SUPPORTED_VIDEO_SIZES
    OBVIOUS
  <1> HIDE DEF m, J
  <1>5. PayloadAccepted(row, J)
    <2>1. CASE row.provider = "oaire_grok"
      <3>1. ModelFor(row.provider, m) = m
        BY <2>1 DEF ModelFor
      <3>2. GrokPayload(m, J)
        BY <1>2, <1>4, <2>1 DEF GrokPayload, FlowFamily
      <3> QED BY <1>1, <1>2, <2>1, <3>1, <3>2 DEF PayloadAccepted
    <2>2. CASE row.provider = "flow_omni"
      <3>1. FlowPayload(J)
        BY <1>2, <1>3, <1>4, <2>2 DEF FlowPayload, FlowFamily, MaxImages
      <3> QED BY <1>1, <2>2, <3>1 DEF PayloadAccepted
    <2>3. CASE row.provider = "oaire_omni"
      <3>1. ModelFor(row.provider, m) = m
        BY <1>4, <2>3 DEF ModelFor
      <3>2. OmniPayload(m, J)
        BY <1>2, <1>3, <1>4, <2>3 DEF OmniPayload, FlowFamily, MaxImages
      <3> QED BY <1>1, <1>2, <2>3, <3>1, <3>2 DEF PayloadAccepted
    <2>4. CASE row.provider = "wuyin_omni"
      <3>1. J.images <= 1 /\ J.seconds = 10
        BY <1>2, <1>3, <1>4, <2>4 DEF MaxImages
      <3> QED BY <1>1, <2>4, <3>1 DEF PayloadAccepted
    <2>5. CASE row.provider = "veo_omni"
      <3>1. J.images <= 6 /\ J.seconds = 10
        BY <1>2, <1>3, <1>4, <2>5 DEF MaxImages
      <3> QED BY <1>1, <2>5, <3>1 DEF PayloadAccepted
    <2> QED BY <2>1, <2>2, <2>3, <2>4, <2>5 DEF LiveProviders
  <1>6. ~SubmitRaises(row, j)
    BY <1>4 DEF SubmitRaises, HasAspectRatio
  <1> QED BY <1>5, <1>6 DEF Sendable, J, m

\* What the page lists for a key may be chosen.
LEMMA OffersAreSelectable ==
  \A row : \A s \in Offers(row) : Selectable(row, s)
  <1> SUFFICES ASSUME NEW row, NEW s \in Offers(row) PROVE Selectable(row, s)
    OBVIOUS
  <1> DEFINE p == NormalizeProviderName(row.provider)
  <1>1. row.status = "active" /\ ~ProviderIsRetired(p)
    BY DEF Offers
  <1>2. ~ProviderIsRetired(row.provider)
    BY <1>1, NormalIsNormal DEF ProviderIsRetired
  <1>3. CASE p = "oaire_grok"
    <2>1. s \in 1..15 /\ ModelIdForSeconds(row, 6) # NoModel
      BY <1>1, <1>3 DEF Offers
    <2>2. ModelIdForSeconds(row, s) # NoModel
      BY <1>3, <2>1 DEF ModelIdForSeconds
    <2>3. ProviderSupportsSeconds(row.provider, s)
      BY <1>3, <2>1, LiveLengths DEF ProviderSupportsSeconds, LiveProviders
    <2> QED BY <1>1, <1>2, <2>2, <2>3 DEF Selectable
  <1>4. CASE p # "oaire_grok"
    <2> DEFINE lengths == IF p \in DOMAIN PROVIDER_SECONDS THEN PROVIDER_SECONDS[p] ELSE {}
    <2>1. s \in lengths /\ ModelIdForSeconds(row, s) # NoModel
      BY <1>1, <1>4 DEF Offers
    <2>2. ProviderSupportsSeconds(row.provider, s)
      BY <2>1 DEF ProviderSupportsSeconds
    <2> QED BY <1>1, <1>2, <2>1, <2>2 DEF Selectable
  <1> QED BY <1>3, <1>4

LEMMA OffersHold == OfferedIsAccepted
  <1> SUFFICES ASSUME NEW k \in Keys, NEW s \in Offers(key[k])
               PROVE  /\ [kind |-> "key", key |-> k, seconds |-> s] \in Choices \/ s \notin Lengths
                      /\ k \in KeysFor([kind |-> "key", key |-> k, seconds |-> s])
    BY DEF OfferedIsAccepted
  <1>1. Selectable(key[k], s)
    BY OffersAreSelectable
  <1>2. k \in KeysFor([kind |-> "key", key |-> k, seconds |-> s])
    BY <1>1 DEF KeysFor
  <1>3. s \in Lengths => [kind |-> "key", key |-> k, seconds |-> s] \in Choices
    BY <1>1 DEF Choices, Selectable
  <1> QED BY <1>2, <1>3

--------------------------------------------------------------------------------
\* The columns.

LEMMA Texts ==
  /\ {"", "none", "default", "active", "disabled", "deleted", "renamed", "flow", "wuyin", "veo flash"}
       \subseteq Text
  /\ LiveProviders \cup RETIRED_PROVIDERS \cup GROK_MODELS \cup OMNI_MODELS \subseteq Text
  /\ \A form \in KeyForms : {form.provider, form.model, form.model10, form.url} \subseteq Text
  BY DEF Text

LEMMA RowTypes ==
  /\ NoRow \in KeyRow
  /\ \A row \in KeyRow : Channel(row) \in ChannelRow
  /\ \A row \in KeyRow \cup ChannelRow : \A s : ModelIdForSeconds(row, s) \in Text
  <1>1. NoRow \in KeyRow
    BY Texts DEF NoRow, KeyRow, NoModel
  <1>2. \A row \in KeyRow : Channel(row) \in ChannelRow
    BY DEF Channel, KeyRow, ChannelRow
  <1>3. ASSUME NEW row \in KeyRow \cup ChannelRow, NEW s PROVE ModelIdForSeconds(row, s) \in Text
    <2>1. row.model \in Text /\ row.model10 \in Text
      BY DEF KeyRow, ChannelRow
    <2> QED BY <2>1, Texts DEF ModelIdForSeconds, NoModel, OMNI_MODELS
  <1> QED BY <1>1, <1>2, <1>3

LEMMA JobsAreNat == \A j \in Jobs : j \in Nat /\ j \in 0..MaxJobs
  BY CreationAssumption DEF Jobs

\* What the administrators' forms store.
LEMMA FormRow ==
  \A form \in KeyForms, status \in Text :
    KeyFormRow(form, status) \in KeyRow /\ Stored(KeyFormRow(form, status))
  <1> SUFFICES ASSUME NEW form \in KeyForms, NEW status \in Text
               PROVE  KeyFormRow(form, status) \in KeyRow /\ Stored(KeyFormRow(form, status))
    OBVIOUS
  <1>1. {form.provider, form.model, form.model10, form.url, "default"} \subseteq Text
    BY Texts
  <1>2. NormalizeProviderName(form.provider) \in Text
    <2>1. DOMAIN Alias = {"grok", "sora", "google_omni"}
      BY DEF Alias
    <2>2. form.provider \in DOMAIN Alias => Alias[form.provider] \in Text
      <3>1. {"podgrok", "sora_api", "wuyin_omni"} \subseteq Text
        BY Texts DEF LiveProviders, RETIRED_PROVIDERS
      <3>2. form.provider \in DOMAIN Alias
              => Alias[form.provider] \in {"podgrok", "sora_api", "wuyin_omni"}
        BY <2>1 DEF Alias
      <3> QED BY <3>1, <3>2
    <2> QED BY <1>1, <2>2 DEF NormalizeProviderName
  <1>3. KeyFormRow(form, status) \in KeyRow
    BY <1>1, <1>2 DEF KeyFormRow, KeyRow
  <1>4. /\ KeyFormRow(form, status).url # "none"
        /\ KeyFormRow(form, status).provider = NormalizeProviderName(form.provider)
    BY DEF KeyFormRow
  <1> QED BY <1>3, <1>4, NormalIsNormal DEF Stored

\* Administrators store rows as above, and take no key away that a job names.
LEMMA AdminKeys ==
  ASSUME Types, CreationInv, AdminStep
  PROVE  /\ key' \in [Keys -> KeyRow] /\ \A k \in Keys : KeyStored(k)'
         /\ \A j \in Jobs \ Free : job[j].key \in Keys /\ key[job[j].key] # NoRow
                                     => key'[job[j].key] # NoRow
         /\ UNCHANGED <<req, job>>
  <1>0. key \in [Keys -> KeyRow] /\ \A k \in Keys : KeyStored(k)
    BY DEF Types, CreationInv
  <1>1. ASSUME NEW k \in Keys, NEW row \in KeyRow, key' = [key EXCEPT ![k] = row],
               Stored(row) \/ (row = NoRow /\ \A j \in Jobs \ Free : job[j].key # k)
        PROVE  /\ key' \in [Keys -> KeyRow] /\ \A i \in Keys : KeyStored(i)'
               /\ \A j \in Jobs \ Free : job[j].key \in Keys /\ key[job[j].key] # NoRow
                                           => key'[job[j].key] # NoRow
    <2>1. key' \in [Keys -> KeyRow] /\ key'[k] = row
          /\ \A i \in Keys \ {k} : key'[i] = key[i]
      BY <1>0, <1>1
    <2>2. \A i \in Keys : KeyStored(i)'
      BY <1>0, <1>1, <2>1 DEF KeyStored
    <2>3. NoRow.url = "none"
      BY DEF NoRow
    <2>4. Stored(row) => row # NoRow
      BY <2>3 DEF Stored
    <2> QED BY <1>1, <2>1, <2>2, <2>4
  <1>2. ASSUME NEW k \in Keys, CreateKey(k)
        PROVE  \E row \in KeyRow : key' = [key EXCEPT ![k] = row] /\ Stored(row)
    BY <1>2, FormRow, Texts DEF CreateKey
  <1>3. ASSUME NEW k \in Keys, UpdateKey(k)
        PROVE  \E row \in KeyRow : key' = [key EXCEPT ![k] = row] /\ Stored(row)
    <2>1. key[k].status \in Text
      BY <1>0 DEF KeyRow
    <2>2. PICK form \in KeyForms : key' = [key EXCEPT ![k] = KeyFormRow(form, key[k].status)]
      BY <1>3 DEF UpdateKey
    <2> QED BY <2>1, <2>2, FormRow
  <1>4. ASSUME NEW k \in Keys, NEW s \in Text, key[k] # NoRow
        PROVE  [key[k] EXCEPT !.status = s] \in KeyRow /\ Stored([key[k] EXCEPT !.status = s])
    <2>1. key[k] \in KeyRow /\ Stored(key[k])
      BY <1>0, <1>4 DEF KeyStored
    <2> QED BY <2>1 DEF KeyRow, Stored
  <1>5. ASSUME NEW k \in Keys, ToggleKey(k)
        PROVE  \E row \in KeyRow : key' = [key EXCEPT ![k] = row] /\ Stored(row)
    <2>1. Toggled(key[k].status) \in Text /\ key[k] # NoRow
      BY <1>5, Texts DEF Toggled, ToggleKey
    <2>2. key' = [key EXCEPT ![k] = [key[k] EXCEPT !.status = Toggled(key[k].status)]]
      BY <1>0, <1>5 DEF ToggleKey
    <2> QED BY <1>4, <2>1, <2>2
  <1>6. ASSUME NEW k \in Keys, DeleteKey(k)
        PROVE  \E row \in KeyRow :
                 /\ key' = [key EXCEPT ![k] = row]
                 /\ Stored(row) \/ (row = NoRow /\ \A j \in Jobs \ Free : job[j].key # k)
    <2>1. CASE \E j \in Jobs \ Free : job[j].key = k
      <3>1. key' = [key EXCEPT ![k] = [key[k] EXCEPT !.status = "deleted"]] /\ key[k] # NoRow
        BY <1>6, <2>1 DEF DeleteKey
      <3> QED BY <1>4, <3>1, Texts
    <2>2. CASE ~\E j \in Jobs \ Free : job[j].key = k
      <3>1. key' = [key EXCEPT ![k] = NoRow]
        BY <1>6, <2>2 DEF DeleteKey
      <3> QED BY <2>2, <3>1, RowTypes
    <2> QED BY <2>1, <2>2
  <1>7. ASSUME UNCHANGED key
        PROVE  /\ key' \in [Keys -> KeyRow] /\ \A k \in Keys : KeyStored(k)'
               /\ \A j \in Jobs \ Free : job[j].key \in Keys /\ key[job[j].key] # NoRow
                                           => key'[job[j].key] # NoRow
    BY <1>0, <1>7 DEF KeyStored
  <1>8. UNCHANGED <<req, job>>
    BY DEF AdminStep, CreateKey, UpdateKey, ToggleKey, DeleteKey, RuleForm, UserPresetForm,
           AdminPresetForm
  <1>9. \/ UNCHANGED key
        \/ \E k \in Keys : CreateKey(k) \/ UpdateKey(k) \/ ToggleKey(k) \/ DeleteKey(k)
    BY DEF AdminStep, RuleForm, UserPresetForm, AdminPresetForm
  <1> QED BY <1>1, <1>2, <1>3, <1>5, <1>6, <1>7, <1>8, <1>9

\* Jobs and request stay, no key goes: nothing else about them changes.
LEMMA RowsKept ==
  ASSUME Types, CreationInv, UNCHANGED <<job, req>>, key' \in [Keys -> KeyRow],
         \A k \in Keys : KeyStored(k)',
         \A j \in Jobs \ Free : job[j].key \in Keys /\ key[job[j].key] # NoRow
                                  => key'[job[j].key] # NoRow
  PROVE  CreationInv'
  <1>1. ASSUME NEW j \in Jobs PROVE JobFits(j)'
    <2>1. JobFits(j) BY DEF CreationInv
    <2>2. CASE job[j] # NoJob
      <3>1. job[j] \in JobRecord
        BY <2>2 DEF Types
      <3>2. job[j].key \in Keys \cup {NoKey} /\ j \in Jobs \ Free
        BY <2>2, <3>1 DEF JobRecord, Free
      <3> QED BY <2>1, <2>2, <3>2 DEF JobFits
    <2> QED BY <2>2 DEF JobFits
  <1>2. req # Idle => RequestFits(req)
    BY DEF CreationInv
  <1> QED BY <1>1, <1>2 DEF CreationInv

--------------------------------------------------------------------------------
\* The creation request.

LEMMA ChoiceTypes ==
  \A choice \in Choices :
    /\ choice.seconds \in Nat /\ choice.kind \in {"key", "channel", "length"}
    /\ choice.kind # "key" => choice.provider \in Text
    /\ KeysFor(choice) \subseteq {k \in Keys : Selectable(key[k], choice.seconds)}
  <1> SUFFICES ASSUME NEW choice \in Choices
               PROVE  /\ choice.seconds \in Nat /\ choice.kind \in {"key", "channel", "length"}
                      /\ choice.kind # "key" => choice.provider \in Text
                      /\ KeysFor(choice) \subseteq {k \in Keys : Selectable(key[k], choice.seconds)}
    OBVIOUS
  <1>1. "sora_api" \in Text /\ LiveProviders \subseteq Text
    BY Texts DEF RETIRED_PROVIDERS
  <1>2. Lengths \subseteq Nat
    BY CreationAssumption
  <1>3. /\ choice.seconds \in Nat /\ choice.kind \in {"key", "channel", "length"}
        /\ choice.kind # "key" => choice.provider \in Text
    BY <1>1, <1>2 DEF Choices
  <1>4. KeysFor(choice) \subseteq {k \in Keys : Selectable(key[k], choice.seconds)}
    BY DEF KeysFor
  <1> QED BY <1>3, <1>4

LEMMA RequestChosen ==
  ASSUME Types, CreationInv, NEW prompts \in SUBSET {"clean", "word"}, ChooseChannel(prompts)
  PROVE  req' \in Request /\ RequestFits(req') /\ UNCHANGED <<key, job>>
  <1> DEFINE normal == {p \in prompts : ~Risky(p)}
             made(choice, k) ==
               [pc |-> "chosen", prompts |-> prompts, normal |-> normal, key |-> k,
                seconds |-> choice.seconds,
                row |-> IF k = NoKey THEN NoRow ELSE key[k],
                provider |-> IF k # NoKey THEN key[k].provider
                             ELSE IF choice.kind = "key" THEN "" ELSE choice.provider,
                model |-> IF k = NoKey THEN NoModel ELSE ModelIdForSeconds(key[k], choice.seconds),
                size |-> <<"", "">>, images |-> 0, video |-> FALSE]
  <1>1. PICK choice \in Choices, k \in Keys \cup {NoKey} :
          /\ req' = made(choice, k)
          /\ k = NoKey => normal = {}
          /\ k # NoKey => normal # {} /\ k \in KeysFor(choice)
    <2>1. PICK choice \in Choices :
            IF normal = {} THEN req' = made(choice, NoKey)
                           ELSE \E k \in KeysFor(choice) : req' = made(choice, k)
      BY DEF ChooseChannel
    <2>2. KeysFor(choice) \subseteq Keys
      BY ChoiceTypes
    <2> HIDE DEF normal, made
    <2> QED BY <2>1, <2>2, NoKeyAssumption
  <1>2. /\ choice.seconds \in Nat
        /\ choice.kind # "key" => choice.provider \in Text
        /\ k # NoKey => k \in Keys /\ Selectable(key[k], choice.seconds) /\ key[k] \in KeyRow
    <2>1. KeysFor(choice) \subseteq {i \in Keys : Selectable(key[i], choice.seconds)}
      BY ChoiceTypes
    <2>2. key \in [Keys -> KeyRow]
      BY DEF Types
    <2> QED BY <1>1, <2>1, <2>2, ChoiceTypes
  <1>3. k # NoKey => Stored(key[k])
    <2>1. k # NoKey => KeyStored(k) /\ key[k].status = "active"
      BY <1>2 DEF CreationInv, Selectable
    <2>2. NoRow.status = "none"
      BY DEF NoRow
    <2>3. k # NoKey => key[k] # NoRow
      BY <2>1, <2>2
    <2> QED BY <2>1, <2>3 DEF KeyStored
  <1>4. normal \subseteq {"clean", "word"}
    OBVIOUS
  <1> HIDE DEF normal
  <1> DEFINE r == made(choice, k)
  <1>5. r \in Request
    <2>1. (IF k = NoKey THEN NoRow ELSE key[k]) \in KeyRow
      BY <1>2, RowTypes
    <2>2. (IF k # NoKey THEN key[k].provider
           ELSE IF choice.kind = "key" THEN "" ELSE choice.provider) \in Text
      <3>1. "" \in Text
        BY Texts
      <3>2. key[k] \in KeyRow => key[k].provider \in Text
        BY DEF KeyRow
      <3>3. CASE k # NoKey
        BY <1>2, <3>2, <3>3
      <3>4. CASE k = NoKey /\ choice.kind = "key"
        BY <3>1, <3>4
      <3>5. CASE k = NoKey /\ choice.kind # "key"
        BY <1>2, <3>5
      <3> QED BY <3>3, <3>4, <3>5
    <2>3. (IF k = NoKey THEN NoModel ELSE ModelIdForSeconds(key[k], choice.seconds)) \in Text
      BY <1>2, Texts, RowTypes DEF NoModel
    <2> DEFINE row == IF k = NoKey THEN NoRow ELSE key[k]
               provider == IF k # NoKey THEN key[k].provider
                           ELSE IF choice.kind = "key" THEN "" ELSE choice.provider
               model == IF k = NoKey THEN NoModel ELSE ModelIdForSeconds(key[k], choice.seconds)
    <2>4. row \in KeyRow /\ provider \in Text /\ model \in Text
      BY <2>1, <2>2, <2>3
    <2>5. r = [pc |-> "chosen", prompts |-> prompts, normal |-> normal, key |-> k,
               seconds |-> choice.seconds, row |-> row, provider |-> provider, model |-> model,
               size |-> <<"", "">>, images |-> 0, video |-> FALSE]
      OBVIOUS
    <2>6. <<"", "">> \in Sizes \cup {<<"", "">>}
      OBVIOUS
    <2> DEFINE seconds == choice.seconds size == <<"", "">>
    <2> HIDE DEF row, provider, model, r, seconds, size
    <2>7. seconds \in Nat /\ size \in Sizes \cup {<<"", "">>}
      BY <1>2, <2>6 DEF seconds, size
    <2>8. r = [pc |-> "chosen", prompts |-> prompts, normal |-> normal, key |-> k,
               seconds |-> seconds, row |-> row, provider |-> provider, model |-> model,
               size |-> size, images |-> 0, video |-> FALSE]
      BY <2>5 DEF seconds, size
    <2> HIDE <2>5
    <2> QED BY <1>4, <2>4, <2>7, <2>8 DEF Request
  <1>6. RequestFits(r)
    <2>1. r.pc = "chosen" /\ r.key = k /\ r.normal = normal
      OBVIOUS
    <2>2. k # NoKey => /\ r.row = key[k] /\ r.provider = key[k].provider /\ r.seconds = choice.seconds
                       /\ r.model = ModelIdForSeconds(key[k], choice.seconds)
      OBVIOUS
    <2> HIDE DEF r
    <2>3. ChannelChosen(r)
      BY <1>2, <1>3, <2>1, <2>2 DEF ChannelChosen
    <2> QED BY <1>1, <2>1, <2>3 DEF RequestFits, SpecsFit, MaterialsFit, NormalHasKey
  <1>7. UNCHANGED <<key, job>>
    BY DEF ChooseChannel, adminVars
  <1> QED BY <1>1, <1>5, <1>6, <1>7

LEMMA RequestSpecified ==
  ASSUME Types, CreationInv, ResolveSpecs
  PROVE  req' \in Request /\ RequestFits(req') /\ UNCHANGED <<key, job>>
  <1>1. req \in Request /\ RequestFits(req) /\ req.pc = "chosen"
    <2>1. req # Idle BY DEF ResolveSpecs, Idle
    <2> QED BY <2>1 DEF Types, CreationInv, ResolveSpecs
  <1>2. PICK size \in Sizes : /\ SpecsAllowed(req, size)
                              /\ req' = [req EXCEPT !.pc = "specs", !.size = size]
    BY DEF ResolveSpecs
  <1> DEFINE r == [req EXCEPT !.pc = "specs", !.size = size]
  <1>3. r \in Request
    BY <1>1 DEF Request
  <1>4. /\ r.pc = "specs" /\ r.size = size /\ r.key = req.key /\ r.row = req.row
        /\ r.seconds = req.seconds /\ r.provider = req.provider /\ r.model = req.model
        /\ r.normal = req.normal
    BY <1>1 DEF Request
  <1> HIDE DEF r
  <1>5. ChannelChosen(r) /\ NormalHasKey(r) /\ MaterialsFit(r)
    BY <1>1, <1>4 DEF RequestFits, ChannelChosen, NormalHasKey, MaterialsFit
  <1>6. SpecsFit(r)
    BY <1>2, <1>4 DEF SpecsFit, SpecsAllowed
  <1> QED BY <1>2, <1>3, <1>5, <1>6 DEF RequestFits, r, ResolveSpecs, adminVars

LEMMA RequestMaterials ==
  ASSUME Types, CreationInv, ResolveReferences
  PROVE  req' \in Request /\ RequestFits(req') /\ UNCHANGED <<key, job>>
  <1>1. req \in Request /\ RequestFits(req) /\ req.pc = "specs"
    <2>1. req.pc = "specs" BY DEF ResolveReferences
    <2>2. req # Idle BY <2>1 DEF Idle
    <2> QED BY <2>1, <2>2 DEF Types, CreationInv
  <1>2. PICK images \in Nat, video \in BOOLEAN :
          /\ req' = [req EXCEPT !.pc = "materials", !.images = images, !.video = video]
          /\ req.normal # {} => images <= MaxImages(req.provider, req.model, req.size[1])
    <2>1. CASE req.normal = {}
      <3>1. req' = [req EXCEPT !.pc = "materials"]
        BY <2>1 DEF ResolveReferences
      <3>2. req.images \in Nat /\ req.video \in BOOLEAN
        BY <1>1 DEF Request
      <3>3. [req EXCEPT !.pc = "materials"]
              = [req EXCEPT !.pc = "materials", !.images = req.images, !.video = req.video]
        BY <1>1 DEF Request
      <3> QED BY <2>1, <3>1, <3>2, <3>3
    <2>2. CASE req.normal # {}
      <3>1. PICK m \in Materials :
              /\ MaterialsAllowed(req, m)
              /\ req' = [req EXCEPT !.pc = "materials", !.images = ReferenceImages(m),
                                    !.video = m.video]
        BY <2>2 DEF ResolveReferences
      <3>2. m.links \in Nat /\ m.again \in {0, 1} /\ m.presets \subseteq Presets /\ m.video \in BOOLEAN
        BY CreationAssumption DEF Materials
      <3>3. Cardinality(m.presets) \in Nat
        BY <3>2, CreationAssumption, FS_Subset, FS_CardinalityType
      <3>4. m.links + m.again + Cardinality(m.presets)
              <= MaxImages(req.provider, req.model, req.size[1])
        BY <3>1 DEF MaterialsAllowed
      <3>5. MaxImages(req.provider, req.model, req.size[1]) \in Nat
        BY DEF MaxImages
      <3>6. /\ ReferenceImages(m) \in Nat
            /\ ReferenceImages(m) <= MaxImages(req.provider, req.model, req.size[1])
        BY <3>2, <3>3, <3>4, <3>5 DEF ReferenceImages
      <3> QED BY <3>1, <3>2, <3>6
    <2> QED BY <2>1, <2>2
  <1> DEFINE r == [req EXCEPT !.pc = "materials", !.images = images, !.video = video]
  <1>3. r \in Request
    BY <1>1 DEF Request
  <1>4. /\ r.pc = "materials" /\ r.size = req.size /\ r.key = req.key /\ r.row = req.row
        /\ r.seconds = req.seconds /\ r.provider = req.provider /\ r.model = req.model
        /\ r.normal = req.normal /\ r.images = images
    BY <1>1 DEF Request
  <1> HIDE DEF r
  <1>5. ChannelChosen(r) /\ NormalHasKey(r)
    BY <1>1, <1>4 DEF RequestFits, ChannelChosen, NormalHasKey
  <1>6. SpecsFit(r)
    BY <1>1, <1>4 DEF RequestFits, SpecsFit, SpecsAllowed
  <1>7. MaterialsFit(r)
    BY <1>1, <1>2, <1>4 DEF RequestFits, NormalHasKey, MaterialsFit
  <1> QED BY <1>2, <1>3, <1>5, <1>6, <1>7 DEF RequestFits, r, ResolveReferences, adminVars

LEMMA RequestStep ==
  ASSUME Types, CreationInv,
         CreateJob \/ CreateJobsBatch \/ ResolveSpecs \/ ResolveReferences \/ RequestRefused
  PROVE  /\ req' = Idle \/ req' \in Request
         /\ CreationInv' /\ UNCHANGED <<key, job>>
  <1>1. /\ req' = Idle \/ (req' \in Request /\ RequestFits(req'))
        /\ UNCHANGED <<key, job>>
    <2>1. CASE CreateJob
      <3>1. PICK prompt \in {"clean", "word"} : ChooseChannel({prompt})
        BY <2>1 DEF CreateJob
      <3> QED BY <3>1, RequestChosen
    <2>2. CASE CreateJobsBatch
      <3>1. PICK prompts \in SUBSET {"clean", "word"} : ChooseChannel(prompts)
        BY <2>2 DEF CreateJobsBatch
      <3> QED BY <3>1, RequestChosen
    <2>3. CASE RequestRefused
      BY <2>3 DEF RequestRefused, adminVars
    <2> QED BY <2>1, <2>2, <2>3, RequestSpecified, RequestMaterials
  <1>2. ASSUME NEW j \in Jobs PROVE JobFits(j)'
    <2>1. JobFits(j) BY DEF CreationInv
    <2> QED BY <1>1, <2>1 DEF JobFits
  <1>3. \A k \in Keys : KeyStored(k)'
    BY <1>1 DEF CreationInv, KeyStored
  <1>4. req' # Idle => RequestFits(req')
    BY <1>1
  <1> QED BY <1>1, <1>2, <1>3, <1>4 DEF CreationInv

--------------------------------------------------------------------------------
\* The jobs.

\* Of a job, the request holds the length, the size, the images, the video and the model.
LEMMA SendableSame ==
  ASSUME NEW row, NEW i \in JobRecord, NEW j \in JobRecord,
         i.seconds = j.seconds, i.size = j.size, i.images = j.images, i.video = j.video
  PROVE  Sendable(row, i) <=> Sendable(row, j)
  <1> DEFINE m == ModelIdForSeconds(row, i.seconds)
             I == [i EXCEPT !.model = m]
             J == [j EXCEPT !.model = m]
  <1>1. /\ I.model = m /\ I.seconds = i.seconds /\ I.size = i.size /\ I.images = i.images
        /\ I.video = i.video
        /\ J.model = m /\ J.seconds = i.seconds /\ J.size = i.size /\ J.images = i.images
        /\ J.video = i.video
    BY DEF JobRecord
  <1> HIDE DEF I, J, m
  <1>2. PayloadAccepted(row, I) <=> PayloadAccepted(row, J)
    BY <1>1 DEF PayloadAccepted, GrokPayload, FlowPayload, OmniPayload
  <1>3. SubmitRaises(row, i) <=> SubmitRaises(row, j)
    BY DEF SubmitRaises
  <1> QED BY <1>2, <1>3 DEF Sendable, I, J, m

\* What the request checked holds of each of its jobs.
LEMMA NewJobFits ==
  ASSUME Types, CreationInv, req.pc = "materials", StillAllowed(req),
         req.key # NoKey => key[req.key] # NoRow, NEW prompt \in req.prompts
  PROVE  LET j == NewJob(req, prompt) IN
         /\ j \in JobRecord
         /\ j.status \in {"queued", "failed"}
         /\ j.key = NoKey => j.status = "failed"
         /\ j.key # NoKey => /\ key[j.key] # NoRow /\ Sendable(j.row, j)
                             /\ j.model = ModelIdForSeconds(j.row, j.seconds)
  <1> DEFINE j == NewJob(req, prompt)
  <1>0. req \in Request /\ RequestFits(req)
    <2>1. req # Idle BY DEF Idle
    <2> QED BY <2>1 DEF Types, CreationInv
  <1>1. req.size \in Sizes /\ SpecsAllowed(req, req.size)
    BY <1>0 DEF RequestFits, SpecsFit
  <1>2. Channel(req.row) \in ChannelRow
    BY <1>0, RowTypes DEF Request
  <1>3. j \in JobRecord
    <2>1. (IF prompt \in req.normal THEN "queued" ELSE "failed") \in Statuses
      BY DEF Statuses
    <2>2. /\ prompt \in {"clean", "word"} /\ req.key \in Keys \cup {NoKey} /\ req.model \in Text
          /\ req.seconds \in Nat /\ req.images \in Nat /\ req.video \in BOOLEAN
      BY <1>0 DEF Request
    <2>3. 0 \in 0..MaxJobs
      BY CreationAssumption
    <2> QED BY <1>1, <1>2, <2>1, <2>2, <2>3 DEF NewJob, JobRecord
  <1>4. /\ j.status = IF prompt \in req.normal THEN "queued" ELSE "failed"
        /\ j.key = req.key /\ j.row = Channel(req.row) /\ j.model = req.model
        /\ j.seconds = req.seconds /\ j.size = req.size /\ j.images = req.images
        /\ j.video = req.video
    BY DEF NewJob
  <1> HIDE DEF j
  <1>5. j.key = NoKey => j.status = "failed"
    BY <1>0, <1>4 DEF RequestFits, NormalHasKey
  <1>6. ASSUME j.key # NoKey
        PROVE  Sendable(j.row, j) /\ j.model = ModelIdForSeconds(j.row, j.seconds)
    <2>1. /\ Stored(req.row) /\ Selectable(req.row, req.seconds)
          /\ req.provider = req.row.provider /\ req.model = ModelIdForSeconds(req.row, req.seconds)
      BY <1>0, <1>4, <1>6 DEF RequestFits, ChannelChosen
    <2>2. /\ j.row.provider = req.row.provider /\ j.row.url = req.row.url
          /\ j.row.model = req.row.model /\ j.row.model10 = req.row.model10
      BY <1>4 DEF Channel
    <2>3. ModelIdForSeconds(j.row, j.seconds) = req.model
      BY <1>4, <2>1, <2>2 DEF ModelIdForSeconds
    <2>4. req.row.provider \in LiveProviders
      BY <2>1, ChosenIsLive DEF Stored
    <2>5. req.images <= MaxImages(req.provider, req.model, req.size[1])
      BY <1>0, <1>4, <1>6 DEF RequestFits, MaterialsFit
    <2>6. IF req.row.provider = "oaire_grok"
          THEN ValidGrok(req.model, req.seconds, req.size, req.images)
          ELSE req.size \in SUPPORTED_VIDEO_SIZES
      BY <1>1, <1>4, <1>6, <2>1 DEF StillAllowed, SpecsAllowed
    <2>7. req.video => req.row.provider \notin FlowFamily \cup {"veo_omni"}
      BY <1>4, <1>6 DEF StillAllowed
    <2>8. req.model # NoModel /\ req.row.url # "none"
      BY <2>1 DEF Selectable, Stored
    <2>9. Sendable(j.row, j)
      BY <1>3, <1>4, <2>1, <2>2, <2>3, <2>4, <2>5, <2>6, <2>7, <2>8, ChecksAgree
    <2> QED BY <1>4, <2>3, <2>9
  <1>7. j.status \in {"queued", "failed"} /\ (j.key # NoKey => key[j.key] # NoRow)
    BY <1>4
  <1> QED BY <1>3, <1>5, <1>6, <1>7 DEF j

LEMMA InsertStep ==
  ASSUME Types, CreationInv, InsertJobs
  PROVE  /\ job' \in [Jobs -> JobRecord \cup {NoJob}]
         /\ \A j \in Jobs : \/ job'[j] = job[j]
                            \/ job[j].status = "none" /\ job'[j].status \in {"queued", "failed"}
         /\ CreationInv' /\ req' = Idle /\ UNCHANGED key
  <1>0. PICK slots \in SUBSET Free : \E prompt \in [slots -> req.prompts] :
          job' = [j \in Jobs |-> IF j \in slots THEN NewJob(req, prompt[j]) ELSE job[j]]
    BY DEF InsertJobs
  <1>1. PICK prompt \in [slots -> req.prompts] :
          job' = [j \in Jobs |-> IF j \in slots THEN NewJob(req, prompt[j]) ELSE job[j]]
    BY <1>0
  <1>2. /\ req.pc = "materials" /\ StillAllowed(req) /\ req' = Idle /\ UNCHANGED key
        /\ req.key # NoKey => key[req.key] # NoRow
        /\ job \in [Jobs -> JobRecord \cup {NoJob}]
    BY DEF InsertJobs, adminVars, Types
  <1>3. ASSUME NEW j \in slots
        PROVE  /\ job'[j] \in JobRecord /\ job[j].status = "none"
               /\ job'[j].status \in {"queued", "failed"} /\ JobFits(j)'
    <2>1. PICK n : n = job'[j] OBVIOUS
    <2>2. j \in Jobs /\ job[j] = NoJob /\ prompt[j] \in req.prompts
      BY <1>1 DEF Free
    <2>3. n = NewJob(req, prompt[j])
      BY <1>1, <2>1, <2>2
    <2>4. /\ n \in JobRecord
          /\ n.status \in {"queued", "failed"}
          /\ n.key = NoKey => n.status = "failed"
          /\ n.key # NoKey => /\ key[n.key] # NoRow /\ Sendable(n.row, n)
                              /\ n.model = ModelIdForSeconds(n.row, n.seconds)
      BY <1>2, <2>2, <2>3, NewJobFits
    <2>5. JobFits(j)'
      BY <1>2, <2>1, <2>4 DEF JobFits
    <2> QED BY <2>1, <2>2, <2>4, <2>5 DEF NoJob
  <1>4. ASSUME NEW j \in Jobs \ slots
        PROVE  job'[j] = job[j] /\ JobFits(j)'
    <2>1. job'[j] = job[j]
      BY <1>1
    <2>2. JobFits(j)
      BY DEF CreationInv
    <2> QED BY <1>2, <2>1, <2>2 DEF JobFits
  <1>5. \A k \in Keys : KeyStored(k)'
    BY <1>2 DEF CreationInv, KeyStored
  <1>6. slots \subseteq Jobs
    BY DEF Free
  <1>7. \A j \in Jobs : /\ JobFits(j)' /\ job'[j] \in JobRecord \cup {NoJob}
                        /\ \/ job'[j] = job[j]
                           \/ job[j].status = "none" /\ job'[j].status \in {"queued", "failed"}
    BY <1>2, <1>3, <1>4
  <1>8. job' \in [Jobs -> JobRecord \cup {NoJob}]
    BY <1>1, <1>7
  <1> QED BY <1>2, <1>5, <1>7, <1>8 DEF CreationInv

LEMMA RegenerateStep ==
  ASSUME Types, CreationInv, NEW j \in Jobs, Regenerate(j)
  PROVE  /\ job' \in [Jobs -> JobRecord \cup {NoJob}]
         /\ \A i \in Jobs : \/ job'[i] = job[i]
                            \/ job[i].status = "none" /\ job'[i].status \in {"queued", "failed"}
         /\ CreationInv' /\ UNCHANGED <<key, req>>
  <1> DEFINE new == [job[j] EXCEPT !.status = "queued", !.retryOf = j, !.row = RowKept(j)]
  <1>1. PICK child \in Free : job' = [job EXCEPT ![child] = new]
    BY DEF Regenerate
  <1>2. /\ child \in Jobs /\ job[child] = NoJob /\ job[child].status = "none"
        /\ job \in [Jobs -> JobRecord \cup {NoJob}] /\ key \in [Keys -> KeyRow]
        /\ UNCHANGED <<key, req>>
    BY DEF Free, NoJob, Types, Regenerate, adminVars
  <1>3. /\ job[j] \in JobRecord /\ job[j].status = "failed" /\ job[j].key \in Keys /\ JobFits(j)
        /\ key[job[j].key] \in KeyRow
        /\ ModelIdForSeconds(key[job[j].key], job[j].seconds) = job[j].model
    <2>1. Regenerable(j)
      BY DEF Regenerate
    <2>2. job[j] # NoJob
      BY <2>1 DEF Regenerable, NoJob
    <2>3. job[j] \in JobRecord
      BY <1>2, <2>2
    <2> QED BY <1>2, <2>1, <2>3 DEF Regenerable, CreationInv, JobRecord
  <1>4. RowKept(j) \in ChannelRow
    <2>1. Channel(NoRow) \in ChannelRow
      BY RowTypes
    <2>2. job[j].row \in ChannelRow
      BY <1>3 DEF JobRecord
    <2> QED BY <2>1, <2>2 DEF RowKept
  <1>5. /\ new \in JobRecord /\ new.status = "queued" /\ new.key = job[j].key
        /\ new.row = RowKept(j) /\ new.model = job[j].model /\ new.seconds = job[j].seconds
        /\ new.size = job[j].size /\ new.images = job[j].images /\ new.video = job[j].video
    <2>1. "queued" \in Statuses /\ j \in 0..MaxJobs
      BY JobsAreNat DEF Statuses
    <2> QED BY <1>3, <1>4, <2>1 DEF JobRecord
  <1> HIDE DEF new
  <1>6. new.key # NoKey /\ key[new.key] # NoRow
    <2>1. job[j] # NoJob /\ job[j].key # NoKey
      BY <1>3, NoKeyAssumption DEF NoJob, Regenerate, Regenerable
    <2> QED BY <1>3, <1>5, <2>1 DEF JobFits
  <1>7. ASSUME new.row.url # "none"
        PROVE  Sendable(new.row, new) /\ new.model = ModelIdForSeconds(new.row, new.seconds)
    <2>1. Unedited(j)
      <3>1. Channel(NoRow).url = "none"
        BY DEF Channel, NoRow
      <3> QED BY <1>5, <1>7, <3>1 DEF RowKept
    <2>2. new.row = job[j].row /\ KeyOf(j) = key[job[j].key]
      BY <1>3, <1>5, <2>1 DEF RowKept, KeyOf
    <2>3. Sendable(job[j].row, job[j])
      BY <1>3, <1>5, <1>6, <1>7, <2>2 DEF JobFits, NoJob
    <2>4. Sendable(new.row, new)
      BY <1>3, <1>5, <2>2, <2>3, SendableSame
    <2>5. /\ new.row.provider = key[job[j].key].provider /\ new.row.model = key[job[j].key].model
          /\ new.row.model10 = key[job[j].key].model10
      BY <2>1, <2>2 DEF Unedited, Channel
    <2>6. ModelIdForSeconds(new.row, new.seconds) = ModelIdForSeconds(key[job[j].key], job[j].seconds)
      BY <1>5, <2>5 DEF ModelIdForSeconds
    <2> QED BY <1>3, <1>5, <2>4, <2>6
  <1>8. job'[child] = new /\ \A i \in Jobs \ {child} : job'[i] = job[i]
    BY <1>1, <1>2
  <1>9. ASSUME NEW i \in Jobs PROVE JobFits(i)'
    <2>1. CASE i = child
      BY <1>2, <1>5, <1>6, <1>7, <1>8, <2>1 DEF JobFits
    <2>2. CASE i # child
      <3>1. JobFits(i) BY DEF CreationInv
      <3> QED BY <1>2, <1>8, <2>2, <3>1 DEF JobFits
    <2> QED BY <2>1, <2>2
  <1>10. \A k \in Keys : KeyStored(k)'
    BY <1>2 DEF CreationInv, KeyStored
  <1>11. job' \in [Jobs -> JobRecord \cup {NoJob}]
    BY <1>1, <1>2, <1>5
  <1>12. req # Idle => RequestFits(req)
    BY DEF CreationInv
  <1>13. \A i \in Jobs : \/ job'[i] = job[i]
                         \/ job[i].status = "none" /\ job'[i].status \in {"queued", "failed"}
    BY <1>2, <1>5, <1>8
  <1> QED BY <1>2, <1>9, <1>10, <1>11, <1>12, <1>13 DEF CreationInv

--------------------------------------------------------------------------------
\* Steps of a job.

Documented(j) == life[j].channel.provider \in FlowFamily

LEMMA CreationKept ==
  ASSUME AdapterInv, CreationStep, UNCHANGED <<task, life>>
  PROVE  AdapterInv'
  <1>0. Types /\ CreationInv /\ \A j \in Jobs : LifeFits(j)
    BY DEF AdapterInv
  <1>1. /\ CreationInv' /\ key' \in [Keys -> KeyRow]
        /\ req' = Idle \/ req' \in Request
        /\ job' \in [Jobs -> JobRecord \cup {NoJob}]
        /\ \A j \in Jobs : \/ job'[j] = job[j]
                           \/ job[j].status = "none" /\ job'[j].status \in {"queued", "failed"}
    <2>0. key \in [Keys -> KeyRow] /\ job \in [Jobs -> JobRecord \cup {NoJob}]
          /\ (req = Idle \/ req \in Request)
      BY <1>0 DEF Types
    <2>1. CASE AdminStep
      BY <1>0, <2>0, <2>1, AdminKeys, RowsKept
    <2>2. CASE CreateJob \/ CreateJobsBatch \/ ResolveSpecs \/ ResolveReferences \/ RequestRefused
      BY <1>0, <2>0, <2>2, RequestStep
    <2>3. CASE InsertJobs
      BY <1>0, <2>0, <2>3, InsertStep
    <2>4. ASSUME NEW j \in Jobs, Regenerate(j)
          PROVE  /\ CreationInv' /\ UNCHANGED <<key, req>>
                 /\ job' \in [Jobs -> JobRecord \cup {NoJob}]
                 /\ \A i \in Jobs : \/ job'[i] = job[i]
                                    \/ job[i].status = "none" /\ job'[i].status \in {"queued", "failed"}
      BY <1>0, <2>4, RegenerateStep
    <2> QED BY <2>0, <2>1, <2>2, <2>3, <2>4 DEF CreationStep
  <1>2. Types'
    BY <1>0, <1>1 DEF Types
  <1>3. ASSUME NEW j \in Jobs PROVE LifeFits(j)'
    <2>1. LifeFits(j) BY <1>0
    <2>2. CASE job'[j] = job[j]
      BY <2>1, <2>2 DEF LifeFits
    <2>3. CASE job[j].status = "none" /\ job'[j].status \in {"queued", "failed"}
      BY <2>1, <2>3 DEF LifeFits, Told
    <2> QED BY <1>1, <2>2, <2>3
  <1> QED BY <1>1, <1>2, <1>3 DEF AdapterInv

\* One job, its task and what is known of it change.
LEMMA JobMoves ==
  ASSUME AdapterInv, NEW j \in Jobs, NEW n \in JobRecord, NEW l \in Life,
         NEW t \in {"none", "running", "finished", "failed"},
         UNCHANGED <<key, req>>, job' = [job EXCEPT ![j] = n], task' = [task EXCEPT ![j] = t],
         life' = [life EXCEPT ![j] = l], job[j] \in JobRecord, job[j].status # "failed",
         n.key = job[j].key, n.row = job[j].row, n.seconds = job[j].seconds,
         n.size = job[j].size, n.images = job[j].images, n.video = job[j].video,
         n.status \in {"queued", "submitting"} =>
           job[j].status \in {"queued", "submitting"} /\ n.model = job[j].model,
         Told(n, t, l)
  PROVE  AdapterInv'
  <1>0. /\ Types /\ CreationInv /\ \A i \in Jobs : LifeFits(i)
        /\ job \in [Jobs -> JobRecord \cup {NoJob}] /\ life \in [Jobs -> Life]
        /\ task \in [Jobs -> {"none", "running", "finished", "failed"}]
    BY DEF AdapterInv, Types
  <1>1. /\ job'[j] = n /\ task'[j] = t /\ life'[j] = l
        /\ \A i \in Jobs \ {j} : job'[i] = job[i] /\ task'[i] = task[i] /\ life'[i] = life[i]
    BY <1>0
  <1>2. Types'
    BY <1>0 DEF Types
  <1>3. job[j] # NoJob /\ JobFits(j)
    <2>1. job[j].status \in Statuses /\ "none" \notin Statuses /\ NoJob.status = "none"
      BY DEF JobRecord, Statuses, NoJob
    <2>2. job[j] # NoJob
      BY <2>1
    <2> QED BY <1>0, <2>2 DEF CreationInv
  <1>4. JobFits(j)'
    <2>1. Sendable(n.row, job[j]) <=> Sendable(n.row, n)
      BY SendableSame
    <2>2. /\ n.key # NoKey /\ key[n.key] # NoRow
          /\ n.row.url # "none" => Sendable(n.row, n)
          /\ n.row.url # "none" /\ n.status \in {"queued", "submitting"} =>
               n.model = ModelIdForSeconds(n.row, n.seconds)
      BY <1>3, <2>1 DEF JobFits
    <2> QED BY <1>1, <2>2 DEF JobFits
  <1>5. ASSUME NEW i \in Jobs \ {j} PROVE JobFits(i)' /\ LifeFits(i)'
    <2>1. JobFits(i) /\ LifeFits(i) BY <1>0 DEF CreationInv
    <2> QED BY <1>1, <2>1 DEF JobFits, LifeFits
  <1>6. LifeFits(j)'
    BY <1>1 DEF LifeFits
  <1>7. /\ \A k \in Keys : KeyStored(k)'
        /\ req' # Idle => RequestFits(req')
    BY <1>0 DEF CreationInv, KeyStored
  <1> QED BY <1>2, <1>4, <1>5, <1>6, <1>7 DEF CreationInv, AdapterInv

\* Of the job only the status changes.
LEMMA StatusMoves ==
  ASSUME AdapterInv, NEW j \in Jobs, NEW s \in Statuses, NEW l \in Life,
         UNCHANGED <<key, req, task>>, job' = [job EXCEPT ![j].status = s],
         life' = [life EXCEPT ![j] = l], job[j].status \notin {"none", "failed"},
         s \in {"queued", "submitting"} => job[j].status \in {"queued", "submitting"},
         Told([status |-> s], task[j], l)
  PROVE  AdapterInv'
  <1>0. /\ job \in [Jobs -> JobRecord \cup {NoJob}] /\ job[j] \in JobRecord
        /\ task \in [Jobs -> {"none", "running", "finished", "failed"}]
    BY DEF AdapterInv, Types, NoJob
  <1> DEFINE n == [job[j] EXCEPT !.status = s]
  <1>1. /\ n \in JobRecord /\ n.status = s /\ n.model = job[j].model
        /\ n.key = job[j].key /\ n.row = job[j].row /\ n.seconds = job[j].seconds
        /\ n.size = job[j].size /\ n.images = job[j].images /\ n.video = job[j].video
    BY <1>0 DEF JobRecord
  <1>2. job' = [job EXCEPT ![j] = n] /\ task' = [task EXCEPT ![j] = task[j]]
    BY <1>0
  <1> HIDE DEF n
  <1>3. Told(n, task[j], l)
    BY <1>1 DEF Told
  <1>4. task[j] \in {"none", "running", "finished", "failed"}
    BY <1>0
  <1>5. job[j].status # "failed" /\ UNCHANGED <<key, req>>
    OBVIOUS
  <1>6. n.status \in {"queued", "submitting"} =>
          job[j].status \in {"queued", "submitting"} /\ n.model = job[j].model
    BY <1>1
  <1> DEFINE t == task[j]
  <1>7. t = task[j] OBVIOUS
  <1> HIDE DEF t
  <1> QED BY ONLY AdapterInv, j \in Jobs, l \in Life, life' = [life EXCEPT ![j] = l],
                 <1>0, <1>1, <1>2, <1>3, <1>4, <1>5, <1>6, <1>7, JobMoves

\* A job that is there.
LEMMA JobThere ==
  ASSUME AdapterInv, NEW j \in Jobs, job[j].status # "none"
  PROVE  /\ job[j] \in JobRecord /\ life[j] \in Life /\ KeyOf(j) \in KeyRow /\ LifeFits(j)
         /\ job \in [Jobs -> JobRecord \cup {NoJob}] /\ life \in [Jobs -> Life]
         /\ task[j] \in {"none", "running", "finished", "failed"}
  <1>1. /\ job \in [Jobs -> JobRecord \cup {NoJob}] /\ life \in [Jobs -> Life]
        /\ key \in [Keys -> KeyRow] /\ task \in [Jobs -> {"none", "running", "finished", "failed"}]
        /\ LifeFits(j)
    BY DEF AdapterInv, Types
  <1>2. KeyOf(j) \in KeyRow
    BY <1>1, RowTypes DEF KeyOf
  <1> QED BY <1>1, <1>2 DEF NoJob

\* Nothing about the submission of a job reaches further than its thread and its channel.
LEMMA SubmissionMoves ==
  ASSUME AdapterInv, NEW j \in Jobs, NEW s \in {"queued", "submitting", "failed"},
         NEW attempts \in Nat, NEW thread \in {"none", "raised", "posting"},
         NEW channel \in ChannelRow,
         UNCHANGED <<key, req, task>>, Is(j, {"queued", "submitting"}),
         job' = [job EXCEPT ![j].status = s],
         life' = [life EXCEPT ![j] = [life[j] EXCEPT !.attempts = attempts, !.thread = thread,
                                                     !.channel = channel]]
  PROVE  AdapterInv'
  <1> DEFINE l == [life[j] EXCEPT !.attempts = attempts, !.thread = thread, !.channel = channel]
  <1>1. job[j].status \in {"queued", "submitting"}
    BY DEF Is
  <1>2. life[j] \in Life /\ LifeFits(j)
    BY <1>1, JobThere
  <1>3. l \in Life /\ l.full = life[j].full /\ l.link = life[j].link /\ l.got = life[j].got
    BY <1>2 DEF Life
  <1>4. life' = [life EXCEPT ![j] = l]
    OBVIOUS
  <1> HIDE DEF l
  <1>5. ~l.full /\ l.link = "none" /\ l.got = "none"
    BY <1>1, <1>2, <1>3 DEF LifeFits, Told
  <1>6. Told([status |-> s], task[j], l)
    BY <1>5 DEF Told
  <1>7. s \in Statuses
    BY DEF Statuses
  <1>8. UNCHANGED <<key, req, task>>
    OBVIOUS
  <1> QED BY ONLY AdapterInv, j \in Jobs, s \in {"queued", "submitting", "failed"},
                 job' = [job EXCEPT ![j].status = s],
                 <1>1, <1>3, <1>4, <1>6, <1>7, <1>8, StatusMoves

LEMMA SubmitStep ==
  ASSUME AdapterInv, NEW j \in Jobs, Submit(j)
  PROVE  AdapterInv'
  <1>1. job[j].status = "queued"
    BY DEF Submit, Is
  <1>2. life[j] \in Life /\ life \in [Jobs -> Life] /\ KeyOf(j) \in KeyRow
    BY <1>1, JobThere
  <1>3. /\ life[j].attempts \in Nat /\ life[j].thread \in {"none", "raised", "posting"}
        /\ life[j].channel \in ChannelRow /\ Channel(KeyOf(j)) \in ChannelRow
    BY <1>2, RowTypes DEF Life
  <1>4. UNCHANGED <<key, req, task>> /\ Is(j, {"queued", "submitting"})
    BY <1>1 DEF Submit, adminVars, Is
  <1>5. Retried(j) \in {"queued", "submitting", "failed"}
    BY DEF Retried
  <1> DEFINE spent == IF life[j].attempts < MaxSubmit THEN life[j].attempts + 1 ELSE life[j].attempts
  <1>6. spent \in Nat
    BY <1>3
  <1>7. CASE job' = [job EXCEPT ![j].status = "failed"] /\ life' = life
    <2>1. life[j] = [life[j] EXCEPT !.attempts = life[j].attempts, !.thread = life[j].thread,
                                    !.channel = life[j].channel]
      BY <1>2 DEF Life
    <2>2. life' = [life EXCEPT ![j] =
                    [life[j] EXCEPT !.attempts = life[j].attempts, !.thread = life[j].thread,
                                    !.channel = life[j].channel]]
      BY <1>2, <1>7, <2>1
    <2> QED BY <1>3, <1>4, <1>7, <2>2, SubmissionMoves
  <1>8. ASSUME NEW s \in {"queued", "submitting", "failed"},
               NEW th \in {"none", "raised", "posting"}, job' = [job EXCEPT ![j].status = s],
               life' = [life EXCEPT ![j].attempts = IF @ < MaxSubmit THEN @ + 1 ELSE @,
                                    ![j].thread = th, ![j].channel = Channel(KeyOf(j))]
        PROVE  AdapterInv'
    <2>1. life' = [life EXCEPT ![j] =
                    [life[j] EXCEPT !.attempts = spent, !.thread = th, !.channel = Channel(KeyOf(j))]]
      BY <1>2, <1>8
    <2> HIDE DEF spent
    <2> QED BY <1>3, <1>4, <1>6, <1>8, <2>1, SubmissionMoves
  <1> HIDE DEF spent
  <1> QED BY <1>5, <1>7, <1>8 DEF Submit

LEMMA SubmitWorkerErrorStep ==
  ASSUME AdapterInv, NEW j \in Jobs, SubmitWorkerError(j)
  PROVE  AdapterInv'
  <1>1. job[j].status = "submitting"
    BY DEF SubmitWorkerError, Is
  <1>2. life[j] \in Life /\ life \in [Jobs -> Life]
    BY <1>1, JobThere
  <1>3. life[j].attempts \in Nat /\ life[j].channel \in ChannelRow
    BY <1>2 DEF Life
  <1>4. life' = [life EXCEPT ![j] = [life[j] EXCEPT !.attempts = life[j].attempts, !.thread = "none",
                                                    !.channel = life[j].channel]]
    <2>1. [life[j] EXCEPT !.thread = "none"]
            = [life[j] EXCEPT !.attempts = life[j].attempts, !.thread = "none",
                              !.channel = life[j].channel]
      BY <1>2 DEF Life
    <2> QED BY <1>2, <2>1 DEF SubmitWorkerError
  <1>5. /\ UNCHANGED <<key, req, task>> /\ Is(j, {"queued", "submitting"})
        /\ job' = [job EXCEPT ![j].status = "queued"]
    BY <1>1 DEF SubmitWorkerError, adminVars, Is
  <1> QED BY <1>3, <1>4, <1>5, SubmissionMoves

LEMMA RefusedStep ==
  ASSUME AdapterInv, NEW j \in Jobs, Refused(j)
  PROVE  AdapterInv'
  <1>1. job[j].status = "submitting"
    BY DEF Refused, Is
  <1>2. life[j] \in Life /\ life \in [Jobs -> Life]
    BY <1>1, JobThere
  <1>3. life[j].attempts \in Nat /\ life[j].channel \in ChannelRow
    BY <1>2 DEF Life
  <1>4. life' = [life EXCEPT ![j] = [life[j] EXCEPT !.attempts = life[j].attempts, !.thread = "none",
                                                    !.channel = life[j].channel]]
    <2>1. [life[j] EXCEPT !.thread = "none"]
            = [life[j] EXCEPT !.attempts = life[j].attempts, !.thread = "none",
                              !.channel = life[j].channel]
      BY <1>2 DEF Life
    <2> QED BY <1>2, <2>1 DEF Refused
  <1>5. PICK s \in {"queued", "submitting", "failed"} : job' = [job EXCEPT ![j].status = s]
    BY DEF Refused
  <1>6. UNCHANGED <<key, req, task>> /\ Is(j, {"queued", "submitting"})
    BY <1>1 DEF Refused, adminVars, Is
  <1> QED BY <1>3, <1>4, <1>5, <1>6, SubmissionMoves

LEMMA AcceptedStep ==
  ASSUME AdapterInv, NEW j \in Jobs, Accepted(j)
  PROVE  AdapterInv'
  <1>1. job[j].status = "submitting"
    BY DEF Accepted, Is
  <1>2. /\ job[j] \in JobRecord /\ life[j] \in Life /\ LifeFits(j)
        /\ job \in [Jobs -> JobRecord \cup {NoJob}] /\ life \in [Jobs -> Life]
    BY <1>1, JobThere
  <1>3. PICK model \in {SentModel(j), "renamed"}, full \in BOOLEAN :
          /\ job' = [job EXCEPT ![j].status = "submitted", ![j].model = model]
          /\ life' = [life EXCEPT ![j].thread = "none",
                                  ![j].full = full /\ life[j].channel.provider \notin FlowFamily]
    BY DEF Accepted
  <1>4. model \in Text
    <2>1. {"flow", "omni fast", "veo flash", "renamed"} \subseteq Text
      BY Texts DEF OMNI_MODELS
    <2>2. job[j].model \in Text
      BY <1>2 DEF JobRecord
    <2>3. SentModel(j) \in Text
      BY <2>1, <2>2 DEF SentModel, ModelFor
    <2> QED BY <2>1, <2>3
  <1> DEFINE n == [job[j] EXCEPT !.status = "submitted", !.model = model]
             f == full /\ life[j].channel.provider \notin FlowFamily
             l == [life[j] EXCEPT !.thread = "none", !.full = f]
  <1>5. /\ n \in JobRecord /\ n.status = "submitted"
        /\ n.key = job[j].key /\ n.row = job[j].row /\ n.seconds = job[j].seconds
        /\ n.size = job[j].size /\ n.images = job[j].images /\ n.video = job[j].video
    BY <1>2, <1>4 DEF JobRecord, Statuses
  <1>6. f \in BOOLEAN
    BY Zenon
  <1>7. /\ l \in Life /\ l.full = f /\ l.link = life[j].link /\ l.got = life[j].got
        /\ l.channel = life[j].channel
    BY <1>2, <1>6 DEF Life
  <1>8. job' = [job EXCEPT ![j] = n] /\ life' = [life EXCEPT ![j] = l]
    BY <1>2, <1>3
  <1>9. f => life[j].channel.provider \notin FlowFamily
    OBVIOUS
  <1> HIDE DEF n, l, f
  <1>10. Told(n, "running", l)
    <2>1. l.link = "none" /\ l.got = "none"
      BY <1>1, <1>2, <1>7 DEF LifeFits, Told
    <2> QED BY <1>5, <1>7, <1>9, <2>1 DEF Told
  <1>11. /\ UNCHANGED <<key, req>> /\ task' = [task EXCEPT ![j] = "running"]
         /\ job[j].status # "failed"
    BY <1>1 DEF Accepted, adminVars
  <1> DEFINE t == "running"
  <1>12. t \in {"none", "running", "finished", "failed"} /\ t = "running"
    OBVIOUS
  <1> HIDE DEF t
  <1> QED BY ONLY AdapterInv, j \in Jobs, <1>1, <1>2, <1>5, <1>7, <1>8, <1>10, <1>11, <1>12, JobMoves

LEMMA TaskEndsStep ==
  ASSUME AdapterInv, NEW j \in Jobs, TaskEnds(j)
  PROVE  AdapterInv'
  <1>0. Types /\ CreationInv /\ \A i \in Jobs : LifeFits(i)
    BY DEF AdapterInv
  <1>1. PICK end \in {"finished", "failed"} : task' = [task EXCEPT ![j] = end]
    BY DEF TaskEnds
  <1>2. task[j] = "running" /\ UNCHANGED <<key, req, job, life>>
    BY DEF TaskEnds, creationVars, adminVars
  <1>3. task \in [Jobs -> {"none", "running", "finished", "failed"}]
    BY <1>0 DEF Types
  <1>4. Types'
    BY <1>0, <1>1, <1>2, <1>3 DEF Types
  <1>5. CreationInv'
    BY <1>0, <1>2 DEF CreationInv, KeyStored, JobFits
  <1>6. ASSUME NEW i \in Jobs PROVE LifeFits(i)'
    <2>1. LifeFits(i) BY <1>0
    <2>2. CASE i = j
      BY <1>2, <2>1, <2>2 DEF LifeFits, Told
    <2>3. CASE i # j
      <3>1. task'[i] = task[i]
        BY <1>1, <1>3, <2>3
      <3> QED BY <1>2, <2>1, <3>1 DEF LifeFits
    <2> QED BY <2>2, <2>3
  <1> QED BY <1>4, <1>5, <1>6 DEF AdapterInv

--------------------------------------------------------------------------------
\* Answers.

LEMMA Families == \A p \in FlowFamily : p \in LiveProviders /\ p \notin {"wuyin_omni", "veo_omni"}
  BY DEF FlowFamily, LiveProviders

\* What is made of an answer on a documented channel. Asked elsewhere, nothing comes back.
LEMMA Answers ==
  ASSUME NEW j \in Jobs, life[j] \in Life, NEW a \in Bodies(j), Documented(j)
  PROVE  LET provider == ProviderName(KeyOf(j).provider)
             n == Normalised(provider, a)
         IN /\ n.status = a.status /\ a.status \in {"processing", "completed", "failed", "unknown"}
            /\ a.status = "processing" => task[j] = "running"
            /\ n.full => a.status \in {"completed", "failed"}
            /\ n.url => a.status = "completed" /\ a.url
            /\ a.status = "completed" =>
                 /\ task[j] = "finished"
                 /\ ~LateLinks => n.url /\ LinkStored(provider, a) = {"video"}
  <1> DEFINE provider == ProviderName(KeyOf(j).provider)
             n == Normalised(provider, a)
  <1>1. /\ a \in Body
        /\ a.status = "processing" => SameChannel(j) /\ task[j] = "running"
        /\ a.status = "completed" => SameChannel(j) /\ task[j] = "finished" /\ a.full
        /\ a.status = "failed" => SameChannel(j) /\ task[j] = "failed"
        /\ a.url => a.status = "completed"
        /\ a.status = "completed" /\ ~LateLinks => a.url
        /\ a.status = "unknown" => ~a.full /\ ~a.echo
    BY DEF Bodies
  <1>2. /\ a.status \in {"processing", "completed", "failed", "unknown"}
        /\ a.url \in BOOLEAN /\ a.echo \in BOOLEAN /\ a.full \in BOOLEAN
    BY <1>1 DEF Body
  <1>3. CASE a.status = "unknown"
    <2>1. ~a.url /\ ~a.full /\ ~a.echo
      BY <1>1, <1>3
    <2>2. /\ NormalizeResponse(a).status = "unknown" /\ ~NormalizeResponse(a).url
          /\ ~NormalizeResponse(a).full
      BY <1>1, <1>3, <2>1 DEF NormalizeResponse, Body
    <2>3. /\ NormalizeTaskResponse(provider, a).status = "unknown"
          /\ ~NormalizeTaskResponse(provider, a).url /\ ~NormalizeTaskResponse(provider, a).full
      <3>1. CASE provider = "wuyin_omni"
        BY <1>1, <1>3, <2>1, <3>1 DEF NormalizeTaskResponse, Body
      <3>2. CASE provider # "wuyin_omni"
        BY <1>1, <1>3, <2>1, <3>2 DEF NormalizeTaskResponse, Body
      <3> QED BY <3>1, <3>2
    <2>4. n.status = "unknown" /\ ~n.url /\ ~n.full
      <3> HIDE DEF provider
      <3> QED BY <2>2, <2>3 DEF Normalised
    <2> QED BY <1>3, <2>4
  <1>4. CASE a.status # "unknown"
    <2>1. SameChannel(j)
      BY <1>1, <1>2, <1>4
    <2>2. provider = life[j].channel.provider
      <3>1. KeyOf(j).provider = life[j].channel.provider
        BY <2>1 DEF SameChannel, Channel
      <3> QED BY <3>1, Families, LiveNames DEF Documented
    <2>3. provider \in FlowFamily /\ provider \notin {"wuyin_omni", "veo_omni"}
      BY <2>2, Families DEF Documented
    <2> HIDE DEF provider
    <2>4. n = NormalizeResponse(a)
      BY <2>3 DEF Normalised
    <2>5. /\ n.status = a.status
          /\ n.url <=> a.url /\ a.status = "completed"
          /\ n.full <=> a.full /\ a.status # "processing"
      <3> HIDE DEF n
      <3> QED BY <1>1, <1>2, <2>4 DEF NormalizeResponse, Body
    <2>6. a.status = "completed" /\ ~LateLinks => LinkStored(provider, a) = {"video"}
      <3> HIDE DEF n
      <3>1. n.url = Normalised(provider, a).url
        BY DEF n
      <3> QED BY <1>1, <2>3, <2>5, <3>1 DEF LinkStored
    <2> HIDE DEF n
    <2> QED BY <1>1, <1>2, <1>4, <2>5, <2>6 DEF provider, n
  <1> QED BY <1>3, <1>4

LEMMA LinksStored ==
  \A provider, a : LinkStored(provider, a) \subseteq {"video", "echo", "same"}
  BY DEF LinkStored

\* A status query leaves of the job its status, and of what is known progress and a link.
LEMMA AnsweredStep ==
  ASSUME AdapterInv, NEW j \in Jobs, Asked(j), NEW a \in Bodies(j), PollAnswered(j, a),
         UNCHANGED <<key, req, task>>
  PROVE  AdapterInv'
  <1>1. job[j].status \in {"submitted", "polling"}
    BY DEF Asked, Is
  <1>2. /\ life[j] \in Life /\ LifeFits(j) /\ life \in [Jobs -> Life]
        /\ task[j] \in {"none", "running", "finished", "failed"}
    BY <1>1, JobThere
  <1> DEFINE provider == ProviderName(KeyOf(j).provider)
             n == Normalised(provider, a)
             full == life[j].full \/ n.full
             completed == n.status = "completed" \/ (n.status = "processing" /\ (full \/ n.url))
  <1>3. \/ /\ completed
           /\ job' = [job EXCEPT ![j].status = "remote_completed"]
           /\ \E link \in LinkStored(provider, a) :
                life' = [life EXCEPT ![j].full = TRUE, ![j].link = IF link = "same" THEN @ ELSE link]
        \/ /\ ~completed /\ n.status \in {"processing", "unknown"}
           /\ job' = [job EXCEPT ![j].status = "polling"]
           /\ life' = [life EXCEPT ![j].full = full]
        \/ /\ n.status = "failed"
           /\ job' = [job EXCEPT ![j].status = "failed"]
           /\ life' = life
    BY DEF PollAnswered
  <1>4. Documented(j) =>
          /\ n.status \in {"processing", "completed", "failed", "unknown"}
          /\ n.status = "processing" => task[j] = "running"
          /\ n.full => n.status \in {"completed", "failed"}
          /\ n.url => n.status = "completed"
          /\ n.status = "completed" =>
               /\ task[j] = "finished"
               /\ ~LateLinks => LinkStored(provider, a) = {"video"}
    BY <1>2, Answers
  <1>5. Documented(j) /\ life[j].full => task[j] = "finished"
    BY <1>2 DEF LifeFits, Told, Documented
  <1> HIDE DEF n, provider
  <1>6. CASE completed /\ \E link \in LinkStored(provider, a) :
                            /\ job' = [job EXCEPT ![j].status = "remote_completed"]
                            /\ life' = [life EXCEPT ![j].full = TRUE,
                                                    ![j].link = IF link = "same" THEN @ ELSE link]
    <2>1. PICK link \in LinkStored(provider, a) :
            life' = [life EXCEPT ![j].full = TRUE, ![j].link = IF link = "same" THEN @ ELSE link]
      BY <1>6
    <2> DEFINE new == IF link = "same" THEN life[j].link ELSE link
               l == [life[j] EXCEPT !.full = TRUE, !.link = new]
    <2>2. new \in {"none", "video", "echo"}
      <3>1. link \in {"video", "echo", "same"}
        BY <2>1, LinksStored
      <3>2. life[j].link \in {"none", "video", "echo"}
        BY <1>2 DEF Life
      <3> QED BY <3>1, <3>2
    <2>3. life' = [life EXCEPT ![j] = l]
      BY <1>2, <2>1
    <2>4. /\ l \in Life /\ l.full = TRUE /\ l.link = new /\ l.got = life[j].got
          /\ l.channel = life[j].channel
      <3> HIDE DEF new
      <3> QED BY <1>2, <2>2 DEF Life
    <2>5. Documented(j) => /\ task[j] = "finished"
                           /\ ~LateLinks => new = "video"
      <3>1. Documented(j) => n.status = "completed"
        BY <1>4, <1>5, <1>6
      <3> QED BY <1>4, <2>1, <3>1
    <2> HIDE DEF new, l
    <2> DEFINE s == "remote_completed"
    <2>6. Told([status |-> s], task[j], l)
      BY <2>4, <2>5 DEF Told, Documented
    <2>7. s \in Statuses /\ s \notin {"queued", "submitting"}
      BY DEF Statuses
    <2>8. job' = [job EXCEPT ![j].status = s] /\ UNCHANGED <<key, req, task>>
      BY <1>6
    <2>9. job[j].status \notin {"none", "failed"}
      BY <1>1
    <2> HIDE DEF s
    <2> QED BY ONLY AdapterInv, j \in Jobs, <2>3, <2>4, <2>6, <2>7, <2>8, <2>9, StatusMoves
  <1>7. CASE /\ ~completed /\ n.status \in {"processing", "unknown"}
             /\ job' = [job EXCEPT ![j].status = "polling"]
             /\ life' = [life EXCEPT ![j].full = full]
    <2> DEFINE l == [life[j] EXCEPT !.full = full]
    <2>1. life' = [life EXCEPT ![j] = l]
      BY <1>2, <1>7
    <2>2. full \in BOOLEAN
      BY Zenon
    <2>3. Documented(j) => (full <=> life[j].full)
      BY <1>4, <1>7
    <2> HIDE DEF full
    <2>4. /\ l \in Life /\ l.full = full /\ l.link = life[j].link /\ l.got = life[j].got
          /\ l.channel = life[j].channel
      BY <1>2, <2>2 DEF Life
    <2> HIDE DEF l
    <2> DEFINE s == "polling"
    <2>5. Told([status |-> s], task[j], l)
      BY <1>1, <1>2, <2>3, <2>4 DEF Told, Documented, LifeFits
    <2>6. s \in Statuses /\ s \notin {"queued", "submitting"}
      BY DEF Statuses
    <2>7. job' = [job EXCEPT ![j].status = s] /\ UNCHANGED <<key, req, task>>
      BY <1>7
    <2>8. job[j].status \notin {"none", "failed"}
      BY <1>1
    <2> HIDE DEF s
    <2> QED BY ONLY AdapterInv, j \in Jobs, <2>1, <2>4, <2>5, <2>6, <2>7, <2>8, StatusMoves
  <1>8. CASE job' = [job EXCEPT ![j].status = "failed"] /\ life' = life
    <2>1. life' = [life EXCEPT ![j] = life[j]]
      BY <1>2, <1>8
    <2> DEFINE s == "failed"
    <2>2. Told([status |-> s], task[j], life[j])
      BY <1>2 DEF Told, LifeFits
    <2>3. s \in Statuses /\ s \notin {"queued", "submitting"}
      BY DEF Statuses
    <2> DEFINE l == life[j]
    <2>4. l \in Life /\ life' = [life EXCEPT ![j] = l] /\ Told([status |-> s], task[j], l)
      BY <1>2, <2>1, <2>2
    <2>5. job[j].status \notin {"none", "failed"} /\ job' = [job EXCEPT ![j].status = s]
      BY <1>1, <1>8
    <2> HIDE DEF s, l
    <2> QED BY <2>3, <2>4, <2>5, StatusMoves
  <1> QED BY <1>3, <1>6, <1>7, <1>8

\* Only the status changes, of a job that upstream has.
LEMMA StatusOnly ==
  ASSUME AdapterInv, NEW j \in Jobs, NEW s \in {"polling", "remote_completed", "failed", "submitted"},
         Is(j, {"submitted", "polling", "remote_completed"}),
         job' = [job EXCEPT ![j].status = s], UNCHANGED <<key, req, task, life>>
  PROVE  AdapterInv'
  <1>1. job[j].status \in {"submitted", "polling", "remote_completed"}
    BY DEF Is
  <1>2. life[j] \in Life /\ LifeFits(j) /\ life \in [Jobs -> Life]
    BY <1>1, JobThere
  <1>3. Told([status |-> s], task[j], life[j])
    BY <1>2 DEF Told, LifeFits
  <1>4. s \in Statuses
    BY DEF Statuses
  <1> DEFINE l == life[j]
  <1>5. l \in Life /\ life' = [life EXCEPT ![j] = l] /\ Told([status |-> s], task[j], l)
    BY <1>2, <1>3
  <1> HIDE DEF l
  <1> QED BY <1>1, <1>4, <1>5, StatusMoves

LEMMA PollErrorStep ==
  ASSUME AdapterInv, NEW j \in Jobs, PollError(j)
  PROVE  AdapterInv'
  <1>1. /\ UNCHANGED <<key, req, task, life>> /\ Is(j, {"submitted", "polling"})
        /\ job[j].status \in {"submitted", "polling"}
    BY DEF PollError, Asked, adminVars, Is
  <1>2. job \in [Jobs -> JobRecord \cup {NoJob}] /\ job[j] \in JobRecord
    BY <1>1, JobThere
  <1>3. PICK x \in ErrorAnswers :
          job' = [job EXCEPT ![j].status = IF x.failure /\ ~x.passing THEN "failed" ELSE @]
    BY DEF PollError
  <1> DEFINE s == IF x.failure /\ ~x.passing THEN "failed" ELSE job[j].status
  <1>4. s \in {"polling", "remote_completed", "failed", "submitted"}
    BY <1>1
  <1>5. job' = [job EXCEPT ![j].status = s]
    BY <1>2, <1>3
  <1> HIDE DEF s
  <1>6. Is(j, {"submitted", "polling", "remote_completed"})
    BY <1>1 DEF Is
  <1> QED BY <1>1, <1>4, <1>5, <1>6, StatusOnly

LEMMA DownloadStep ==
  ASSUME AdapterInv, NEW j \in Jobs, Download(j)
  PROVE  AdapterInv'
  <1>1. job[j].status = "remote_completed" /\ UNCHANGED <<key, req, task>>
    BY DEF Download, Is, adminVars
  <1>2. life[j] \in Life /\ LifeFits(j) /\ life \in [Jobs -> Life]
    BY <1>1, JobThere
  <1>3. ASSUME NEW got \in {"video", "echo"}, Documented(j) /\ ~LateLinks => got = "video",
               job' = [job EXCEPT ![j].status = "completed"],
               life' = [life EXCEPT ![j].got = got]
        PROVE  AdapterInv'
    <2> DEFINE l == [life[j] EXCEPT !.got = got]
               s == "completed"
    <2>1. life' = [life EXCEPT ![j] = l]
      BY <1>2, <1>3
    <2>2. /\ l \in Life /\ l.full = life[j].full /\ l.link = life[j].link /\ l.got = got
          /\ l.channel = life[j].channel
      BY <1>2 DEF Life
    <2> HIDE DEF l
    <2>3. Told([status |-> s], task[j], l)
      BY <1>2, <1>3, <2>2 DEF Told, LifeFits, Documented
    <2>4. s \in Statuses /\ s \notin {"queued", "submitting"}
      BY DEF Statuses
    <2>5. job[j].status \notin {"none", "failed"} /\ job' = [job EXCEPT ![j].status = s]
      BY <1>1, <1>3
    <2> HIDE DEF s
    <2> QED BY <1>1, <2>1, <2>2, <2>3, <2>4, <2>5, StatusMoves
  <1>4. CASE life[j].link # "none"
    <2>1. /\ job' = [job EXCEPT ![j].status = "completed"]
          /\ life' = [life EXCEPT ![j].got = life[j].link]
      BY <1>4 DEF Download
    <2>2. life[j].link \in {"video", "echo"}
      BY <1>2, <1>4 DEF Life
    <2>3. Documented(j) /\ ~LateLinks => life[j].link = "video"
      BY <1>2, <2>2 DEF LifeFits, Told, Documented
    <2> QED BY <1>3, <2>1, <2>2, <2>3
  <1>5. CASE life[j].link = "none"
    <2>1. PICK a \in Bodies(j) :
            LET n == Normalised(ProviderName(KeyOf(j).provider), a)
            IN \/ /\ n.url
                  /\ job' = [job EXCEPT ![j].status = "completed"]
                  /\ life' = [life EXCEPT ![j].got = IF a.url THEN "video" ELSE "echo"]
               \/ /\ ~n.url
                  /\ job' = [job EXCEPT ![j].status = IF NotReady(n) THEN "polling" ELSE "failed"]
                  /\ life' = life
      BY <1>5 DEF Download
    <2> DEFINE n == Normalised(ProviderName(KeyOf(j).provider), a)
               got == IF a.url THEN "video" ELSE "echo"
    <2>2. Documented(j) => (n.url => a.url)
      BY <1>2, Answers
    <2>3. \/ n.url /\ job' = [job EXCEPT ![j].status = "completed"]
                   /\ life' = [life EXCEPT ![j].got = got]
          \/ /\ job' = [job EXCEPT ![j].status = IF NotReady(n) THEN "polling" ELSE "failed"]
             /\ life' = life
      BY <2>1
    <2> HIDE DEF n
    <2>4. CASE /\ n.url /\ job' = [job EXCEPT ![j].status = "completed"]
               /\ life' = [life EXCEPT ![j].got = got]
      <3>1. got \in {"video", "echo"} /\ (Documented(j) /\ ~LateLinks => got = "video")
        BY <2>2, <2>4
      <3> HIDE DEF got
      <3> QED BY <1>3, <2>4, <3>1
    <2>5. CASE /\ job' = [job EXCEPT ![j].status = IF NotReady(n) THEN "polling" ELSE "failed"]
               /\ life' = life
      <3> DEFINE s == IF NotReady(n) THEN "polling" ELSE "failed"
      <3>1. s \in {"polling", "remote_completed", "failed", "submitted"}
        OBVIOUS
      <3>2. job' = [job EXCEPT ![j].status = s]
        BY <2>5
      <3> HIDE DEF s
      <3>3. Is(j, {"submitted", "polling", "remote_completed"})
        BY <1>1 DEF Is
      <3> QED BY <1>1, <2>5, <3>1, <3>2, <3>3, StatusOnly
    <2> QED BY <2>3, <2>4, <2>5
  <1> QED BY <1>4, <1>5

--------------------------------------------------------------------------------
LEMMA AdapterStart == Init => AdapterInv
  <1> SUFFICES ASSUME Init PROVE AdapterInv
    OBVIOUS
  <1>1. /\ req = Idle /\ job = [j \in Jobs |-> NoJob] /\ life = [j \in Jobs |-> Unborn]
        /\ task = [j \in Jobs |-> "none"]
        /\ key \in [Keys -> {NoRow, [NoRow EXCEPT !.provider = "sora_api", !.url = "default",
                                                  !.status = "active"]}]
    BY DEF Init, CreationInit
  <1> DEFINE old == [NoRow EXCEPT !.provider = "sora_api", !.url = "default", !.status = "active"]
  <1>2. old \in KeyRow /\ NoRow \in KeyRow /\ Stored(old)
    <2>1. {"sora_api", "default", "active"} \subseteq Text
      BY Texts DEF RETIRED_PROVIDERS
    <2>2. NoRow \in KeyRow
      BY RowTypes
    <2>3. old \in KeyRow /\ old.provider = "sora_api" /\ old.url = "default"
      BY <2>1, <2>2 DEF KeyRow
    <2>4. "sora_api" \notin DOMAIN Alias
      BY DEF Alias
    <2> QED BY <2>2, <2>3, <2>4 DEF Stored, NormalizeProviderName
  <1> HIDE DEF old
  <1>3. \A k \in Keys : key[k] = NoRow \/ key[k] = old
    BY <1>1 DEF old
  <1>4. key \in [Keys -> KeyRow] /\ \A k \in Keys : KeyStored(k)
    BY <1>1, <1>2, <1>3 DEF KeyStored, old
  <1>5. Unborn \in Life /\ ~Unborn.full /\ Unborn.link = "none" /\ Unborn.got = "none"
    <2>1. Channel(NoRow) \in ChannelRow
      BY RowTypes
    <2> QED BY <2>1 DEF Unborn, Life
  <1>6. Types
    BY <1>1, <1>4, <1>5 DEF Types
  <1>7. CreationInv
    BY <1>1, <1>4 DEF CreationInv, JobFits
  <1>8. ASSUME NEW j \in Jobs PROVE LifeFits(j)
    <2>1. life[j] = Unborn /\ job[j].status = "none"
      BY <1>1 DEF NoJob
    <2>2. job[j].status # "completed"
      BY <2>1
    <2> QED BY <1>5, <2>1, <2>2 DEF LifeFits, Told
  <1> QED BY <1>6, <1>7, <1>8 DEF AdapterInv

LEMMA AdapterStep == AdapterInv /\ [Next]_vars => AdapterInv'
  <1> SUFFICES ASSUME AdapterInv, [Next]_vars PROVE AdapterInv'
    OBVIOUS
  <1>1. CASE CreationStep /\ UNCHANGED <<task, life>>
    BY <1>1, CreationKept
  <1>2. ASSUME NEW j \in Jobs, Poll(j) PROVE AdapterInv'
    <2>1. PICK a \in Bodies(j) : PollAnswered(j, a)
      BY <1>2 DEF Poll
    <2> QED BY <1>2, <2>1, AnsweredStep DEF Poll, adminVars
  <1>3. ASSUME NEW j \in Jobs, ContentFallback(j) PROVE AdapterInv'
    BY <1>3, StatusOnly DEF ContentFallback, Asked, Is, adminVars
  <1>4. ASSUME NEW j \in Jobs, JobStep(j) PROVE AdapterInv'
    BY <1>2, <1>3, <1>4, SubmitStep, SubmitWorkerErrorStep, AcceptedStep, RefusedStep,
       TaskEndsStep, PollErrorStep, DownloadStep DEF JobStep
  <1>5. CASE UNCHANGED vars
    BY <1>5 DEF vars, creationVars, adminVars, AdapterInv, Types, CreationInv, KeyStored, JobFits,
                LifeFits
  <1> QED BY <1>1, <1>4, <1>5 DEF Next

LEMMA AdapterInvariant == Spec => []AdapterInv
  BY AdapterStart, AdapterStep, PTL DEF Spec

--------------------------------------------------------------------------------
\* What the creation page lists for a key passes the form's parser and the key selection
\* (OfferedIsAccepted: model_choices.py against provider_keys.py), whatever is stored.
THEOREM OffersAreAccepted == Spec => []OfferedIsAccepted
  BY OffersHold, PTL DEF Spec

\* A queued job whose channel is as it was at creation passes the checks of the code that
\* builds its request (QueuedIsSendable: routes.py and job_regeneration.py against
\* sora_api.py), through any edits, deletions, retries and regenerations in between.
THEOREM QueuedAreSendable == Spec => []QueuedIsSendable
  <1>1. AdapterInv => QueuedIsSendable
    <2> SUFFICES ASSUME AdapterInv, NEW j \in Jobs, Is(j, {"queued"}), Unedited(j)
                 PROVE  PayloadAccepted(KeyOf(j), job[j]) /\ ~SubmitRaises(KeyOf(j), job[j])
      BY DEF QueuedIsSendable
    <2>1. job[j].status = "queued"
      BY DEF Is
    <2>2. job[j] \in JobRecord /\ job[j] # NoJob
      BY <2>1, JobThere DEF NoJob
    <2>3. JobFits(j) /\ \A k \in Keys : KeyStored(k)
      BY DEF AdapterInv, CreationInv
    <2>4. job[j].key # NoKey /\ job[j].key \in Keys /\ key[job[j].key] # NoRow
      BY <2>1, <2>2, <2>3 DEF JobFits, JobRecord
    <2>5. KeyOf(j) = key[job[j].key] /\ KeyOf(j).url # "none"
      BY <2>3, <2>4 DEF KeyOf, KeyStored, Stored
    <2>6. /\ KeyOf(j).provider = job[j].row.provider /\ KeyOf(j).model = job[j].row.model
          /\ KeyOf(j).model10 = job[j].row.model10 /\ KeyOf(j).url = job[j].row.url
      BY DEF Unedited, Channel
    <2>7. /\ Sendable(job[j].row, job[j])
          /\ job[j].model = ModelIdForSeconds(job[j].row, job[j].seconds)
      BY <2>1, <2>2, <2>3, <2>4, <2>5, <2>6 DEF JobFits
    <2>8. [job[j] EXCEPT !.model = ModelIdForSeconds(job[j].row, job[j].seconds)] = job[j]
      BY <2>2, <2>7 DEF JobRecord
    <2>9. PayloadAccepted(job[j].row, job[j]) /\ ~SubmitRaises(job[j].row, job[j])
      BY <2>7, <2>8 DEF Sendable
    <2>10. PayloadAccepted(KeyOf(j), job[j])
      BY <2>6, <2>9 DEF PayloadAccepted
    <2> QED BY <2>6, <2>9, <2>10 DEF SubmitRaises
  <1> QED BY <1>1, AdapterInvariant, PTL

\* If upstream has the link when it reports the end, as its documents say, a job of a
\* documented channel delivers the video (DeliversTheVideo: flow_omni.py and
\* worker_common.py), whatever it sends back meanwhile, and whoever edits the channel.
THEOREM VideosAreDelivered == ASSUME ~LateLinks PROVE Spec => []DeliversTheVideo
  <1>1. ASSUME ~LateLinks, AdapterInv PROVE DeliversTheVideo
    BY <1>1 DEF AdapterInv, LifeFits, Told, DeliversTheVideo, Is
  <1>2. AdapterInv => DeliversTheVideo
    BY <1>1
  <1> QED BY <1>2, AdapterInvariant, PTL

\* The end of a wait comes with a status query, which changes neither the task nor what is
\* known of its channel.
LEMMA EndsByQuery ==
  ASSUME AdapterInv, Next, NEW j \in Jobs, Is(j, {"submitted", "polling"}),
         job'[j].status = "remote_completed"
  PROVE  task'[j] = task[j] /\ life'[j].channel = life[j].channel
  <1>1. job[j].status \in {"submitted", "polling"} /\ job'[j] # job[j]
    BY DEF Is
  <1>2. /\ job[j] \in JobRecord /\ life[j] \in Life
        /\ job \in [Jobs -> JobRecord \cup {NoJob}] /\ life \in [Jobs -> Life]
    BY <1>1, JobThere
  <1>3. CASE CreationStep /\ UNCHANGED <<task, life>>
    BY <1>3
  <1>4. ASSUME NEW i \in Jobs, JobStep(i) PROVE task'[j] = task[j] /\ life'[j].channel = life[j].channel
    <2>1. ~TaskEnds(i)
      BY <1>1 DEF TaskEnds, creationVars
    <2>2. CASE i # j
      <3>1. ASSUME NEW s, job' = [job EXCEPT ![i].status = s] PROVE FALSE
        BY <1>1, <1>2, <2>2, <3>1
      <3>2. ~Accepted(i)
        BY <1>1, <1>2, <2>2 DEF Accepted
      <3>3. ~Submit(i) /\ ~SubmitWorkerError(i) /\ ~Refused(i)
        BY <3>1 DEF Submit, SubmitWorkerError, Refused
      <3>4. ~ContentFallback(i) /\ ~Download(i)
        BY <3>1 DEF ContentFallback, Download
      <3>5. ~Poll(i)
        BY <3>1 DEF Poll, PollAnswered
      <3>6. ~PollError(i)
        BY <1>1, <1>2, <2>2 DEF PollError
      <3> QED BY <1>4, <2>1, <3>2, <3>3, <3>4, <3>5, <3>6 DEF JobStep
    <2>3. CASE i = j
      <3>1. ~Submit(i) /\ ~SubmitWorkerError(i) /\ ~Accepted(i) /\ ~Refused(i) /\ ~Download(i)
        BY <1>1, <2>3 DEF Submit, SubmitWorkerError, Accepted, Refused, Download, Is
      <3>2. CASE ContentFallback(i) \/ PollError(i)
        BY <3>2 DEF ContentFallback, PollError
      <3>3. CASE Poll(i)
        <4>1. task' = task /\ \E a \in Bodies(j) : PollAnswered(j, a)
          BY <2>3, <3>3 DEF Poll
        <4>2. \/ \E full : life' = [life EXCEPT ![j].full = full]
              \/ \E link : life' = [life EXCEPT ![j].full = TRUE,
                                               ![j].link = IF link = "same" THEN @ ELSE link]
              \/ life' = life
          BY <4>1 DEF PollAnswered
        <4> QED BY <1>2, <4>1, <4>2 DEF Life
      <3> QED BY <1>4, <2>1, <3>1, <3>2, <3>3 DEF JobStep
    <2> QED BY <2>2, <2>3
  <1> QED BY <1>3, <1>4 DEF Next

\* On a documented channel a status query ends the wait only for a task that has finished
\* (DoneOnlyIfFinished: flow_omni.py and worker_poller.py), also where the channel was edited
\* while the task ran, or back.
THEOREM EndsAreFinished == Spec => DoneOnlyIfFinished
  <1>1. ASSUME AdapterInv, AdapterInv', Next, NEW j \in Jobs, Is(j, {"submitted", "polling"}),
               job'[j].status = "remote_completed", life'[j].full,
               life[j].channel.provider \in FlowFamily
        PROVE  task[j] = "finished"
    <2>1. task'[j] = task[j] /\ life'[j].channel = life[j].channel
      BY <1>1, EndsByQuery
    <2>2. LifeFits(j)'
      BY <1>1 DEF AdapterInv
    <2> QED BY <1>1, <2>1, <2>2 DEF LifeFits, Told
  <1>2. AdapterInv /\ AdapterInv' /\ [Next]_vars =>
          [\A j \in Jobs :
             Is(j, {"submitted", "polling"}) /\ job'[j].status = "remote_completed" /\ life'[j].full
               => task[j] = "finished" \/ life[j].channel.provider \notin FlowFamily]_vars
    BY <1>1
  <1> QED BY <1>2, AdapterInvariant, PTL DEF Spec, DoneOnlyIfFinished
================================================================================
