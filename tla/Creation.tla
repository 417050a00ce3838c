------------------------------- MODULE Creation -------------------------------
(*
How a video job comes to be queued (api/user/routes.py: /jobs, /jobs/batch and their
form twins; services/job_regeneration.py), while administrators edit the channel, the
risk rules and the reference presets it depends on (api/admin/routes.py).

A request reads the channel, checks what was asked of it, fetches the reference images
over the network, which takes a while, and inserts the jobs. It keeps the key row it
read. What a form holds is chosen where the code first looks at it; nothing else
depends on it. Quotas, limits, replays and batches are in Batches, the choice between
several keys in ProviderKeys.
*)
EXTENDS Channels

CONSTANTS Keys, Presets, Rules,
          KeyForms,     \* what administrators type about a channel
          Lengths,      \* durations users ask for
          Counts,       \* numbers of image links in a request
          MaxJobs,      \* bound: jobs
          MaxForms,     \* bound: forms of administrators
          MaxRequests   \* bound: creation requests

ASSUME CreationAssumption ==
  /\ {MaxJobs, MaxForms, MaxRequests} \subseteq Nat /\ Lengths \cup Counts \subseteq Nat
  /\ IsFiniteSet(Presets)

VARIABLES key,      \* key[k]: the row of a channel's key
          preset,   \* preset[p]: status and owner of a reference image preset
          rule,     \* rule[r]: a risk rule, whether it is active and whether it hits the word
          req,      \* the creation request under way
          job,      \* job[j]: what job j asks for, and its status
          forms, requests

adminVars == <<key, preset, rule, forms>>
creationVars == <<adminVars, req, job, requests>>

Jobs == 1..MaxJobs
NoKey == "no key"
ASSUME NoKeyAssumption == NoKey \notin Keys
NoRow == [provider |-> "", model |-> NoModel, model10 |-> NoModel, url |-> "none", status |-> "none"]
NoJob == [status |-> "none"]
Idle == [pc |-> "idle"]

Free == {j \in Jobs : job[j] = NoJob}
Channel(row) ==
  [provider |-> row.provider, model |-> row.model, model10 |-> row.model10, url |-> row.url]
KeyOf(j) == IF job[j].key \in Keys THEN key[job[j].key] ELSE NoRow
\* The channel of a job is as it was when the job was created.
Unedited(j) == Channel(KeyOf(j)) = job[j].row

--------------------------------------------------------------------------------
\* Administrators.

Edits == forms < MaxForms /\ forms' = forms + 1

CreateKey(k) ==
  /\ Edits /\ key[k] = NoRow
  /\ \E form \in KeyForms :
       /\ KeyFormValid(form)
       /\ key' = [key EXCEPT ![k] = KeyFormRow(form, "active")]
  /\ UNCHANGED <<preset, rule, req, job, requests>>

UpdateKey(k) ==
  /\ Edits /\ key[k] # NoRow /\ ~ProviderIsRetired(key[k].provider)
  /\ \E form \in KeyForms :
       /\ KeyFormValid(form)
       /\ key' = [key EXCEPT ![k] = KeyFormRow(form, @.status)]
  /\ UNCHANGED <<preset, rule, req, job, requests>>

Toggled(status) == IF status = "active" THEN "disabled" ELSE "active"

ToggleKey(k) ==
  /\ Edits /\ key[k] # NoRow /\ ~ProviderIsRetired(key[k].provider)
  /\ key' = [key EXCEPT ![k].status = Toggled(@)]
  /\ UNCHANGED <<preset, rule, req, job, requests>>

\* A key that a job names stays, marked.
DeleteKey(k) ==
  /\ Edits /\ key[k] # NoRow
  /\ key' = [key EXCEPT ![k] = IF \E j \in Jobs \ Free : job[j].key = k
                               THEN [@ EXCEPT !.status = "deleted"] ELSE NoRow]
  /\ UNCHANGED <<preset, rule, req, job, requests>>

\* The four forms of a risk rule: create, update of the keywords, toggle, delete.
RuleForm(r) ==
  /\ Edits
  /\ \/ \E hits \in BOOLEAN :
          rule' = [rule EXCEPT ![r] = [status |-> IF @.status = "none" THEN "active" ELSE @.status,
                                       hits |-> hits]]
     \/ rule[r].status # "none" /\ rule' = [rule EXCEPT ![r].status = Toggled(@)]
     \/ rule[r].status # "none" /\ rule' = [rule EXCEPT ![r] = [status |-> "none", hits |-> FALSE]]
  /\ UNCHANGED <<key, preset, req, job, requests>>

\* The same of a reference preset. A form that saves a link has fetched the image before,
\* and what it could not fetch it does not save.
PresetFetched(p, owner) ==
  preset' = [preset EXCEPT ![p] = [status |-> IF @.status = "none" THEN "active" ELSE @.status,
                                   owner |-> owner]]
PresetToggled(p) == preset[p].status # "none" /\ preset' = [preset EXCEPT ![p].status = Toggled(@)]
PresetDeleted(p) ==
  preset[p].status # "none" /\ preset' = [preset EXCEPT ![p] = [status |-> "none", owner |-> "user"]]

\* The user's own forms reach his presets only.
UserPresetForm(p) ==
  /\ Edits /\ preset[p].owner = "user"
  /\ PresetFetched(p, "user") \/ PresetToggled(p) \/ PresetDeleted(p)
  /\ UNCHANGED <<key, rule, req, job, requests>>

\* An administrator's reach all, and may hand one to another user.
AdminPresetForm(p) ==
  /\ Edits
  /\ (\E owner \in {"user", "common", "other"} : PresetFetched(p, owner)) \/ PresetToggled(p) \/ PresetDeleted(p)
  /\ UNCHANGED <<key, rule, req, job, requests>>

AdminStep ==
  \/ \E k \in Keys : CreateKey(k) \/ UpdateKey(k) \/ ToggleKey(k) \/ DeleteKey(k)
  \/ \E r \in Rules : RuleForm(r)
  \/ \E p \in Presets : UserPresetForm(p) \/ AdminPresetForm(p)

--------------------------------------------------------------------------------
\* The creation request. A prompt holds the word risk rules look for, or does not.

\* match_risk_message
Risky(prompt) == prompt = "word" /\ \E r \in Rules : rule[r].status = "active" /\ rule[r].hits

Usable(p) == preset[p].status = "active" /\ preset[p].owner \in {"user", "common"}

\* _parse_model_choice and _assert_requested_key_available: a key by its id, a channel by
\* its name, or only a duration.
Choices ==
  {[kind |-> "key", key |-> k, seconds |-> s] :
     k \in {k \in Keys : ~ProviderIsRetired(key[k].provider)}, s \in Lengths}
  \cup {[kind |-> "channel", provider |-> p, seconds |-> s] :
     p \in {p \in LiveProviders : \E s \in Lengths : ProviderSupportsSeconds(p, s)}, s \in Lengths}
  \cup {[kind |-> "length", provider |-> "sora_api", seconds |-> s] : s \in Lengths \cap SUPPORTED_SECONDS}

\* _select_model_provider_key
KeysFor(choice) ==
  IF choice.kind = "key" THEN {choice.key} \cap {k \in Keys : Selectable(key[k], choice.seconds)}
  ELSE {k \in Keys : key[k].provider = choice.provider /\ Selectable(key[k], choice.seconds)}

\* A request up to the choice of a key. One whose prompts are all refused needs none, and goes
\* on under the name the form gave.
ChooseChannel(prompts) ==
  \E choice \in Choices :
    LET normal == {p \in prompts : ~Risky(p)}
        chosen(k) ==
          [pc |-> "chosen", prompts |-> prompts, normal |-> normal, key |-> k, seconds |-> choice.seconds,
           row |-> IF k = NoKey THEN NoRow ELSE key[k],
           provider |-> IF k # NoKey THEN key[k].provider
                        ELSE IF choice.kind = "key" THEN "" ELSE choice.provider,
           model |-> IF k = NoKey THEN NoModel ELSE ModelIdForSeconds(key[k], choice.seconds),
           size |-> <<"", "">>, images |-> 0, video |-> FALSE]
    IN /\ req = Idle /\ requests < MaxRequests
       /\ choice.kind = "channel" => ProviderSupportsSeconds(choice.provider, choice.seconds)
       /\ IF normal = {} THEN req' = chosen(NoKey)
                         ELSE \E k \in KeysFor(choice) : req' = chosen(k)
       /\ requests' = requests + 1
       /\ UNCHANGED <<adminVars, job>>

\* The endpoints take one prompt or many; the two of each kind differ in what they return.
CreateJob == \E prompt \in {"clean", "word"} : ChooseChannel({prompt})
CreateJobsBatch == \E prompts \in (SUBSET {"clean", "word"}) \ {{}} : ChooseChannel(prompts)

\* _resolve_generation_specs
SpecsAllowed(r, size) ==
  IF r.provider = "oaire_grok" THEN ValidGrok(r.model, r.seconds, size, 0)
                               ELSE size \in SUPPORTED_VIDEO_SIZES

ResolveSpecs ==
  /\ req.pc = "chosen"
  /\ \E size \in Sizes :
       /\ SpecsAllowed(req, size)
       /\ req' = [req EXCEPT !.pc = "specs", !.size = size]
  /\ UNCHANGED <<adminVars, job, requests>>

\* Mutation of MaterialsAllowed: nobody counts the images.
MaterialsUncounted(r, m) == m.video => r.provider = "wuyin_omni"

\* _resolve_job_reference_materials. A link given twice counts twice before the images are
\* fetched. What cannot be fetched is refused, but for a link the user confirmed on the two
\* older channels; Grok wants the shape of the video or a confirmation.
MaterialsAllowed(r, m) ==
  /\ m.links + m.again + Cardinality(m.presets) <= MaxImages(r.provider, r.model, r.size[1])
  /\ \A p \in m.presets : Usable(p)
  /\ m.video => r.provider = "wuyin_omni"
  /\ CASE m.state = "unreachable" -> m.links = 0 /\ (r.provider \in FlowFamily => m.presets = {})
       [] m.state = "unreachable, confirmed" ->
            r.provider \in FlowFamily => m.links = 0 /\ m.presets = {}
       [] m.state = "odd shape" -> r.provider = "oaire_grok" => m.links = 0 /\ m.presets = {}
       [] OTHER -> TRUE

Materials ==
  [links : Counts, again : {0, 1}, presets : SUBSET Presets, video : BOOLEAN,
   state : {"fine", "unreachable", "unreachable, confirmed", "odd shape", "odd shape, confirmed"}]

\* _reference_image_urls, and its like in the form: a link goes once with the request.
ReferenceImages(m) == m.links + Cardinality(m.presets)

ResolveReferences ==
  /\ req.pc = "specs"
  /\ IF req.normal = {} THEN req' = [req EXCEPT !.pc = "materials"]
     ELSE \E m \in Materials :
            /\ m.links = 0 => m.again = 0
            /\ MaterialsAllowed(req, m)
            /\ req' = [req EXCEPT !.pc = "materials", !.images = ReferenceImages(m), !.video = m.video]
  /\ UNCHANGED <<adminVars, job, requests>>

\* What create_jobs_batch_and_reserve checks once more of the channel it was given.
StillAllowed(r) ==
  r.key # NoKey =>
    /\ ~ProviderIsRetired(r.row.provider)
    /\ r.video => r.row.provider \notin FlowFamily \cup {"veo_omni"}
    /\ r.row.provider = "oaire_grok" => ValidGrok(r.model, r.seconds, r.size, r.images)

\* One job per prompt. The database refuses a key that is gone.
NewJob(r, prompt) ==
  [status |-> IF prompt \in r.normal THEN "queued" ELSE "failed", prompt |-> prompt,
   key |-> r.key, row |-> Channel(r.row), model |-> r.model, seconds |-> r.seconds, size |-> r.size,
   images |-> r.images, video |-> r.video, retryOf |-> 0]

InsertJobs ==
  /\ req.pc = "materials" /\ StillAllowed(req)
  /\ req.key # NoKey => key[req.key] # NoRow
  /\ \E slots \in SUBSET Free :
       /\ Cardinality(slots) = Cardinality(req.prompts)
       /\ \A j \in slots, i \in Free \ slots : j < i
       /\ \E prompt \in [slots -> req.prompts] :
            /\ \A i, j \in slots : i < j => prompt[i] = "clean" /\ prompt[j] = "word"
            /\ job' = [j \in Jobs |-> IF j \in slots THEN NewJob(req, prompt[j]) ELSE job[j]]
  /\ req' = Idle
  /\ UNCHANGED <<adminVars, requests>>

\* Any step may refuse instead, and so may a limit or the quota.
RequestRefused ==
  /\ req # Idle
  /\ req' = Idle
  /\ UNCHANGED <<adminVars, job, requests>>

--------------------------------------------------------------------------------
\* Regeneration of a failed job, with what it asked for then. The images are not counted
\* again, and the model compared is the one upstream named, if it answered.

\* regeneration_block_reason finds none
Regenerable(j) ==
  /\ job[j].status = "failed" /\ job[j].key # NoKey
  /\ \A i \in Jobs \ Free : job[i].retryOf # j
  /\ LET row == key[job[j].key]
     IN /\ row.status = "active" /\ ~ProviderIsRetired(row.provider)
        /\ ModelIdForSeconds(row, job[j].seconds) = job[j].model
        /\ row.provider = "oaire_grok" => ValidGrok(job[j].model, job[j].seconds, job[j].size, 0)
  /\ ~Risky(job[j].prompt)

\* `row` is the model's memory of the channel a job was checked for; the program keeps none. A
\* job regenerated under a channel edited since was checked for no channel as a whole.
RowKept(j) == IF Unedited(j) THEN job[j].row ELSE Channel(NoRow)

Regenerate(j) ==
  /\ Regenerable(j)
  /\ \E child \in Free :
       /\ \A other \in Free : child <= other
       /\ job' = [job EXCEPT ![child] = [job[j] EXCEPT !.status = "queued", !.retryOf = j,
                                                       !.row = RowKept(j)]]
  /\ UNCHANGED <<adminVars, req, requests>>

--------------------------------------------------------------------------------
CreationInit ==
  \* a channel configured before its provider was retired may still be there
  /\ key \in [Keys -> {NoRow, [NoRow EXCEPT !.provider = "sora_api", !.url = "default", !.status = "active"]}]
  /\ preset = [p \in Presets |-> [status |-> "none", owner |-> "user"]]
  /\ rule = [r \in Rules |-> [status |-> "none", hits |-> FALSE]]
  /\ req = Idle
  /\ job = [j \in Jobs |-> NoJob]
  /\ forms = 0 /\ requests = 0

CreationStep ==
  \/ AdminStep
  \/ CreateJob \/ CreateJobsBatch \/ ResolveSpecs \/ ResolveReferences \/ InsertJobs \/ RequestRefused
  \/ \E j \in Jobs : Regenerate(j)

--------------------------------------------------------------------------------
\* What the page offers, the form takes: every duration model_options lists for a key
\* passes _parse_model_choice and _select_model_provider_key, so a choice fails only for a
\* key that changed since the page was drawn.
OfferedIsAccepted ==
  \A k \in Keys : \A s \in Offers(key[k]) :
    /\ [kind |-> "key", key |-> k, seconds |-> s] \in Choices \/ s \notin Lengths
    /\ k \in KeysFor([kind |-> "key", key |-> k, seconds |-> s])
================================================================================
