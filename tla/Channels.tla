------------------------------- MODULE Channels -------------------------------
(*
What each upstream channel can do, said four times in the program: by the list the
creation page offers (model_choices.py), the checks of the creation forms
(provider_keys.py, model_capabilities.py), the forms administrators edit keys with
(api/admin/routes.py), and the builders of the requests (sora_api.py, flow_omni.py,
oaire_omni.py, oaire_grok.py). Pure definitions, used by Creation and Adapter.

Models are named, and images counted. A size is the pair it is computed from: the
resolution and the aspect ratio. Of the model columns of a key only model_id and
model_id_10s are kept, the ones channels still in use read.
*)
EXTENDS Integers, FiniteSets

RETIRED_PROVIDERS == {"podsora", "podgrok", "sora_api", "seedance"}
LiveProviders == {"oaire_grok", "flow_omni", "oaire_omni", "veo_omni", "wuyin_omni"}
FlowFamily == {"flow_omni", "oaire_omni", "oaire_grok"}

\* Names people type for a channel; each of the two normalisers knows more of them.
Alias == [grok |-> "podgrok", sora |-> "sora_api", google_omni |-> "wuyin_omni"]
NormalizeProviderName(text) == IF text \in DOMAIN Alias THEN Alias[text] ELSE text
\* The request builders' own normaliser: what it does not know it takes for Sora.
ProviderName(text) ==
  LET name == NormalizeProviderName(text)
  IN IF name \in LiveProviders \cup RETIRED_PROVIDERS THEN name ELSE "sora_api"

ProviderIsRetired(text) == NormalizeProviderName(text) \in RETIRED_PROVIDERS

PROVIDER_SECONDS ==
  [oaire_grok |-> 1..15, sora_api |-> {8, 12}, seedance |-> {5, 10, 12}, podsora |-> {4, 8, 12},
   podgrok |-> {12, 15}, veo_omni |-> {10}, wuyin_omni |-> {10}, flow_omni |-> {8}, oaire_omni |-> {10}]
ProviderSupportsSeconds(text, seconds) ==
  LET name == NormalizeProviderName(text)
  IN name \in DOMAIN PROVIDER_SECONDS /\ seconds \in PROVIDER_SECONDS[name]

\* validate_seconds, of choices that name no channel
SUPPORTED_SECONDS == {4, 5, 8, 10, 12, 15}

NoModel == ""
GROK_MODELS == {"grok", "grok preview"}
OMNI_MODELS == {"omni fast", "omni fast no water"}
RATIOS == {"9:16", "16:9", "1:1"}
Sizes == {"480p", "720p", "1080p"} \X RATIOS
SUPPORTED_VIDEO_SIZES == {"720p"} \X {"9:16", "16:9"}

Resolutions(model) == {"480p", "720p"} \cup (IF model = "grok preview" THEN {"1080p"} ELSE {})

\* capabilities(...)["max_images"], and `maximum` of the creation forms
MaxImages(provider, model, resolution) ==
  CASE provider = "oaire_grok" -> IF model = "grok preview" /\ resolution # "1080p" THEN 7 ELSE 1
    [] provider \in {"flow_omni", "veo_omni"} -> 6
    [] provider = "oaire_omni" -> 5
    [] OTHER -> 1

\* validate_grok raises nothing
ValidGrok(model, seconds, size, images) ==
  /\ model \in GROK_MODELS /\ seconds \in PROVIDER_SECONDS["oaire_grok"]
  /\ size[1] \in Resolutions(model) /\ size[2] \in RATIOS
  /\ images <= MaxImages("oaire_grok", model, size[1])

--------------------------------------------------------------------------------
\* Keys. A row is [provider, model, model10, url, status].
ModelIdForSeconds(row, seconds) ==
  LET provider == NormalizeProviderName(row.provider)
      ten == IF row.model10 = NoModel THEN "omni fast" ELSE row.model10
      model ==
        CASE provider = "oaire_grok" -> IF row.model \in GROK_MODELS THEN row.model ELSE NoModel
          [] provider = "flow_omni" -> "flow"
          [] provider = "oaire_omni" -> IF ten \in OMNI_MODELS THEN ten ELSE NoModel
          [] provider = "wuyin_omni" -> "wuyin"
          [] OTHER -> row.model10
      lengths ==
        CASE provider = "oaire_grok" -> 1..15 [] provider = "flow_omni" -> {8} [] OTHER -> {10}
  IN IF seconds \in lengths THEN model ELSE NoModel

\* A key a form may use: the filters of _select_model_provider_key and select_provider_key.
\* Limits and cool-downs are in ProviderKeys.
Selectable(row, seconds) ==
  /\ row.status = "active" /\ ~ProviderIsRetired(row.provider)
  /\ ProviderSupportsSeconds(row.provider, seconds)
  /\ ModelIdForSeconds(row, seconds) # NoModel

\* Mutation of Offers: a disabled key is still on the page.
OffersDisabled(row) ==
  LET provider == NormalizeProviderName(row.provider)
      lengths == IF provider \in DOMAIN PROVIDER_SECONDS THEN PROVIDER_SECONDS[provider] ELSE {}
  IN IF row.status = "none" \/ ProviderIsRetired(provider) THEN {}
     ELSE {s \in lengths : ModelIdForSeconds(row, s) # NoModel}

\* model_options: the durations the page offers for a key. For Grok it looks at one of
\* them and lets the user fill in any its capabilities list.
Offers(row) ==
  LET provider == NormalizeProviderName(row.provider)
      lengths == IF provider \in DOMAIN PROVIDER_SECONDS THEN PROVIDER_SECONDS[provider] ELSE {}
  IN IF row.status # "active" \/ ProviderIsRetired(provider) THEN {}
     ELSE IF provider = "oaire_grok"
          THEN IF ModelIdForSeconds(row, 6) # NoModel THEN 1..15 ELSE {}
          ELSE {s \in lengths : ModelIdForSeconds(row, s) # NoModel}

\* What the forms accept of an administrator: _validate_grok_model, _provider_base_url.
KeyFormValid(form) ==
  LET provider == NormalizeProviderName(form.provider)
  IN /\ ~ProviderIsRetired(provider)
     /\ provider = "oaire_grok" => form.model \in GROK_MODELS /\ form.url # "none"
\* ... and what they store: three channels have an address of their own.
KeyFormRow(form, status) ==
  [provider |-> NormalizeProviderName(form.provider), model |-> form.model, model10 |-> form.model10,
   url |-> IF form.url = "none" THEN "default" ELSE form.url, status |-> status]

--------------------------------------------------------------------------------
\* The request. _model_for, then what create_video checks before it sends anything.
ModelFor(provider, model) ==
  CASE provider = "flow_omni" -> "flow"
    [] provider = "oaire_omni" /\ model = NoModel -> "omni fast"
    [] OTHER -> model

\* build_payload of each documented channel
GrokPayload(model, job) == ValidGrok(model, job.seconds, job.size, job.images) /\ ~job.video
FlowPayload(job) ==
  ~job.video /\ job.seconds = 8 /\ job.size \in SUPPORTED_VIDEO_SIZES /\ job.images <= 6
OmniPayload(model, job) ==
  /\ ~job.video /\ job.seconds = 10 /\ job.size \in SUPPORTED_VIDEO_SIZES
  /\ model \in OMNI_MODELS /\ job.images <= 5

PayloadAccepted(row, job) ==
  LET provider == ProviderName(row.provider)
      model == ModelFor(provider, job.model)
  IN CASE provider = "oaire_grok" -> GrokPayload(model, job) /\ row.url # "none"
       [] provider = "flow_omni" -> FlowPayload(job)
       [] provider = "oaire_omni" -> OmniPayload(model, job)
       [] provider = "wuyin_omni" -> job.seconds = 10 /\ job.images <= 1
       [] provider = "veo_omni" -> job.seconds = 10 /\ job.images <= 6
       [] OTHER -> job.images <= 1 /\ ~job.video

\* aspect_ratio_for_size, which raises for the others
HasAspectRatio(size) == size \in SUPPORTED_VIDEO_SIZES

\* The line written to the log before the request wants the aspect ratio of the size,
\* and only a Grok job brings its own: any other size raises, out of submit_queued_job.
SubmitRaises(row, job) ==
  row.provider # "oaire_grok" /\ ~HasAspectRatio(job.size)
================================================================================
