-------------------------------- MODULE MCAdapter --------------------------------
(*
Adapter on a small instance: one key, one preset, one risk rule and one creation request;
every channel, and the lengths and numbers of images around its limits.
*)
EXTENDS Adapter

Form(provider, model, model10) ==
  [provider |-> provider, model |-> model, model10 |-> model10, url |-> "none"]

\* What administrators type: each channel, the ones the forms refuse, and a channel whose
\* column for ten seconds is left over from another.
MCKeyForms ==
  {[Form("oaire_grok", m, NoModel) EXCEPT !.url = "gateway"] : m \in GROK_MODELS}
  \cup {Form("oaire_grok", "grok", NoModel), Form("grok", "grok", NoModel)}
  \cup {Form("oaire_omni", NoModel, m) : m \in {NoModel, "veo"}}
  \cup {Form("veo_omni", NoModel, m) : m \in {"veo", "omni fast"}}
  \cup {Form("flow_omni", NoModel, NoModel), Form("google_omni", NoModel, NoModel), Form("custom", NoModel, "veo")}

\* What a job asks for, presets and rules matter up to its submission: past it, one size
\* without images goes on, and the forms left are those of the key.
TypicalOnceSent ==
  \A j \in Jobs : task[j] # "none" =>
    /\ job[j].images = 0 /\ ~job[j].video /\ job[j].size = <<"720p", "9:16">>
    /\ \A i \in Jobs \ Free : job[i].prompt = "clean"
    /\ \A r \in Rules : rule[r].status = "none"
    /\ \A p \in Presets : preset[p].status = "none"

\* One job at a time is past the queue: jobs share nothing but the channel.
OneInFlight ==
  \A i, j \in Jobs : i # j =>
    Is(i, {"none", "queued", "failed"}) \/ Is(j, {"none", "queued", "failed"})

\* A prompt with the word is worth a run only where a rule may hit it.
WordNeedsRule ==
  \A j \in Jobs \ Free : job[j].prompt = "word" => \E r \in Rules : rule[r].status # "none"
================================================================================
