------------------------------ MODULE SoundProofs ------------------------------
(*****************************************************************************)
(* What the operator hears, proved for every value of the constants: the     *)
(* spoken texts (Voice), the status reports (PeriodicNarrator), the weather  *)
(* alerts (WeatherAlerts) and the alarms (AudioPlayer).                      *)
(*****************************************************************************)
EXTENDS Voice, PeriodicNarrator, WeatherAlerts, AudioPlayer, SequenceTheorems,
        FiniteSetTheorems, TLAPS

-----------------------------------------------------------------------------
(* Speech.                                                                   *)

VoiceShapes ==
    /\ wanted \in Texts \cup {NoSpeech}
    /\ piper \in {"none", "up", "dead"}
    /\ asked \in Seq(Texts) /\ answers \in {0, 1}
    /\ partial \in [Texts -> {"none", "cut", "whole"}]
    /\ cache \in [Texts -> {"none", "whole"}]

\* What Piper owes the worker: nothing when the worker does not wait, else one
\* answer, which is still to be rendered, there, or lost with the process.
OneAnswer ==
    \/ wanted = NoSpeech /\ Len(asked) = 0 /\ answers = 0
    \/ wanted # NoSpeech /\ Len(asked) = 1 /\ asked[1] = wanted /\ answers = 0 /\ piper = "up"
    \/ wanted # NoSpeech /\ Len(asked) = 0 /\ answers = 1 /\ partial[wanted] = "whole"
    \/ wanted # NoSpeech /\ Len(asked) = 0 /\ answers = 0 /\ piper = "dead"

VoiceInv == VoiceShapes /\ OneAnswer /\ voiced = "whole"

LEMMA VoiceStarts == VoiceInit => VoiceInv
  BY DEF VoiceInit, VoiceInv, VoiceShapes, OneAnswer

LEMMA VoiceKeeps == VoiceInv /\ [VoiceNext]_voiceVars => VoiceInv'
<1> SUFFICES ASSUME VoiceInv, [VoiceNext]_voiceVars PROVE VoiceInv'
  OBVIOUS
<1> USE DEF VoiceInv
<1>t. VoiceShapes /\ OneAnswer /\ voiced = "whole"
  OBVIOUS
<1>n. NoSpeech \notin Texts
  BY VoiceAssumption DEF NoSpeech
<1>1. ASSUME NEW stem \in Stems, RunTrack(stem) \/ RunSequence(Parts[stem]) PROVE VoiceInv'
  BY <1>1 DEF RunTrack, RunSequence, VoiceShapes, OneAnswer
<1>2. ASSUME NEW t \in Texts, SpeakCached(t) PROVE VoiceInv'
  BY <1>2 DEF SpeakCached, VoiceShapes, OneAnswer
<1>3. ASSUME NEW t \in Texts, AskPiper(t) PROVE VoiceInv'
  <2>1. Len(asked) = 0 /\ answers = 0
    BY <1>3, <1>t DEF AskPiper, WorkerIdle, OneAnswer
  <2>2. asked' = Append(asked, t) /\ asked \in Seq(Texts)
    BY <1>3 DEF AskPiper, VoiceShapes
  <2>3. asked' \in Seq(Texts) /\ Len(asked') = 1 /\ asked'[1] = t
    BY <2>1, <2>2
  <2>4. answers' = 0 /\ wanted' = t /\ piper' = "up" /\ UNCHANGED <<partial, cache, voiced>>
    BY <1>3, <2>1 DEF AskPiper
  <2>5. OneAnswer'
    BY <1>n, <2>3, <2>4 DEF OneAnswer
  <2>6. VoiceShapes'
    BY <2>3, <2>4 DEF VoiceShapes
  <2>7. QED BY <2>4, <2>5, <2>6
<1>4. ASSUME NEW t \in Texts, WriteFails(t) PROVE VoiceInv'
  BY <1>4 DEF WriteFails, WorkerIdle, VoiceShapes, OneAnswer
<1>5. CASE PlayFragment
  BY <1>5 DEF PlayFragment, VoiceShapes, OneAnswer
<1>6. CASE ReadAnswerFails
  <2>1. Len(asked) = 0
    BY <1>6, <1>t DEF ReadAnswerFails, OneAnswer
  <2>2. VoiceShapes'
    BY <1>6 DEF ReadAnswerFails, Fails, VoiceShapes
  <2>3. OneAnswer'
    BY <1>6, <2>1 DEF ReadAnswerFails, Fails, OneAnswer
  <2>4. QED BY <1>6, <2>2, <2>3 DEF ReadAnswerFails
<1>7. CASE ReadAnswer
  <2>1. Len(asked) = 0 /\ answers = 1 /\ partial[wanted] = "whole"
    BY <1>7, <1>t DEF ReadAnswer, OneAnswer
  <2>2. cache' = [cache EXCEPT ![wanted] = "whole"] /\ voiced' = "whole"
    BY <1>7, <2>1 DEF ReadAnswer
  <2>3. wanted' = NoSpeech /\ asked' = asked /\ answers' = 0
    BY <1>7, <2>1 DEF ReadAnswer, Fails
  <2>4. VoiceShapes'
    BY <1>7, <2>2, <2>3 DEF ReadAnswer, Fails, VoiceShapes
  <2>5. OneAnswer'
    BY <2>1, <2>3 DEF OneAnswer
  <2>6. QED BY <2>2, <2>4, <2>5
<1>8. CASE TimeOut
  <2>1. VoiceShapes'
    BY <1>8 DEF TimeOut, Fails, VoiceShapes
  <2>2. QED BY <1>8, <2>1 DEF TimeOut, Fails, OneAnswer
<1>9. CASE PiperStarts
  <2>1. asked # << >> /\ asked \in Seq(Texts) /\ asked[1] \in Texts
    BY <1>9 DEF PiperStarts, VoiceShapes
  <2>2. Len(asked) # 0
    BY <2>1
  <2>3. VoiceShapes'
    BY <1>9, <2>1 DEF PiperStarts, VoiceShapes
  <2>4. OneAnswer'
    BY <1>9, <1>t, <2>2 DEF PiperStarts, OneAnswer
  <2>5. QED BY <1>9, <2>3, <2>4 DEF PiperStarts
<1>10. CASE PiperAnswers
  <2>1. asked # << >> /\ asked \in Seq(Texts) /\ asked[1] \in Texts
    BY <1>10 DEF PiperAnswers, VoiceShapes
  <2>2. Len(asked) # 0
    BY <2>1
  <2>3. Len(asked) = 1 /\ asked[1] = wanted /\ wanted # NoSpeech /\ answers = 0
    BY <1>t, <2>2 DEF OneAnswer
  <2>4. Tail(asked) \in Seq(Texts) /\ Len(Tail(asked)) = 0
    BY <2>1, <2>3, HeadTailProperties
  <2>5. partial' = [partial EXCEPT ![asked[1]] = "whole"] /\ asked' = Tail(asked) /\ answers' = 1
    BY <1>10, <2>3 DEF PiperAnswers
  <2>6. VoiceShapes'
    BY <1>10, <2>1, <2>4, <2>5 DEF PiperAnswers, VoiceShapes
  <2>7. OneAnswer'
    <3>1. partial'[wanted] = "whole"
      BY <2>1, <2>3, <2>5 DEF VoiceShapes
    <3>2. QED BY <1>10, <2>3, <2>4, <2>5, <3>1 DEF PiperAnswers, OneAnswer
  <2>8. QED BY <1>10, <2>6, <2>7 DEF PiperAnswers
<1>11. CASE PiperDies \/ Restart
  <2>1. VoiceShapes'
    <3>1. (asked' = asked \/ asked' = << >>) /\ asked \in Seq(Texts)
      BY <1>11 DEF PiperDies, Restart, VoiceShapes
    <3>2. << >> \in Seq(Texts)
      OBVIOUS
    <3>3. asked' \in Seq(Texts)
      BY <3>1, <3>2, Zenon
    <3>4. QED BY <1>11, <3>3 DEF PiperDies, Restart, VoiceShapes
  <2>2. OneAnswer'
    BY <1>11, <1>t DEF PiperDies, Restart, OneAnswer
  <2>3. QED BY <1>11, <2>1, <2>2 DEF PiperDies, Restart
<1>12. CASE UNCHANGED voiceVars
  BY <1>12 DEF voiceVars, VoiceShapes, OneAnswer
<1>13. QED
  BY <1>1, <1>2, <1>3, <1>4, <1>5, <1>6, <1>7, <1>8, <1>9, <1>10, <1>11, <1>12 DEF VoiceNext, VoiceStep

\* piper.go synthesize and its cache: what is cached and spoken is a whole rendering of its own
\* text, for every set of texts and every interleaving of time-outs, deaths and restarts.
THEOREM SpeechIsWhole == VoiceSpec => []SpokenIsWhole
<1>1. VoiceInv => SpokenIsWhole
  BY DEF VoiceInv, VoiceShapes, SpokenIsWhole
<1>2. QED BY <1>1, VoiceStarts, VoiceKeeps, PTL DEF VoiceSpec

-----------------------------------------------------------------------------
(* The configuration of the reports.                                         *)

\* Somebody is still going to read the configuration in use.
ToCollect == \E p \in Posters : poster[p].at = "set"
Saving    == \E p \in Posters : poster[p].at = "saving"

PosterShapes ==
    /\ poster = [p \in Posters |-> poster[p]]
    /\ \A p \in Posters : poster[p].at \in {"set", "saving"} \/ poster[p] = AtRest

OneSaves ==
    \A p, q \in Posters : poster[p].at = "saving" /\ poster[q].at = "saving" => p = q

SaveInv ==
    /\ PosterShapes /\ OneSaves
    /\ \A p \in Posters : poster[p].at = "saving" => ToCollect \/ poster[p].holds = {live}
    /\ settled => ToCollect \/ saved = {live} \/ Saving

LEMMA SaveStarts == NarratorInit => SaveInv
  BY DEF NarratorInit, SaveInv, PosterShapes, OneSaves, AtRest

LEMMA SaveKeeps == SaveInv /\ [NarratorNext]_narratorVars => SaveInv'
<1> SUFFICES ASSUME SaveInv, [NarratorNext]_narratorVars PROVE SaveInv'
  OBVIOUS
<1> USE DEF SaveInv, PosterShapes, OneSaves, ToCollect, Saving, AtRest
<1>1. ASSUME NEW p \in Posters, NEW cfg \in Configs, Post(p, cfg) PROVE SaveInv'
  <2>1. poster' = [poster EXCEPT ![p] = [at |-> "set", holds |-> {}]]
    BY <1>1 DEF Post
  <2>2. poster'[p].at = "set" /\ \A q \in Posters \ {p} : poster'[q] = poster[q]
    BY <2>1
  <2>3. PosterShapes' /\ OneSaves' /\ ToCollect'
    BY <2>1, <2>2
  <2>4. QED BY <2>3
<1>2. ASSUME NEW p \in Posters, Collect(p) PROVE SaveInv'
  <2>1. poster' = [poster EXCEPT ![p] = [at |-> "saving", holds |-> {live}]]
    BY <1>2 DEF Collect
  <2>2. poster'[p] = [at |-> "saving", holds |-> {live}] /\ \A q \in Posters \ {p} : poster'[q] = poster[q]
    BY <2>1
  <2>3. UNCHANGED <<live, saved, settled>> /\ \A q \in Posters : poster[q].at # "saving"
    BY <1>2 DEF Collect
  <2>4. PosterShapes' /\ OneSaves'
    BY <2>1, <2>2, <2>3
  <2>5. QED BY <2>2, <2>3, <2>4
<1>3. ASSUME NEW p \in Posters, Save(p) PROVE SaveInv'
  <2>1. poster' = [poster EXCEPT ![p] = AtRest] /\ poster[p].at = "saving"
    BY <1>3 DEF Save
  <2>2. poster'[p] = AtRest /\ \A q \in Posters \ {p} : poster'[q] = poster[q]
    BY <2>1
  <2>3. UNCHANGED live /\ saved' = IF settled' THEN poster[p].holds ELSE saved
    BY <1>3 DEF Save
  <2>4. PosterShapes' /\ OneSaves'
    BY <2>1, <2>2
  <2>5. \A q \in Posters : poster'[q].at # "saving"
    BY <2>1, <2>2
  <2>6. ToCollect => ToCollect'
    BY <2>1, <2>2
  <2>7. settled' => ToCollect' \/ saved' = {live'}
    BY <2>1, <2>3, <2>6
  <2>8. QED BY <2>4, <2>5, <2>7
<1>4. CASE NarratorLoop \/ SwitchArmed \/ Hear \/ PassTime
  <2>1. UNCHANGED <<live, saved, settled, poster>>
    BY <1>4 DEF NarratorLoop, TakePing, TakeNotify, Report, PassOver, Fired, SwitchArmed, Hear, PassTime
  <2>2. QED BY <2>1
<1>5. CASE RestartNarrator
  BY <1>5 DEF RestartNarrator
<1>6. CASE UNCHANGED narratorVars
  BY <1>6 DEF narratorVars
<1>7. QED BY <1>1, <1>2, <1>3, <1>4, <1>5, <1>6 DEF NarratorNext, Posting

\* narrateConfigStore Set and Save (narrate_config.go): when nobody is posting and the last save
\* did not fail, the file holds the configuration in use, for every number of posters.
THEOREM FileFollows == NarratorSpec => []FileFollowsConfig
<1>1. SaveInv => FileFollowsConfig
  BY DEF SaveInv, PosterShapes, ToCollect, Saving, AtRest, FileFollowsConfig
<1>2. QED BY <1>1, SaveStarts, SaveKeeps, PTL DEF NarratorSpec

-----------------------------------------------------------------------------
(* Weather alerts.                                                           *)

\* Whatever a rule counts towards a change has been against it for as long.
Counted(count, contrary) == \A a \in count : \E b \in contrary : a <= b

RuleStates == [active : BOOLEAN, above : SUBSET Nat, below : SUBSET Nat]

AlertsInv ==
    /\ rules \in [Rule -> RuleStates] /\ against \in [Rule -> SUBSET Nat]
    /\ \A r \in Rule : /\ rules[r].active => rules[r].above = {} /\ Counted(rules[r].below, against[r])
                       /\ ~rules[r].active => rules[r].below = {} /\ Counted(rules[r].above, against[r])
    /\ PanelShowsWorst

LEMMA LaterFacts ==
  ASSUME NEW ages \in SUBSET Nat, NEW contrary \in SUBSET Nat, Counted(ages, contrary)
  PROVE  /\ Later(ages) \in SUBSET Nat /\ Begun(Later(ages)) \in SUBSET Nat
         /\ Counted(Later(ages), Later(contrary))
         /\ Counted(Begun(Later(ages)), Begun(Later(contrary)))
<1>1. Later(ages) \in SUBSET Nat /\ Begun(Later(ages)) \in SUBSET Nat /\ Later(contrary) \in SUBSET Nat
  BY DEF Later, Begun
<1>2. Counted(Later(ages), Later(contrary))
  <2> SUFFICES ASSUME NEW a \in ages PROVE \E d \in Later(contrary) : (IF a < MinuteCap THEN a + 1 ELSE a) <= d
    BY DEF Counted, Later
  <2>1. PICK b \in contrary : a <= b
    BY DEF Counted
  <2>2. (IF b < MinuteCap THEN b + 1 ELSE b) \in Later(contrary)
    BY DEF Later
  <2>3. (IF a < MinuteCap THEN a + 1 ELSE a) <= (IF b < MinuteCap THEN b + 1 ELSE b)
    BY <2>1, AlertsAssumption
  <2>4. QED BY <2>2, <2>3
<1>3. Counted(Begun(Later(ages)), Begun(Later(contrary)))
  <2>1. CASE Later(ages) = {}
    BY <1>1, <2>1 DEF Counted, Begun
  <2>2. CASE Later(ages) # {}
    BY <1>2, <2>2 DEF Counted, Begun
  <2>3. QED BY <2>1, <2>2
<1>4. QED BY <1>1, <1>2, <1>3

LEMMA ReachedFacts ==
  ASSUME NEW ages \in SUBSET Nat, NEW contrary \in SUBSET Nat, Counted(ages, contrary),
         NEW limit \in Nat, Reached(ages, limit)
  PROVE  Reached(contrary, limit)
  BY DEF Counted, Reached

LEMMA AgedFacts ==
  ASSUME NEW s \in RuleStates
  PROVE  /\ Aged(s) \in RuleStates /\ (Aged(s).active <=> s.active)
         /\ Aged(s).above = Later(s.above) /\ Aged(s).below = Later(s.below)
<1>1. Later(s.above) \in SUBSET Nat /\ Later(s.below) \in SUBSET Nat
  BY DEF RuleStates, Later
<1>2. QED BY <1>1 DEF Aged, RuleStates

LEMMA PublishedFacts ==
  LET published == [Quiet EXCEPT !.active = TRUE]
  IN /\ Quiet \in RuleStates /\ ~Quiet.active /\ Quiet.above = {} /\ Quiet.below = {}
     /\ published \in RuleStates /\ published.active /\ published.above = {} /\ published.below = {}
  BY DEF Quiet, RuleStates

\* What becomes of one rule in a minute with weather: it is published or withdrawn
\* once it has counted long enough, or goes on with counts no older than the
\* samples against it.
LEMMA UpdateFacts ==
  ASSUME AlertsInv, NEW r \in Rule, NEW holds \in BOOLEAN,
         NEW s, s = Update(Aged(rules[r]), holds),
         NEW contrary, contrary = IF holds = s.active THEN {} ELSE Begun(Later(against[r]))
  PROVE  /\ s \in RuleStates /\ contrary \in SUBSET Nat
         /\ s.active => s.above = {} /\ Counted(s.below, contrary)
         /\ ~s.active => s.below = {} /\ Counted(s.above, contrary)
         /\ s.active # rules[r].active =>
              Reached(Begun(Later(against[r])), IF rules[r].active THEN ClearAfter ELSE FireAfter)
<1> DEFINE was == rules[r]
           now == Aged(was)
           anew == Begun(Later(against[r]))
           above == Begun(Later(was.above))
           below == Begun(Later(was.below))
<1>1. /\ was \in RuleStates /\ against[r] \in SUBSET Nat /\ was.active \in BOOLEAN
      /\ was.above \in SUBSET Nat /\ was.below \in SUBSET Nat
      /\ was.active => was.above = {} /\ Counted(was.below, against[r])
      /\ ~was.active => was.below = {} /\ Counted(was.above, against[r])
  BY DEF AlertsInv, RuleStates
<1>2. now \in RuleStates /\ (now.active <=> was.active) /\ now.above = Later(was.above) /\ now.below = Later(was.below)
  BY <1>1, AgedFacts
<1>3. above \in SUBSET Nat /\ below \in SUBSET Nat /\ anew \in SUBSET Nat
  BY <1>1, AlertsAssumption DEF Later, Begun
<1>4. (was.active => Counted(below, anew)) /\ (~was.active => Counted(above, anew))
  BY <1>1, LaterFacts
<1>5. ~Reached({}, FireAfter) /\ ~Reached({}, ClearAfter)
  BY DEF Reached
<1> HIDE DEF was, now, anew, above, below
<1>6. CASE was.active /\ holds
  <2>1. s = [now EXCEPT !.above = {}, !.below = {}]
    BY <1>2, <1>5, <1>6 DEF Update, now, was
  <2>2. s \in RuleStates /\ s.active /\ s.above = {} /\ s.below = {}
    BY <1>2, <1>6, <2>1 DEF RuleStates
  <2>3. contrary \in SUBSET Nat
    BY <1>3 DEF anew
  <2>4. QED BY <1>6, <2>2, <2>3 DEF Counted, was
<1>7. CASE was.active /\ ~holds /\ Reached(below, ClearAfter)
  <2>1. s = Quiet
    BY <1>2, <1>5, <1>7 DEF Update, now, was, below
  <2>2. Reached(anew, ClearAfter)
    BY <1>3, <1>4, <1>7, ReachedFacts, AlertsAssumption
  <2>3. contrary \in SUBSET Nat
    BY <1>3 DEF anew
  <2>4. QED BY <1>7, <2>1, <2>2, <2>3, PublishedFacts DEF Counted, was, anew
<1>8. CASE was.active /\ ~holds /\ ~Reached(below, ClearAfter)
  <2>1. s = [now EXCEPT !.above = {}, !.below = below]
    BY <1>2, <1>5, <1>8 DEF Update, now, was, below
  <2>2. s \in RuleStates /\ s.active /\ s.above = {} /\ s.below = below
    BY <1>2, <1>3, <1>8, <2>1 DEF RuleStates
  <2>3. contrary = anew
    BY <1>8, <2>2 DEF anew
  <2>4. QED BY <1>3, <1>4, <1>8, <2>2, <2>3 DEF was
<1>9. CASE ~was.active /\ ~holds
  <2>1. s = [now EXCEPT !.above = {}, !.below = {}]
    BY <1>2, <1>5, <1>9 DEF Update, now, was
  <2>2. s \in RuleStates /\ ~s.active /\ s.above = {} /\ s.below = {}
    BY <1>2, <1>9, <2>1 DEF RuleStates
  <2>3. contrary \in SUBSET Nat
    BY <1>3 DEF anew
  <2>4. QED BY <1>1, <1>9, <2>2, <2>3 DEF Counted, RuleStates, was
<1>10. CASE ~was.active /\ holds /\ Reached(above, FireAfter)
  <2>1. s = [Quiet EXCEPT !.active = TRUE]
    BY <1>2, <1>5, <1>10 DEF Update, now, was, above
  <2>2. Reached(anew, FireAfter)
    BY <1>3, <1>4, <1>10, ReachedFacts, AlertsAssumption
  <2>3. contrary \in SUBSET Nat
    BY <1>3 DEF anew
  <2>4. QED BY <1>10, <2>1, <2>2, <2>3, PublishedFacts DEF Counted, was, anew
<1>11. CASE ~was.active /\ holds /\ ~Reached(above, FireAfter)
  <2>1. s = [now EXCEPT !.above = above, !.below = {}]
    BY <1>2, <1>5, <1>11 DEF Update, now, was, above
  <2>2. s \in RuleStates /\ ~s.active /\ s.above = above /\ s.below = {}
    BY <1>2, <1>3, <1>11, <2>1 DEF RuleStates
  <2>3. contrary = anew
    BY <1>11, <2>2 DEF anew
  <2>4. QED BY <1>1, <1>3, <1>4, <1>11, <2>2, <2>3 DEF RuleStates, was
<1>12. QED BY <1>1, <1>6, <1>7, <1>8, <1>9, <1>10, <1>11

LEMMA AlertsStart == AlertsInit => AlertsInv
  BY PublishedFacts DEF AlertsInit, AlertsInv, PanelShowsWorst, Counted

\* A step keeps the invariant, and a rule changes with its debounce time against it.
LEMMA AlertsKeep ==
  ASSUME AlertsInv, AlertsNext
  PROVE  /\ AlertsInv'
         /\ \A r \in Rule : rules'[r].active # rules[r].active =>
              Reached(Begun(Later(against[r])), IF rules[r].active THEN ClearAfter ELSE FireAfter)
<1>1. ASSUME NEW sky \in Skies, NEW sun \in Suns, Minute(sky, sun)
      PROVE  /\ AlertsInv'
             /\ \A r \in Rule : rules'[r].active # rules[r].active =>
                  Reached(Begun(Later(against[r])), IF rules[r].active THEN ClearAfter ELSE FireAfter)
  <2> DEFINE holds(r) == r \in Evaluate(sky, sun)
  <2>1. /\ rules' = [r \in Rule |-> Update(Aged(rules[r]), holds(r))]
        /\ against' = [r \in Rule |-> IF holds(r) = rules'[r].active THEN {} ELSE Begun(Later(against[r]))]
    BY <1>1 DEF Minute
  <2>2. \A r \in Rule : holds(r) \in BOOLEAN
    OBVIOUS
  <2> HIDE DEF holds
  <2>3. ASSUME NEW r \in Rule
        PROVE  /\ rules'[r] \in RuleStates /\ against'[r] \in SUBSET Nat
               /\ rules'[r].active => rules'[r].above = {} /\ Counted(rules'[r].below, against'[r])
               /\ ~rules'[r].active => rules'[r].below = {} /\ Counted(rules'[r].above, against'[r])
               /\ rules'[r].active # rules[r].active =>
                    Reached(Begun(Later(against[r])), IF rules[r].active THEN ClearAfter ELSE FireAfter)
    <3>1. rules'[r] = Update(Aged(rules[r]), holds(r))
      BY <2>1
    <3>2. against'[r] = IF holds(r) = rules'[r].active THEN {} ELSE Begun(Later(against[r]))
      BY <2>1
    <3>3. QED BY <2>2, <3>1, <3>2, UpdateFacts
  <2>4. PanelShowsWorst'
    BY <1>1 DEF Minute, Projected, PanelShowsWorst
  <2>5. rules' \in [Rule -> RuleStates] /\ against' \in [Rule -> SUBSET Nat]
    BY <2>1, <2>3
  <2>6. QED BY <2>3, <2>4, <2>5 DEF AlertsInv
<1>2. ASSUME BlankMinute
      PROVE  AlertsInv' /\ \A r \in Rule : rules'[r].active = rules[r].active
  <2>1. rules' = [r \in Rule |-> Aged(rules[r])] /\ against' = [r \in Rule |-> Later(against[r])] /\ shown' = shown
    BY <1>2 DEF BlankMinute
  <2>2. ASSUME NEW r \in Rule
        PROVE  /\ rules'[r] \in RuleStates /\ against'[r] \in SUBSET Nat
               /\ rules'[r].active <=> rules[r].active
               /\ rules'[r].active => rules'[r].above = {} /\ Counted(rules'[r].below, against'[r])
               /\ ~rules'[r].active => rules'[r].below = {} /\ Counted(rules'[r].above, against'[r])
    <3>1. /\ rules[r] \in RuleStates /\ against[r] \in SUBSET Nat
          /\ rules[r].above \in SUBSET Nat /\ rules[r].below \in SUBSET Nat
          /\ rules[r].active => rules[r].above = {} /\ Counted(rules[r].below, against[r])
          /\ ~rules[r].active => rules[r].below = {} /\ Counted(rules[r].above, against[r])
      BY DEF AlertsInv, RuleStates
    <3>2. /\ rules'[r] \in RuleStates /\ (rules'[r].active <=> rules[r].active)
          /\ rules'[r].above = Later(rules[r].above) /\ rules'[r].below = Later(rules[r].below)
      BY <2>1, <3>1, AgedFacts
    <3>3. against'[r] = Later(against[r]) /\ Later(against[r]) \in SUBSET Nat
      BY <2>1, <3>1 DEF Later
    <3>4. rules[r].active => Counted(Later(rules[r].below), Later(against[r]))
      BY <3>1, LaterFacts
    <3>5. ~rules[r].active => Counted(Later(rules[r].above), Later(against[r]))
      BY <3>1, LaterFacts
    <3>6. Later({}) = {}
      BY DEF Later
    <3>7. QED BY <3>1, <3>2, <3>3, <3>4, <3>5, <3>6
  <2>3. Active(rules') = Active(rules)
    BY <2>2 DEF Active
  <2>4. PanelShowsWorst'
    BY <2>1, <2>3 DEF AlertsInv, PanelShowsWorst
  <2>5. rules' \in [Rule -> RuleStates] /\ against' \in [Rule -> SUBSET Nat]
    BY <2>1, <2>2
  <2>6. \A r \in Rule : rules'[r].active = rules[r].active
    BY <2>2, <2>5 DEF AlertsInv, RuleStates
  <2>7. QED BY <2>2, <2>4, <2>5, <2>6 DEF AlertsInv
<1>3. ASSUME UNCHANGED <<rules, shown, against>>
      PROVE  AlertsInv' /\ rules' = rules
  BY <1>3 DEF AlertsInv, PanelShowsWorst
<1>4. QED BY <1>1, <1>2, <1>3 DEF AlertsNext, SomeMinute, TakeOff, Land

\* wxalert Tracker.Update: a rule changes only after an unbroken run of contrary samples of the
\* debounce time, for every set of rules, weather and debounce times; the panel follows.
THEOREM AlertsSteady == AlertsSpec => AlertsAreSteady
<1> DEFINE Steady == /\ \A r \in Rule : rules'[r].active # rules[r].active =>
                          Reached(Begun(Later(against[r])), IF rules[r].active THEN ClearAfter ELSE FireAfter)
                     /\ PanelShowsWorst'
<1>1. AlertsInv /\ [AlertsNext]_alertVars => AlertsInv' /\ [Steady]_alertVars
  <2>1. CASE AlertsInv /\ AlertsNext
    <3>1. AlertsInv' => PanelShowsWorst'
      BY DEF AlertsInv
    <3>2. QED BY <2>1, <3>1, AlertsKeep
  <2>2. CASE AlertsInv /\ UNCHANGED alertVars
    <3>1. AlertsInv'
      BY <2>2 DEF AlertsInv, alertVars, PanelShowsWorst
    <3>2. QED BY <2>2, <3>1
  <2>3. QED BY <2>1, <2>2
<1>2. QED BY <1>1, AlertsStart, PTL DEF AlertsSpec, AlertsAreSteady

-----------------------------------------------------------------------------
(* Alarms.                                                                   *)

Stages   == {"gone", "wait", "woken", "queue"}
Runners  == [at : Stages, name : Names \cup {""}, played : Nat, done : BOOLEAN]
Requests == {Track(n) : n \in Names} \cup {Sentence}
CallSteps == [at : {"idle", "queue", "schedule"}, request : Requests]

AudioShapes ==
    /\ alarms \in [Names -> Repeaters \cup {0}]
    /\ repeater \in [Repeaters -> Runners]
    /\ permitted \in [Names -> Int]
    /\ call \in CallSteps
    /\ call.at = "schedule" => call.request.kind = "track"

\* A living goroutine has its alarm; one in the map is that of its stem, lives
\* and has not been told to stop.  The map of a closed player is empty.
Employed(g)    == repeater[g].at # "gone"
InTheMap(n, g) == repeater[g].name = n /\ Employed(g) /\ ~repeater[g].done
MapInv ==
    /\ \A g \in Repeaters : Employed(g) => repeater[g].name \in Names
    /\ \A n \in Names : alarms[n] # 0 => InTheMap(n, alarms[n])
    /\ playerShut => \A n \in Names : alarms[n] = 0

\* An acknowledged stem is in the map no more, and as many goroutines as the
\* acknowledgement found on their way, or fewer, still are.
QuietInv ==
    \A n \in Names : permitted[n] # -1 =>
        /\ alarms[n] = 0 /\ permitted[n] \in Nat
        /\ Cardinality(Queueing(n)) <= permitted[n]

CriticalInv ==
    \A n \in Names : LevelOf[n] = "critical" /\ permitted[n] = -1 /\ ~playerShut
                        => alarms[n] # 0

AudioInv == AudioShapes /\ MapInv /\ QuietInv /\ CriticalInv /\ overrun = {}

LEMMA EndedRunner ==
    /\ Ended \in Runners /\ Ended.at = "gone"
    /\ Ended.at \notin {"wait", "woken", "queue"}
  BY DEF Ended, Runners, Stages

LEMMA AudioStarts == AudioInit => AudioInv
<1> SUFFICES ASSUME AudioInit PROVE AudioInv
  OBVIOUS
<1> USE AudioAssumption DEF AudioInit
<1>1. AudioShapes
  <2>1. NoCall.at # "schedule"
    BY DEF NoCall
  <2>2. call \in CallSteps /\ call.at # "schedule"
    BY <2>1 DEF NoCall, CallSteps, Requests
  <2>3. /\ alarms \in [Names -> Repeaters \cup {0}]
        /\ permitted \in [Names -> Int]
    OBVIOUS
  <2>4. repeater \in [Repeaters -> Runners]
    BY EndedRunner
  <2>5. QED BY <2>2, <2>3, <2>4 DEF AudioShapes
<1>2. \A g \in Repeaters : repeater[g].at = "gone"
  BY EndedRunner
<1>3. MapInv
  BY <1>2 DEF MapInv, Employed
<1>4. \A n \in Names : Queueing(n) = {}
  BY <1>2 DEF Queueing
<1>5. QuietInv
  BY <1>4, FS_EmptySet DEF QuietInv
<1>6. CriticalInv
  BY DEF CriticalInv
<1>7. QED BY <1>1, <1>3, <1>5, <1>6 DEF AudioInv

LEMMA QueueingFinite ==
    ASSUME NEW n PROVE IsFiniteSet(Queueing(n)) /\ Cardinality(Queueing(n)) \in Nat
<1>1. Queueing(n) \subseteq Repeaters
  BY DEF Queueing
<1>2. QED BY <1>1, AudioAssumption, FS_Subset, FS_CardinalityType

\* The request under way: a stem where it is scheduled.
LEMMA Scheduled ==
    ASSUME AudioShapes, call.at = "schedule"
    PROVE  call.request.name \in Names
<1>1. Sentence.kind # "track" /\ \A n \in Names : Track(n).name = n
  BY DEF Track, Sentence
<1>2. call.request \in Requests /\ call.request.kind = "track"
  BY DEF AudioShapes, CallSteps
<1>3. \E n \in Names : call.request = Track(n)
  BY <1>1, <1>2 DEF Requests
<1>4. QED BY <1>1, <1>3

\* A step of one goroutine that queues nothing.
LEMMA OneMoves ==
    ASSUME AudioInv, NEW g \in Repeaters, AudioShapes',
           \A h \in Repeaters \ {g} : repeater'[h] = repeater[h],
           UNCHANGED <<alarms, permitted, playerShut, overrun>>,
           repeater[g].at \notin {"gone", "queue"},
           \/ repeater'[g] = Ended /\ \A n \in Names : alarms[n] # g
           \/ /\ repeater'[g].at # "gone"
              /\ repeater'[g].name = repeater[g].name
              /\ repeater'[g].done = repeater[g].done
              /\ repeater'[g].at = "queue" => permitted[repeater[g].name] = -1
    PROVE  AudioInv'
<1> USE DEF AudioInv
<1>1. MapInv'
  <2>1. \A h \in Repeaters : Employed(h)' => repeater'[h].name = repeater[h].name /\ Employed(h)
    <3>1. Employed(g)' => repeater'[g].name = repeater[g].name /\ Employed(g)
      BY EndedRunner DEF Employed
    <3>2. \A h \in Repeaters \ {g} : Employed(h)' => repeater'[h].name = repeater[h].name /\ Employed(h)
      BY DEF Employed
    <3>3. QED BY <3>1, <3>2
  <2>2. ASSUME NEW n \in Names, alarms'[n] # 0 PROVE InTheMap(n, alarms[n])'
    <3>1. InTheMap(n, alarms[n]) /\ alarms[n] \in Repeaters
      BY <2>2 DEF MapInv, AudioShapes
    <3>2. CASE alarms[n] = g
      BY <3>1, <3>2 DEF InTheMap, Employed, Ended
    <3>3. CASE alarms[n] # g
      BY <3>1, <3>3 DEF InTheMap, Employed
    <3>4. QED BY <3>2, <3>3
  <2>3. QED BY <2>1, <2>2 DEF MapInv, InTheMap, Employed
<1>2. QuietInv'
  <2> SUFFICES ASSUME NEW n \in Names, permitted[n] # -1
               PROVE  /\ alarms[n] = 0 /\ permitted[n] \in Nat
                      /\ Cardinality(Queueing(n)') <= permitted[n]
    BY DEF QuietInv
  <2>1. Queueing(n)' \subseteq Queueing(n)
    <3>1. g \notin Queueing(n)'
      BY EndedRunner DEF Queueing
    <3>2. QED BY <3>1 DEF Queueing
  <2>2. Queueing(n) \subseteq Queueing(n)'
    BY DEF Queueing
  <2>3. Queueing(n)' = Queueing(n)
    BY <2>1, <2>2
  <2>4. QED BY <2>3 DEF QuietInv
<1>3. CriticalInv'
  BY DEF CriticalInv
<1>4. QED BY <1>1, <1>2, <1>3

LEMMA StopStep ==
    ASSUME AudioInv, NEW g \in Repeaters, Stop(g) \/ Fire(g) PROVE AudioInv'
<1> USE DEF AudioInv
<1>1. /\ UNCHANGED <<alarms, permitted, playerShut, overrun, call>>
      /\ repeater[g].at = "wait" /\ repeater \in [Repeaters -> Runners]
  BY DEF Stop, Fire, AudioShapes
<1>2. CASE Stop(g)
  <2>1. repeater' = [repeater EXCEPT ![g] = Ended] /\ repeater[g].done
    BY <1>2 DEF Stop
  <2>2. Ended \in Runners
    BY DEF Ended, Runners, Stages
  <2>3. repeater' \in [Repeaters -> Runners]
    BY <1>1, <2>1, <2>2
  <2>4. AudioShapes'
    BY <1>1, <2>3 DEF AudioShapes
  <2>5. \A n \in Names : alarms[n] # g
    BY <2>1, AudioAssumption DEF MapInv, InTheMap
  <2>6. repeater'[g] = Ended /\ \A h \in Repeaters \ {g} : repeater'[h] = repeater[h]
    BY <1>1, <2>1
  <2>7. QED BY <1>1, <2>4, <2>5, <2>6, OneMoves
<1>3. CASE Fire(g)
  <2>1. repeater' = [repeater EXCEPT ![g].at = "woken"]
    BY <1>3 DEF Fire
  <2>2. /\ repeater' \in [Repeaters -> Runners]
        /\ repeater'[g].at = "woken" /\ repeater'[g].name = repeater[g].name
        /\ repeater'[g].done = repeater[g].done
        /\ \A h \in Repeaters \ {g} : repeater'[h] = repeater[h]
    BY <1>1, <2>1 DEF Runners, Stages
  <2>3. AudioShapes'
    BY <1>1, <2>2 DEF AudioShapes
  <2>4. QED BY <1>1, <2>2, <2>3, OneMoves
<1>4. QED BY <1>2, <1>3

\* runAlarm after its timer: gone with the map untouched, gone with its cap
\* reached, or on its way with its stem in the map.
LEMMA RecheckStep ==
    ASSUME AudioInv, NEW g \in Repeaters, Recheck(g) PROVE AudioInv'
<1> USE DEF AudioInv
<1> DEFINE n == repeater[g].name
<1>1. /\ UNCHANGED <<permitted, playerShut, overrun, call>>
      /\ repeater[g].at = "woken" /\ repeater \in [Repeaters -> Runners]
      /\ alarms \in [Names -> Repeaters \cup {0}] /\ permitted \in [Names -> Int]
  BY DEF Recheck, AudioShapes
<1>2. n \in Names
  BY <1>1 DEF MapInv, Employed
<1>3. Ended \in Runners
  BY DEF Ended, Runners, Stages
<1>4. playerShut => alarms[n] = 0
  BY <1>2 DEF MapInv
<1>5. CASE alarms[n] = 0
  <2>1. repeater' = [repeater EXCEPT ![g] = Ended] /\ alarms' = alarms
    BY <1>5 DEF Recheck
  <2>2. /\ repeater' \in [Repeaters -> Runners] /\ repeater'[g] = Ended
        /\ \A h \in Repeaters \ {g} : repeater'[h] = repeater[h]
    BY <1>1, <1>3, <2>1
  <2>3. AudioShapes'
    BY <1>1, <2>1, <2>2 DEF AudioShapes
  <2>4. \A m \in Names : alarms[m] # g
    BY <1>5, AudioAssumption DEF MapInv, InTheMap
  <2>5. QED BY <1>1, <2>1, <2>2, <2>3, <2>4, OneMoves
<1>6. CASE alarms[n] # 0 /\ Finished(g, n)
  <2>1. repeater' = [repeater EXCEPT ![g] = Ended] /\ alarms' = [alarms EXCEPT ![n] = 0]
    BY <1>4, <1>6 DEF Recheck
  <2>2. /\ repeater' \in [Repeaters -> Runners] /\ repeater'[g] = Ended
        /\ \A h \in Repeaters \ {g} : repeater'[h] = repeater[h]
    BY <1>1, <1>3, <2>1
  <2>3. /\ alarms' \in [Names -> Repeaters \cup {0}] /\ alarms'[n] = 0
        /\ \A m \in Names \ {n} : alarms'[m] = alarms[m]
    BY <1>1, <1>2, <2>1
  <2>4. LevelOf[n] # "critical"
    BY <1>6 DEF Finished, MaxCycles
  <2>5. AudioShapes'
    BY <1>1, <2>2, <2>3 DEF AudioShapes
  <2>6. MapInv'
    <3>1. \A h \in Repeaters : Employed(h)' => h # g
      BY <2>2, EndedRunner DEF Employed
    <3>2. \A h \in Repeaters : Employed(h)' => repeater'[h].name \in Names
      BY <2>2, <3>1 DEF MapInv, Employed
    <3>3. ASSUME NEW m \in Names, alarms'[m] # 0
          PROVE  /\ repeater'[alarms'[m]].name = m /\ repeater'[alarms'[m]].at # "gone"
                 /\ ~repeater'[alarms'[m]].done
      <4>1. m # n /\ alarms'[m] = alarms[m]
        BY <2>3, <3>3
      <4>2. InTheMap(m, alarms[m]) /\ alarms[m] \in Repeaters
        BY <1>1, <3>3, <4>1 DEF MapInv
      <4>3. alarms[m] # g
        BY <4>1, <4>2 DEF InTheMap
      <4>4. repeater'[alarms[m]] = repeater[alarms[m]]
        BY <2>2, <4>2, <4>3
      <4>5. QED BY <4>1, <4>2, <4>4 DEF InTheMap, Employed
    <3>4. playerShut' => \A m \in Names : alarms'[m] = 0
      BY <1>1, <2>3 DEF MapInv
    <3>5. QED BY <3>2, <3>3, <3>4 DEF MapInv, InTheMap, Employed
  <2>7. QuietInv'
    <3>1. ASSUME NEW m \in Names PROVE Queueing(m)' = Queueing(m)
      <4>1. g \notin Queueing(m)' /\ g \notin Queueing(m)
        BY <1>1, <2>2, EndedRunner DEF Queueing
      <4>2. QED BY <2>2, <4>1 DEF Queueing
    <3>2. \A m \in Names : alarms[m] = 0 => alarms'[m] = 0
      BY <2>3
    <3>3. QED BY <1>1, <3>1, <3>2 DEF QuietInv
  <2>8. CriticalInv'
    BY <1>1, <2>3, <2>4 DEF CriticalInv
  <2>9. QED BY <1>1, <2>5, <2>6, <2>7, <2>8
<1>7. CASE alarms[n] # 0 /\ ~Finished(g, n)
  <2>1. /\ repeater' = [repeater EXCEPT ![g].at = "queue",
                           ![g].played = IF MaxCycles(n) = 0 THEN @ ELSE @ + 1]
        /\ alarms' = alarms
    BY <1>4, <1>7 DEF Recheck
  <2>2. /\ repeater' \in [Repeaters -> Runners]
        /\ repeater'[g].at = "queue" /\ repeater'[g].name = repeater[g].name
        /\ repeater'[g].done = repeater[g].done
        /\ \A h \in Repeaters \ {g} : repeater'[h] = repeater[h]
    <3>1. PICK p : repeater' = [repeater EXCEPT ![g].at = "queue", ![g].played = p]
                   /\ (p = repeater[g].played \/ p = repeater[g].played + 1)
      BY <2>1
    <3>2. repeater[g] \in Runners /\ p \in Nat
      <4>1. repeater[g] \in Runners
        BY <1>1
      <4>2. repeater[g].played \in Nat
        BY <4>1 DEF Runners
      <4>3. QED BY <3>1, <4>1, <4>2
    <3>3. [repeater[g] EXCEPT !.at = "queue", !.played = p] \in Runners
      BY <3>2 DEF Runners, Stages
    <3>4. repeater' = [repeater EXCEPT ![g] = [repeater[g] EXCEPT !.at = "queue", !.played = p]]
      BY <1>1, <3>1
    <3>5. repeater' \in [Repeaters -> Runners]
      BY <1>1, <3>3, <3>4
    <3>6. QED BY <1>1, <3>2, <3>4, <3>5 DEF Runners
  <2>3. permitted[n] = -1
    BY <1>2, <1>7 DEF QuietInv
  <2>4. AudioShapes'
    BY <1>1, <2>1, <2>2 DEF AudioShapes
  <2>5. QED BY <1>1, <2>1, <2>2, <2>3, <2>4, OneMoves
<1>8. QED BY <1>5, <1>6, <1>7

\* The lock is let go and the stem queued: one goroutine fewer is on its way.
LEMMA RepeatStep ==
    ASSUME AudioInv, NEW g \in Repeaters, Repeat(g) PROVE AudioInv'
<1> USE DEF AudioInv
<1>1. /\ UNCHANGED <<playerShut, alarms, call>>
      /\ repeater[g].at = "queue" /\ repeater \in [Repeaters -> Runners]
      /\ alarms \in [Names -> Repeaters \cup {0}] /\ permitted \in [Names -> Int]
  BY DEF Repeat, AudioShapes
<1>2. PICK n \in Names : n = repeater[g].name
  BY <1>1 DEF MapInv, Employed
<1>3. CASE playerShut
  <2>1. UNCHANGED <<repeater, permitted, overrun>>
    BY <1>3 DEF Repeat
  <2>2. QED
    BY <1>1, <2>1 DEF AudioShapes, MapInv, InTheMap, Employed, QuietInv, Queueing, CriticalInv
<1>4. CASE ~playerShut
  <2>1. /\ repeater' = [repeater EXCEPT ![g].at = "wait"]
        /\ permitted' = [permitted EXCEPT ![n] = IF @ > 0 THEN @ - 1 ELSE @]
        /\ overrun' = IF permitted[n] = 0 THEN overrun \union {n} ELSE overrun
    BY <1>2, <1>4 DEF Repeat
  <2>2. /\ repeater' \in [Repeaters -> Runners]
        /\ repeater'[g].at = "wait" /\ repeater'[g].name = repeater[g].name
        /\ repeater'[g].done = repeater[g].done
        /\ \A h \in Repeaters \ {g} : repeater'[h] = repeater[h]
    BY <1>1, <2>1 DEF Runners, Stages
  <2>3. /\ permitted' \in [Names -> Int]
        /\ \A m \in Names \ {n} : permitted'[m] = permitted[m]
        /\ permitted'[n] = IF permitted[n] > 0 THEN permitted[n] - 1 ELSE permitted[n]
    BY <1>1, <1>2, <2>1
  <2>4. AudioShapes'
    BY <1>1, <2>2, <2>3 DEF AudioShapes
  <2>5. \A h \in Repeaters : /\ repeater'[h].name = repeater[h].name
                             /\ repeater'[h].done = repeater[h].done
                             /\ repeater'[h].at # "gone" <=> repeater[h].at # "gone"
    BY <1>1, <2>2
  <2>6. MapInv'
    BY <1>1, <2>5 DEF MapInv, InTheMap, Employed
  <2>7. Queueing(n)' = Queueing(n) \ {g} /\ g \in Queueing(n)
    BY <1>1, <1>2, <2>2 DEF Queueing
  <2>8. ASSUME NEW m \in Names \ {n} PROVE Queueing(m)' = Queueing(m)
    <3>1. g \notin Queueing(m)' /\ g \notin Queueing(m)
      BY <1>2, <2>2 DEF Queueing
    <3>2. QED BY <2>2, <3>1 DEF Queueing
  <2>9. Cardinality(Queueing(n)') = Cardinality(Queueing(n)) - 1
    BY <2>7, QueueingFinite, FS_RemoveElement
  <2>10. Cardinality(Queueing(n)) \in Nat /\ Cardinality(Queueing(n)) > 0
    BY <2>7, QueueingFinite, FS_EmptySet
  <2>11. permitted[n] # -1 => permitted[n] \in Nat /\ permitted[n] > 0
    BY <1>2, <2>10 DEF QuietInv
  <2>12. permitted[n] \in Int /\ permitted[n] # 0
    BY <1>1, <1>2, <2>11
  <2>13. overrun' = {}
    BY <2>1, <2>12
  <2>14. /\ permitted[n] # -1 => permitted'[n] = permitted[n] - 1
         /\ permitted[n] = -1 => permitted'[n] = -1
    BY <2>3, <2>11
  <2>15. QuietInv'
    <3>1. ASSUME permitted'[n] # -1
          PROVE  /\ alarms'[n] = 0 /\ permitted'[n] \in Nat
                 /\ Cardinality(Queueing(n)') <= permitted'[n]
      <4>1. permitted[n] # -1
        BY <2>14, <3>1
      <4>2. alarms[n] = 0 /\ permitted[n] \in Nat /\ Cardinality(Queueing(n)) <= permitted[n]
        BY <1>2, <4>1 DEF QuietInv
      <4>3. QED BY <1>1, <2>9, <2>10, <2>11, <2>14, <4>1, <4>2
    <3>2. ASSUME NEW m \in Names \ {n}, permitted'[m] # -1
          PROVE  /\ alarms'[m] = 0 /\ permitted'[m] \in Nat
                 /\ Cardinality(Queueing(m)') <= permitted'[m]
      BY <1>1, <2>3, <2>8, <3>2 DEF QuietInv
    <3>3. QED BY <3>1, <3>2 DEF QuietInv
  <2>16. CriticalInv'
    <3>1. \A m \in Names : permitted'[m] = -1 => permitted[m] = -1
      BY <1>2, <2>3, <2>11, <2>14 DEF QuietInv
    <3>2. QED BY <1>1, <3>1 DEF CriticalInv
  <2>17. QED BY <2>4, <2>6, <2>13, <2>15, <2>16
<1>5. QED BY <1>3, <1>4

\* Telling goroutines to stop touches neither their stage nor their alarm.
LEMMA RunnerDone ==
    ASSUME NEW r \in Runners, NEW b \in BOOLEAN
    PROVE  LET s == [r EXCEPT !.done = b]
           IN  s \in Runners /\ s.at = r.at /\ s.name = r.name /\ s.done = b
  BY DEF Runners

LEMMA DoneOr ==
    ASSUME NEW r \in Runners, NEW P \in BOOLEAN
    PROVE  LET s == [r EXCEPT !.done = @ \/ P]
           IN  s \in Runners /\ s.at = r.at /\ s.name = r.name /\ (~P => s.done = r.done)
<1>1. r.done \in BOOLEAN
  BY DEF Runners
<1>2. (r.done \/ P) \in BOOLEAN /\ (~P => (r.done \/ P) = r.done)
  BY <1>1, Zenon
<1>3. QED BY <1>2, RunnerDone

\* scheduleAlarm: a goroutine that is not in the map takes the stem over.
LEMMA ScheduleStep == ASSUME AudioInv, ScheduleAlarm PROVE AudioInv'
<1> USE DEF AudioInv
<1>1. /\ UNCHANGED <<playerShut, overrun>>
      /\ repeater \in [Repeaters -> Runners]
      /\ alarms \in [Names -> Repeaters \cup {0}] /\ permitted \in [Names -> Int]
  BY DEF ScheduleAlarm, AudioShapes
<1>2. PICK n \in Names : n = call.request.name
  BY Scheduled DEF ScheduleAlarm
<1>3. CASE playerShut
  <2>1. UNCHANGED <<repeater, permitted, alarms, call>>
    BY <1>3 DEF ScheduleAlarm
  <2>2. QED
    BY <1>1, <2>1 DEF AudioShapes, MapInv, InTheMap, Employed, QuietInv, Queueing, CriticalInv
<1>4. CASE ~playerShut
  <2>1. PICK g \in Repeaters : g = Recycled /\ repeater[g].at = "gone"
    <3>1. Recycled \in Idle
      BY <1>4 DEF ScheduleAlarm, Recycled
    <3>2. QED BY <3>1 DEF Idle
  <2>2. PICK old \in Repeaters \cup {0} : old = alarms[n]
    BY <1>1
  <2> DEFINE new == [at |-> "wait", name |-> n, played |-> 1, done |-> FALSE]
  <2>3. /\ repeater' = [Stopped(repeater, old) EXCEPT ![g] = new]
        /\ alarms' = [alarms EXCEPT ![n] = g]
        /\ call' = NoCall
        /\ permitted' = [permitted EXCEPT ![n] = -1]
    BY <1>2, <1>4, <2>1, <2>2 DEF ScheduleAlarm
  <2>4. new \in Runners /\ new.at = "wait" /\ new.name = n /\ new.done = FALSE
    BY DEF Runners, Stages
  <2>5. ASSUME NEW h \in Repeaters
        PROVE  /\ Stopped(repeater, old)[h] \in Runners
               /\ Stopped(repeater, old)[h].at = repeater[h].at
               /\ Stopped(repeater, old)[h].name = repeater[h].name
               /\ h # old => Stopped(repeater, old)[h].done = repeater[h].done
    <3>1. Stopped(repeater, old)[h] = [repeater[h] EXCEPT !.done = @ \/ h = old]
      BY DEF Stopped
    <3>2. repeater[h] \in Runners /\ (h = old) \in BOOLEAN
      BY <1>1
    <3>3. QED BY <3>1, <3>2, DoneOr
  <2> HIDE DEF new
  <2>6. DOMAIN Stopped(repeater, old) = Repeaters
    BY DEF Stopped
  <2>7. /\ repeater' \in [Repeaters -> Runners] /\ repeater'[g] = new
        /\ \A h \in Repeaters \ {g} : /\ repeater'[h].at = repeater[h].at
                                      /\ repeater'[h].name = repeater[h].name
                                      /\ h # old => repeater'[h].done = repeater[h].done
    <3>1. Stopped(repeater, old) = [h \in Repeaters |-> Stopped(repeater, old)[h]]
      BY DEF Stopped
    <3>2. Stopped(repeater, old) \in [Repeaters -> Runners]
      BY <2>5, <3>1
    <3>3. PICK fleet \in [Repeaters -> Runners] : fleet = Stopped(repeater, old)
      BY <3>2
    <3>4. repeater' = [fleet EXCEPT ![g] = new]
      BY <2>3, <3>3
    <3>5. /\ repeater' \in [Repeaters -> Runners] /\ repeater'[g] = new
          /\ \A h \in Repeaters \ {g} : repeater'[h] = fleet[h]
      BY <2>4, <3>4
    <3>6. QED BY <2>5, <3>3, <3>5
  <2>8. /\ alarms' \in [Names -> Repeaters \cup {0}] /\ alarms'[n] = g
        /\ \A m \in Names \ {n} : alarms'[m] = alarms[m]
        /\ permitted' \in [Names -> Int] /\ permitted'[n] = -1
        /\ \A m \in Names \ {n} : permitted'[m] = permitted[m]
    BY <1>1, <2>3
  <2>9. AudioShapes'
    <3>1. call' \in CallSteps /\ call'.at # "schedule"
      BY <2>3 DEF NoCall, CallSteps, Requests
    <3>2. QED BY <2>7, <2>8, <3>1 DEF AudioShapes
  <2>10. MapInv'
    <3>1. ASSUME NEW h \in Repeaters, repeater'[h].at # "gone" PROVE repeater'[h].name \in Names
      BY <2>4, <2>7, <3>1 DEF MapInv, Employed
    <3>2. ASSUME NEW m \in Names, alarms'[m] # 0
          PROVE  /\ repeater'[alarms'[m]].name = m /\ repeater'[alarms'[m]].at # "gone"
                 /\ ~repeater'[alarms'[m]].done
      <4>1. CASE m = n
        BY <2>4, <2>7, <2>8, <4>1
      <4>2. CASE m # n
        <5>1. PICK h \in Repeaters : h = alarms[m] /\ alarms'[m] = h
          BY <1>1, <2>8, <3>2, <4>2
        <5>2. repeater[h].name = m /\ repeater[h].at # "gone" /\ ~repeater[h].done
          BY <2>8, <3>2, <4>2, <5>1 DEF MapInv, InTheMap, Employed
        <5>3. h # g
          BY <2>1, <5>2
        <5>4. h # old
          <6>1. old # 0 => repeater[old].name = n
            BY <2>2 DEF MapInv, InTheMap
          <6>2. QED BY <4>2, <5>1, <5>2, <6>1, AudioAssumption
        <5>5. QED BY <2>7, <5>1, <5>2, <5>3, <5>4
      <4>3. QED BY <4>1, <4>2
    <3>3. QED BY <1>1, <1>4, <3>1, <3>2 DEF MapInv, InTheMap, Employed
  <2>11. \A m \in Names : Queueing(m)' = Queueing(m)
    <3>1. \A m \in Names : g \notin Queueing(m)' /\ g \notin Queueing(m)
      BY <2>1, <2>4, <2>7 DEF Queueing
    <3>2. QED BY <2>7, <3>1 DEF Queueing
  <2>12. QuietInv'
    BY <2>8, <2>11 DEF QuietInv
  <2>13. CriticalInv'
    <3>1. alarms'[n] # 0
      BY <2>8, AudioAssumption
    <3>2. QED BY <1>1, <2>8, <3>1 DEF CriticalInv
  <2>14. QED BY <1>1, <2>9, <2>10, <2>12, <2>13
<1>5. QED BY <1>3, <1>4

\* Acknowledge and Close take stems out of the map and tell their goroutines.
LEMMA TakenOut ==
    ASSUME AudioInv, NEW ns \in SUBSET Names,
           repeater' = [g \in Repeaters |->
                           [repeater[g] EXCEPT !.done = @ \/ \E n \in ns : alarms[n] = g]],
           alarms' = [n \in Names |-> IF n \in ns THEN 0 ELSE alarms[n]]
    PROVE  /\ alarms' \in [Names -> Repeaters \cup {0}]
           /\ repeater' \in [Repeaters -> Runners]
           /\ \A n \in Names : Queueing(n)' = Queueing(n)
           /\ playerShut' = playerShut \/ ns = Names => MapInv'
<1> USE DEF AudioInv
<1>1. /\ repeater \in [Repeaters -> Runners] /\ alarms \in [Names -> Repeaters \cup {0}]
  BY DEF AudioShapes
<1>2. ASSUME NEW g \in Repeaters
      PROVE  /\ repeater'[g] \in Runners
             /\ repeater'[g].at = repeater[g].at /\ repeater'[g].name = repeater[g].name
             /\ ~(\E n \in ns : alarms[n] = g) => repeater'[g].done = repeater[g].done
  <2>1. PICK P \in BOOLEAN : P = (\E n \in ns : alarms[n] = g)
    OBVIOUS
  <2>2. PICK r \in Runners : r = repeater[g]
    BY <1>1
  <2>3. repeater'[g] = [r EXCEPT !.done = @ \/ P]
    BY <2>1, <2>2
  <2>4. /\ repeater'[g] \in Runners
        /\ repeater'[g].at = repeater[g].at /\ repeater'[g].name = repeater[g].name
        /\ ~P => repeater'[g].done = repeater[g].done
    <3>1. PICK s : s = [r EXCEPT !.done = @ \/ P]
      OBVIOUS
    <3>2. s \in Runners /\ s.at = r.at /\ s.name = r.name /\ (~P => s.done = r.done)
      BY <3>1, DoneOr
    <3>3. QED BY <2>2, <2>3, <3>1, <3>2
  <2>5. QED BY <2>1, <2>4, Zenon
<1>3. repeater' \in [Repeaters -> Runners]
  <2>1. repeater' = [g \in Repeaters |-> repeater'[g]]
    OBVIOUS
  <2>2. QED BY <1>2, <2>1
<1>4. alarms' \in [Names -> Repeaters \cup {0}]
  BY <1>1
<1>5. \A n \in Names : Queueing(n)' = Queueing(n)
  BY <1>2 DEF Queueing
<1>6. ASSUME playerShut' = playerShut \/ ns = Names PROVE MapInv'
  <2>1. ASSUME NEW h \in Repeaters, repeater'[h].at # "gone" PROVE repeater'[h].name \in Names
    BY <1>2, <2>1 DEF MapInv, Employed
  <2>2. ASSUME NEW m \in Names, alarms'[m] # 0
        PROVE  /\ repeater'[alarms'[m]].name = m /\ repeater'[alarms'[m]].at # "gone"
               /\ ~repeater'[alarms'[m]].done
    <3>1. m \notin ns
      BY <2>2
    <3>2. PICK h \in Repeaters : h = alarms[m] /\ alarms'[m] = h
      BY <1>1, <2>2, <3>1
    <3>3. repeater[h].name = m /\ repeater[h].at # "gone" /\ ~repeater[h].done
      BY <2>2, <3>1, <3>2 DEF MapInv, InTheMap, Employed
    <3>4. ~(\E n \in ns : alarms[n] = h)
      <4> SUFFICES ASSUME NEW n \in ns, alarms[n] = h PROVE FALSE
        OBVIOUS
      <4>1. h # 0
        BY AudioAssumption
      <4>2. repeater[h].name = n
        BY <4>1 DEF MapInv, InTheMap
      <4>3. QED BY <3>1, <3>3, <4>2
    <3>5. /\ repeater'[h].name = m /\ repeater'[h].at # "gone"
          /\ repeater'[h].done = repeater[h].done
      BY <1>2, <3>3, <3>4
    <3>6. QED BY <3>2, <3>3, <3>5
  <2>3. playerShut' => \A m \in Names : alarms'[m] = 0
    <3>1. CASE ns = Names
      BY <3>1
    <3>2. CASE playerShut' = playerShut
      BY <3>2 DEF MapInv
    <3>3. QED BY <1>6, <3>1, <3>2
  <2>4. QED BY <2>1, <2>2, <2>3 DEF MapInv, InTheMap, Employed
<1>7. QED BY <1>3, <1>4, <1>5, <1>6

LEMMA AcknowledgeStep ==
    ASSUME AudioInv, NEW ns \in SUBSET Names, Acknowledge(ns) PROVE AudioInv'
<1> USE DEF AudioInv
<1>1. /\ UNCHANGED <<playerShut, overrun, call>>
      /\ repeater' = [g \in Repeaters |->
                         [repeater[g] EXCEPT !.done = @ \/ \E n \in ns : alarms[n] = g]]
      /\ alarms' = [n \in Names |-> IF n \in ns THEN 0 ELSE alarms[n]]
      /\ permitted' = [n \in Names |-> IF n \in ns THEN Cardinality(Queueing(n)) ELSE permitted[n]]
  BY DEF Acknowledge
<1>2. /\ alarms' \in [Names -> Repeaters \cup {0}]
      /\ repeater' \in [Repeaters -> Runners]
      /\ \A n \in Names : Queueing(n)' = Queueing(n)
      /\ MapInv'
  BY <1>1, TakenOut
<1>3. permitted \in [Names -> Int]
  BY DEF AudioShapes
<1>4. /\ \A n \in ns : alarms'[n] = 0 /\ permitted'[n] = Cardinality(Queueing(n))
      /\ \A n \in Names \ ns : alarms'[n] = alarms[n] /\ permitted'[n] = permitted[n]
  BY <1>1
<1>5. permitted' \in [Names -> Int]
  <2>1. \A n \in Names : Cardinality(Queueing(n)) \in Int /\ permitted[n] \in Int
    BY <1>3, QueueingFinite
  <2>2. QED BY <1>1, <2>1
<1>6. AudioShapes'
  BY <1>1, <1>2, <1>5 DEF AudioShapes
<1>7. QuietInv'
  <2>1. ASSUME NEW n \in ns
        PROVE  /\ alarms'[n] = 0 /\ permitted'[n] \in Nat
               /\ Cardinality(Queueing(n)') <= permitted'[n]
    BY <1>2, <1>4, QueueingFinite
  <2>2. ASSUME NEW n \in Names \ ns, permitted'[n] # -1
        PROVE  /\ alarms'[n] = 0 /\ permitted'[n] \in Nat
               /\ Cardinality(Queueing(n)') <= permitted'[n]
    BY <1>2, <1>4, <2>2 DEF QuietInv
  <2>3. QED BY <2>1, <2>2 DEF QuietInv
<1>8. CriticalInv'
  <2>1. \A n \in ns : permitted'[n] # -1
    BY <1>4, QueueingFinite
  <2>2. QED BY <1>1, <1>4, <2>1 DEF CriticalInv
<1>9. QED BY <1>1, <1>2, <1>6, <1>7, <1>8

LEMMA CloseStep == ASSUME AudioInv, ClosePlayer PROVE AudioInv'
<1> USE DEF AudioInv
<1>1. /\ UNCHANGED <<overrun, call, permitted>> /\ playerShut'
      /\ repeater' = [g \in Repeaters |->
                         [repeater[g] EXCEPT !.done = @ \/ \E n \in Names : alarms[n] = g]]
      /\ alarms' = [n \in Names |-> 0]
  BY DEF ClosePlayer
<1>2. alarms' = [n \in Names |-> IF n \in Names THEN 0 ELSE alarms[n]]
  BY <1>1
<1>3. /\ alarms' \in [Names -> Repeaters \cup {0}]
      /\ repeater' \in [Repeaters -> Runners]
      /\ \A n \in Names : Queueing(n)' = Queueing(n)
      /\ MapInv'
  BY <1>1, <1>2, TakenOut
<1>4. AudioShapes'
  BY <1>1, <1>3 DEF AudioShapes
<1>5. QuietInv'
  BY <1>1, <1>3 DEF QuietInv
<1>6. CriticalInv'
  BY <1>1 DEF CriticalInv
<1>7. QED BY <1>1, <1>3, <1>4, <1>5, <1>6

\* What the callers do: a request in hand is a stem or a sentence.
LEMMA CallsStep ==
    ASSUME AudioInv,
           \/ \E n \in Names : Play(n)
           \/ PlaySequence
           \/ \E level \in {"notice", "critical"} : Speak(level)
           \/ QueueRequest
           \/ \E level \in Thresholds : SetThreshold(level)
           \/ TakeRequest
           \/ UNCHANGED playerVars
    PROVE  AudioInv'
<1> USE DEF AudioInv
<1>1. UNCHANGED <<playerShut, alarms, repeater, permitted, overrun>>
  BY DEF Play, PlaySequence, Speak, Admit, QueueRequest, SetThreshold, TakeRequest, playerVars
<1>2. call' \in CallSteps /\ (call'.at = "schedule" => call'.request.kind = "track")
  <2>1. ASSUME NEW q \in Requests, NEW level, Admit(q, level)
        PROVE  call' \in CallSteps /\ call'.at # "schedule"
    BY <2>1 DEF Admit, CallSteps
  <2>2. CASE \/ \E n \in Names : Play(n)
             \/ PlaySequence
             \/ \E level \in {"notice", "critical"} : Speak(level)
    BY <2>1, <2>2 DEF Play, PlaySequence, Speak, Requests
  <2>3. CASE QueueRequest
    <3>1. \/ call' = call
          \/ call' = NoCall
          \/ call.request.kind = "track" /\ call' = [call EXCEPT !.at = "schedule"]
      BY <2>3, Zenon DEF QueueRequest
    <3>2. NoCall \in CallSteps /\ NoCall.at # "schedule"
      BY DEF NoCall, CallSteps, Requests
    <3>3. CASE call.request.kind = "track" /\ call' = [call EXCEPT !.at = "schedule"]
      <4>1. call \in CallSteps
        BY DEF AudioShapes
      <4>2. call' \in CallSteps /\ call'.request = call.request
        BY <3>3, <4>1 DEF CallSteps
      <4>3. QED BY <3>3, <4>2
    <3>4. QED BY <3>1, <3>2, <3>3 DEF AudioShapes
  <2>4. CASE \/ \E level \in Thresholds : SetThreshold(level)
             \/ TakeRequest
             \/ UNCHANGED playerVars
    BY <2>4 DEF SetThreshold, TakeRequest, playerVars, AudioShapes
  <2>5. QED BY <2>2, <2>3, <2>4
<1>3. AudioShapes'
  BY <1>1, <1>2 DEF AudioShapes
<1>4. MapInv' /\ QuietInv' /\ CriticalInv'
  BY <1>1 DEF MapInv, InTheMap, Employed, QuietInv, Queueing, CriticalInv
<1>5. QED BY <1>1, <1>3, <1>4

LEMMA AudioKeeps == AudioInv /\ [AudioNext]_playerVars => AudioInv'
<1> SUFFICES ASSUME AudioInv, [AudioNext]_playerVars PROVE AudioInv'
  OBVIOUS
<1>1. CASE ScheduleAlarm
  BY <1>1, ScheduleStep
<1>2. ASSUME NEW g \in Repeaters, RunAlarm(g) PROVE AudioInv'
  BY <1>2, StopStep, RecheckStep, RepeatStep DEF RunAlarm
<1>3. ASSUME NEW ns \in SUBSET Names, Acknowledge(ns) PROVE AudioInv'
  BY <1>3, AcknowledgeStep
<1>4. CASE ClosePlayer
  BY <1>4, CloseStep
<1>5. QED BY <1>1, <1>2, <1>3, <1>4, CallsStep DEF AudioNext, Proceed

\* runAlarm and AcknowledgeAlarm (audio.go): an acknowledged alarm repeats only as often as
\* goroutines were already past their lock, and a critical one that was raised keeps a
\* goroutine of its own, for every number of alarms and goroutines and every queue.
THEOREM AlarmsObeyed == AudioSpec => []AlarmsObey
<1>1. AudioInv => AlarmsObey
  <2> SUFFICES ASSUME AudioInv PROVE AlarmsObey
    OBVIOUS
  <2>1. QuietAfterAck
    BY DEF AudioInv, QuietAfterAck
  <2>2. ASSUME NEW n \in Names, LevelOf[n] = "critical", permitted[n] = -1, ~playerShut
        PROVE  \E g \in Repeaters : /\ alarms[n] = g /\ repeater[g].name = n
                                    /\ repeater[g].at # "gone" /\ ~repeater[g].done
    <3>1. alarms[n] # 0
      BY <2>2 DEF AudioInv, CriticalInv
    <3>2. alarms[n] \in Repeaters
      BY <3>1 DEF AudioInv, AudioShapes
    <3>3. InTheMap(n, alarms[n])
      BY <3>1 DEF AudioInv, MapInv
    <3>4. QED BY <3>2, <3>3 DEF InTheMap, Employed
  <2>3. QED BY <2>1, <2>2 DEF AlarmsObey, CriticalKept
<1>2. QED BY <1>1, AudioStarts, AudioKeeps, PTL DEF AudioSpec
================================================================================
