-------------------------------- MODULE Voice --------------------------------
(***************************************************************************)
(* The player's worker and the speech engine behind it (internal/audio:    *)
(* run, playSequence and play of audio.go, tts.go).  A track is a file or  *)
(* a sentence of files; a text is synthesized once by Piper into a file    *)
(* ending in .partial, renamed into the cache and played from there ever   *)
(* after.  Piper is one process that answers requests in order; it may be  *)
(* slow, hang or die, and the daemon may be restarted at any point.        *)
(***************************************************************************)
EXTENDS Integers, Sequences, FiniteSets, SequencesExt

CONSTANTS Stems,     \* tracks somebody plays
          Bank,      \* stem |-> extension of its file, "none" when missing
          Parts,     \* stem |-> its decomposition, << >> when it has none
          Installed, \* playback programs of the host
          Texts      \* texts somebody speaks

ASSUME VoiceAssumption == "no text" \notin Texts

VARIABLES left,    \* stems of the current request still to be played
          wanted,  \* text the worker waits for, NoText when none
          piper,   \* pipeProc.cmd: "none", "up", or "dead" and not noticed
          asked,   \* texts in Piper's input, oldest first
          answers, \* lines in its output not read yet
          partial, \* text |-> its .partial file: "none", "cut" or "whole"
          cache,   \* text |-> its cached file
          voiced   \* history: what was played last for a text

voiceVars == <<left, wanted, piper, asked, answers, partial, cache, voiced>>

NoSpeech == "no text"

Preference == [mp3 |-> <<"mpg123", "paplay", "ffplay">>,
               wav |-> <<"aplay", "paplay", "ffplay">>,
               ogg |-> <<"paplay", "ogg123", "ffplay">>,
               any |-> <<"ffplay", "paplay", "aplay">>]

Usable(programs) == SelectSeq(programs, LAMBDA p : p \in Installed)

\* An extension without a program of its own is played by the fallback.
Backend(ext) == LET own == IF ext \in DOMAIN Preference THEN Usable(Preference[ext]) ELSE << >>
                    all == own \o Usable(Preference.any)
                IN IF all = << >> THEN "none" ELSE all[1]

Resolves(stem) == stem \in DOMAIN Bank /\ Bank[stem] # "none"
Playable(stem) == Resolves(stem) /\ Backend(Bank[stem]) # "none"

\* A whole phrase first, then its decomposition; what is missing is skipped.
Fragments(stems) == SelectSeq(stems, Playable)
TrackFragments(stem) == Fragments(IF Resolves(stem) THEN <<stem>> ELSE Parts[stem])

----------------------------------------------------------------------------
VoiceInit ==
    /\ left = << >> /\ wanted = NoSpeech
    /\ piper = "none" /\ asked = << >> /\ answers = 0
    /\ partial = [t \in Texts |-> "none"]
    /\ cache = [t \in Texts |-> "none"]
    /\ voiced = "whole"

WorkerIdle == left = << >> /\ wanted = NoSpeech

RunTrack(stem) ==
    /\ WorkerIdle /\ left' = TrackFragments(stem)
    /\ UNCHANGED <<wanted, piper, asked, answers, partial, cache, voiced>>

RunSequence(stems) ==
    /\ WorkerIdle /\ left' = Fragments(stems)
    /\ UNCHANGED <<wanted, piper, asked, answers, partial, cache, voiced>>

\* Playback is bounded to 30 s, so it always ends.
PlayFragment ==
    /\ left # << >> /\ left' = Tail(left)
    /\ UNCHANGED <<wanted, piper, asked, answers, partial, cache, voiced>>

SpeakCached(t) ==
    /\ WorkerIdle /\ cache[t] # "none"
    /\ voiced' = cache[t]
    /\ UNCHANGED <<left, wanted, piper, asked, answers, partial, cache>>

\* ensureRunning starts a process only where there is none: one that died is
\* not noticed, because nobody waits for it.
AskPiper(t) ==
    /\ WorkerIdle /\ cache[t] = "none"
    /\ piper \in {"none", "up"}
    /\ piper' = "up" /\ wanted' = t /\ asked' = Append(asked, t)
    /\ UNCHANGED <<left, answers, partial, cache, voiced>>

\* The request ends with an error: the partial file goes, nothing is played.
Fails == /\ partial' = [partial EXCEPT ![wanted] = "none"]
         /\ wanted' = NoSpeech

WriteFails(t) ==
    /\ WorkerIdle /\ cache[t] = "none" /\ piper = "dead"
    /\ partial' = [partial EXCEPT ![t] = "none"]
    /\ UNCHANGED <<left, wanted, piper, asked, answers, cache, voiced>>

ReadAnswerFails ==
    /\ wanted # NoSpeech /\ piper = "dead" /\ answers = 0
    /\ Fails
    /\ UNCHANGED <<left, piper, asked, answers, cache, voiced>>

\* Mutant: the text is rendered at its final place.
ReadAnswer_Early ==
    /\ wanted # NoSpeech /\ partial[wanted] # "none"
    /\ cache' = [cache EXCEPT ![wanted] = partial[wanted]] /\ voiced' = partial[wanted]
    /\ Fails
    /\ UNCHANGED <<left, piper, asked, answers>>

ReadAnswer ==
    /\ wanted # NoSpeech /\ answers > 0 /\ answers' = answers - 1
    /\ IF partial[wanted] # "none"
       THEN cache' = [cache EXCEPT ![wanted] = partial[wanted]] /\ voiced' = partial[wanted]
       ELSE UNCHANGED <<cache, voiced>>
    /\ Fails
    /\ UNCHANGED <<left, piper, asked>>

\* After 10 s the process is killed with everything it was asked.
TimeOut ==
    /\ wanted # NoSpeech /\ Fails
    /\ piper' = "none" /\ asked' = << >> /\ answers' = 0
    /\ UNCHANGED <<left, cache, voiced>>

----------------------------------------------------------------------------
(* Piper, outside this code: it renders one text after the other and says  *)
(* so once the file is complete.                                           *)

PiperStarts ==
    /\ piper = "up" /\ asked # << >> /\ partial[asked[1]] # "cut"
    /\ partial' = [partial EXCEPT ![asked[1]] = "cut"]
    /\ UNCHANGED <<left, wanted, piper, asked, answers, cache, voiced>>

PiperAnswers ==
    /\ piper = "up" /\ asked # << >> /\ partial[asked[1]] = "cut"
    /\ partial' = [partial EXCEPT ![asked[1]] = "whole"]
    /\ asked' = Tail(asked) /\ answers' = answers + 1
    /\ UNCHANGED <<left, wanted, piper, cache, voiced>>

PiperDies ==
    /\ piper = "up" /\ piper' = "dead" /\ asked' = << >>
    /\ UNCHANGED <<left, wanted, answers, partial, cache, voiced>>

\* The daemon is killed, Piper with it; the files stay.
Restart ==
    /\ left' = << >> /\ wanted' = NoSpeech
    /\ piper' = "none" /\ asked' = << >> /\ answers' = 0
    /\ UNCHANGED <<partial, cache, voiced>>

VoiceStep == PlayFragment \/ ReadAnswerFails \/ ReadAnswer

VoiceNext == \/ \E stem \in Stems : RunTrack(stem)
             \/ \E stem \in Stems : Parts[stem] # << >> /\ RunSequence(Parts[stem])
             \/ \E t \in Texts : SpeakCached(t) \/ AskPiper(t) \/ WriteFails(t)
             \/ VoiceStep \/ TimeOut
             \/ PiperStarts \/ PiperAnswers \/ PiperDies
             \/ Restart

\* The worker goes on by itself and a request that is not answered times out.
VoiceFairness == WF_voiceVars(VoiceStep) /\ WF_voiceVars(TimeOut)

VoiceSpec == VoiceInit /\ [][VoiceNext]_voiceVars /\ VoiceFairness

----------------------------------------------------------------------------
\* What is cached and what is spoken is a whole rendering of its own text,
\* whatever times out, dies or is restarted on the way: the cache is never
\* filled from a file Piper has not finished.
SpokenIsWhole == voiced = "whole" /\ \A t \in Texts : cache[t] \in {"none", "whole"}
=============================================================================
