------------------------------ MODULE Settings ------------------------------
(***************************************************************************)
(* The saved settings (src/utils/settings.cpp) and the ends of a session   *)
(* that use them (src/main.cpp): a run of the program loads settings.ini,  *)
(* lays the command line over it, clamps the result to its receiver, and   *)
(* only on a clean exit puts its values back and saves, through a          *)
(* temporary file and a rename.  It may end without saving at any point,   *)
(* and more than one instance may run.                                     *)
(*                                                                         *)
(* Window and palette are loaded, checked and saved as fft is, and a       *)
(* receiver's frequency as its gain: one key stands for each kind.  A file *)
(* that is only partly written is taken to hold no key yet.  The text of a *)
(* value reads back to the same value.                                     *)
(***************************************************************************)
EXTENDS Integers, FiniteSets

CONSTANTS Instances,      \* runs of the program that may overlap
          Receivers,      \* rtl, rtl-hf, uhd: the prefixes of the tuning keys
          Playback,       \* a session of --play, which has no receiver
          SupportedFft, DefaultFft,
          MinTuning, MaxTuning,         \* limits() of each receiver
          DefaultTuning,                \* of the command line
          ControlTuning,                \* ControlState's own, for a NaN
          NaN, Absent,                  \* not a number; a key that is not there
          InitialKeys,    \* files there may be at first, edited by hand
          MaxSessions     \* bound: sessions started

Keys == {"fft"} \cup Receivers

\* What a key may hold: the file may have been edited by hand.
Values == Int \cup {NaN, Absent}

ASSUME SettingsAssumption ==
  /\ Instances # {} /\ IsFiniteSet(Instances)
  /\ Playback \notin Keys /\ "fft" \notin Receivers
  /\ SupportedFft \subseteq Nat \ {0} /\ DefaultFft \in SupportedFft
  /\ MinTuning \in [Receivers -> Nat] /\ MaxTuning \in [Receivers -> Nat]
  /\ \A r \in Receivers : MinTuning[r] <= MaxTuning[r]
  /\ DefaultTuning \in Nat /\ ControlTuning \in Nat /\ NaN \notin Nat
  /\ Absent \notin Nat \cup SupportedFft \cup {NaN}
  /\ InitialKeys \subseteq [Keys -> Values]
  /\ MaxSessions \in Nat

VARIABLES
  pc,          \* per instance: "off", "run", then inside save_settings():
               \* "open", "write", "rename"
  receiver,    \* its receiver, or Playback
  settings,    \* main's map, loaded at the start
  fft, tuning, \* its ControlState
  out,         \* the file it writes, by its inode; 0 before it is opened
  ini, tmp,    \* the inodes of settings.ini and settings.ini.tmp, 0 if none
  content,     \* per inode: whether a whole save, and its keys
  sessions,    \* sessions started so far
  saved,       \* history: per key, the value of the last session that saved
               \* it, up to the first overlap
  overlapped,  \* history: a session began while another was on
  clashed      \* history: a save began while another was on

sessionVars == <<receiver, settings, fft, tuning, out>>
fileVars == <<ini, tmp, content>>
historyVars == <<saved, overlapped, clashed>>
vars == <<pc, sessionVars, fileVars, sessions, historyVars>>

Inodes == 1..(Cardinality(Instances) + 2)
NoKeys == [key \in Keys |-> Absent]
Whole(keys) == [whole |-> TRUE, keys |-> keys]
Partial == [whole |-> FALSE, keys |-> NoKeys]

\* What load_settings() reads: a missing file as empty.
Loaded == IF ini = 0 THEN NoKeys ELSE content[ini].keys

Saving(i) == pc[i] \in {"open", "write", "rename"}
OthersOff(i) == \A j \in Instances \ {i} : pc[j] = "off"

Init ==
  /\ pc = [i \in Instances |-> "off"]
  /\ receiver = [i \in Instances |-> Playback]
  /\ settings = [i \in Instances |-> NoKeys]
  /\ fft = [i \in Instances |-> DefaultFft]
  /\ tuning = [i \in Instances |-> Absent]
  /\ out = [i \in Instances |-> 0]
  /\ tmp = 0 /\ sessions = 0 /\ overlapped = FALSE /\ clashed = FALSE
  /\ \/ /\ ini = 0 /\ saved = NoKeys
        /\ content = [inode \in Inodes |-> Partial]
     \/ /\ ini = 1
        /\ saved \in InitialKeys
        /\ content = [inode \in Inodes |-> IF inode = 1 THEN Whole(saved)
                                           ELSE Partial]

-----------------------------------------------------------------------------
(* The start of a session.                                                 *)

\* What parse_arguments() may be given: a receiver, no FFT size or one that may
\* not be supported, no tuning, a NaN or one that may be out of the limits.
CommandLines == [receiver : Receivers \cup {Playback},
                 fft : SupportedFft \cup {0, Absent},
                 tuning : {Absent, NaN, 0}]

\* apply_settings(): an unsupported value is skipped; then the command line.
StartFft(keys, given) ==
  IF given # Absent THEN given
  ELSE IF keys["fft"] \in SupportedFft THEN keys["fft"] ELSE DefaultFft

WantedTuning(keys, r, given) ==
  IF given # Absent THEN given
  ELSE IF keys[r] # Absent THEN keys[r] ELSE DefaultTuning

\* std::clamp to the receiver's limits; a NaN leaves ControlState's own value.
Clamped(v, r) == IF v < MinTuning[r] THEN MinTuning[r]
                 ELSE IF v > MaxTuning[r] THEN MaxTuning[r] ELSE v
BugNoClamp(v, r) == IF v = NaN THEN ControlTuning ELSE v
Tuned(v, r) == Clamped(IF v = NaN THEN ControlTuning ELSE v, r)

\* A session that gets as far as its main loop.  One that does not - an
\* FFT size that is not supported, a receiver that is not there - ends without
\* having written anything.
Launch(i, line) ==
  /\ pc[i] = "off" /\ sessions < MaxSessions
  /\ StartFft(Loaded, line.fft) \in SupportedFft
  /\ pc' = [pc EXCEPT ![i] = "run"]
  /\ receiver' = [receiver EXCEPT ![i] = line.receiver]
  /\ settings' = [settings EXCEPT ![i] = Loaded]
  /\ fft' = [fft EXCEPT ![i] = StartFft(Loaded, line.fft)]
  /\ tuning' = [tuning EXCEPT ![i] =
       IF line.receiver = Playback THEN Absent
       ELSE Tuned(WantedTuning(Loaded, line.receiver, line.tuning),
                  line.receiver)]
  /\ sessions' = sessions + 1
  /\ overlapped' = (overlapped \/ ~OthersOff(i))
  /\ UNCHANGED <<out, fileVars, saved, clashed>>

-----------------------------------------------------------------------------
(* During a session, and its end.                                          *)

\* The keys; a playback's tuning is pinned to its capture.
ChangeControls(i) ==
  /\ pc[i] = "run"
  /\ \E size \in SupportedFft : fft' = [fft EXCEPT ![i] = size]
  /\ \/ receiver[i] = Playback /\ UNCHANGED tuning
     \/ /\ receiver[i] # Playback
        /\ \E v \in MinTuning[receiver[i]]..MaxTuning[receiver[i]] :
             tuning' = [tuning EXCEPT ![i] = v]
  /\ UNCHANGED <<pc, receiver, settings, out, fileVars, sessions, historyVars>>

BugOnlyOwnKeys(keys, r, size, v) ==
  [key \in Keys |-> IF key = "fft" THEN size
                    ELSE IF key = r THEN v ELSE Absent]

\* store_settings(): the session's values over what it loaded.
Stored(keys, r, size, v) ==
  [key \in Keys |-> IF key = "fft" THEN size
                    ELSE IF key = r THEN v ELSE keys[key]]

Exit(i) ==
  /\ pc[i] = "run"
  /\ pc' = [pc EXCEPT ![i] = "open"]
  /\ settings' = [settings EXCEPT ![i] =
       Stored(settings[i], receiver[i], fft[i], tuning[i])]
  /\ clashed' = (clashed \/ \E j \in Instances \ {i} : Saving(j))
  /\ UNCHANGED <<receiver, fft, tuning, out, fileVars, sessions, saved, overlapped>>

\* The process is gone, and its memory with it.
End(i) ==
  /\ pc' = [pc EXCEPT ![i] = "off"]
  /\ receiver' = [receiver EXCEPT ![i] = Playback]
  /\ settings' = [settings EXCEPT ![i] = NoKeys]
  /\ fft' = [fft EXCEPT ![i] = DefaultFft]
  /\ tuning' = [tuning EXCEPT ![i] = Absent]
  /\ out' = [out EXCEPT ![i] = 0]
  /\ UNCHANGED sessions

\* An exception, a kill or a crash, at any point: nothing (more) is written.
Abort(i) ==
  /\ pc[i] # "off"
  /\ End(i)
  /\ UNCHANGED <<fileVars, historyVars>>

-----------------------------------------------------------------------------
(* save_settings().                                                        *)

UsedInodes == {ini, tmp} \cup {out[j] : j \in Instances}

\* An inode no name leads to any more is lost, whoever still writes it.
Unlinked(gone) == [inode \in Inodes |-> IF inode = gone THEN Partial
                                        ELSE content[inode]]

\* The file at the temporary path is opened: one that is there is truncated.
OpenTmp(i) ==
  /\ pc[i] = "open"
  /\ \E inode \in IF tmp # 0 THEN {tmp} ELSE Inodes \ UsedInodes :
       /\ tmp' = inode
       /\ out' = [out EXCEPT ![i] = inode]
       /\ content' = [content EXCEPT ![inode] = Partial]
  /\ pc' = [pc EXCEPT ![i] = "write"]
  /\ UNCHANGED <<receiver, settings, fft, tuning, ini, sessions, historyVars>>

\* The lines, and the close that flushes them.
WriteTmp(i) ==
  /\ pc[i] = "write"
  /\ content' = [content EXCEPT ![out[i]] = Whole(settings[i])]
  /\ pc' = [pc EXCEPT ![i] = "rename"]
  /\ UNCHANGED <<sessionVars, ini, tmp, sessions, historyVars>>

BugRenameAnyway(i) ==
  /\ pc[i] = "write"
  /\ pc' = [pc EXCEPT ![i] = "rename"]
  /\ UNCHANGED <<sessionVars, fileVars, sessions, historyVars>>

\* It cannot be opened, or the disk is full: what is at the path is removed.
WriteFails(i) ==
  /\ pc[i] \in {"open", "write"}
  /\ tmp' = 0 /\ content' = Unlinked(tmp)
  /\ End(i)
  /\ UNCHANGED <<ini, historyVars>>

\* The file at the temporary path, whoever wrote it, takes the name.
RenameTmp(i) ==
  /\ pc[i] = "rename" /\ tmp # 0
  /\ ini' = tmp /\ tmp' = 0 /\ content' = Unlinked(ini)
  /\ End(i)
  /\ saved' = IF overlapped THEN saved
              ELSE [saved EXCEPT !["fft"] = fft[i], ![receiver[i]] = tuning[i]]
  /\ UNCHANGED <<overlapped, clashed>>

\* The system refuses it, or another instance has renamed the file away.
RenameFails(i) ==
  /\ pc[i] = "rename"
  /\ End(i)
  /\ UNCHANGED <<fileVars, historyVars>>

Next ==
  \E i \in Instances :
    \/ \E line \in CommandLines : Launch(i, line)
    \/ ChangeControls(i)
    \/ Exit(i)
    \/ Abort(i)
    \/ OpenTmp(i)
    \/ WriteTmp(i)
    \/ WriteFails(i)
    \/ RenameTmp(i)
    \/ RenameFails(i)

Spec == Init /\ [][Next]_vars

-----------------------------------------------------------------------------
\* Types; and whatever the file or the command line say, a session runs with
\* a supported FFT size, inside the limits of its receiver.
TypeOK ==
  /\ pc \in [Instances -> {"off", "run", "open", "write", "rename"}]
  /\ receiver \in [Instances -> Receivers \cup {Playback}]
  /\ fft \in [Instances -> SupportedFft]
  /\ tuning \in [Instances -> Values]
  /\ \A i \in Instances :
       IF receiver[i] = Playback THEN tuning[i] = Absent
       ELSE tuning[i] \in MinTuning[receiver[i]]..MaxTuning[receiver[i]]
  /\ out \in [Instances -> Inodes \cup {0}]
  /\ ini \in Inodes \cup {0} /\ tmp \in Inodes \cup {0}
  /\ settings \in [Instances -> [Keys -> Values]]
  /\ content \in [Inodes -> [whole : BOOLEAN, keys : [Keys -> Values]]]
  /\ sessions \in 0..MaxSessions
  /\ overlapped \in BOOLEAN /\ clashed \in BOOLEAN

\* settings.ini is a whole save at every moment, whatever saves failed or were
\* cut short at whatever step, as long as no two instances save at once.
FileIsWhole == ~clashed /\ ini # 0 => content[ini].whole

\* A session starts where the last ones left it: the file holds, for each key,
\* what the last session that saved it had, whatever sessions of other
\* receivers came in between, as long as no two sessions overlap.
KeysSurvive == ~overlapped => Loaded = saved
=============================================================================
