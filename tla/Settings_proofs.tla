---------------------------- MODULE Settings_proofs ----------------------------
(***************************************************************************)
(* Proofs about the saved settings, for any number of instances, receivers *)
(* and sessions and any file there may be at first: a session runs inside  *)
(* the limits of its receiver, the file stays whole, and no key is lost.   *)
(***************************************************************************)
EXTENDS Settings, FiniteSetTheorems, TLAPS

-----------------------------------------------------------------------------
(* The inductive invariants, in parts. *)

\* While no two saves overlap, one instance saves at most, into the file at the
\* temporary path, which is never the settings file itself.
SaveInv ==
  /\ ini # 0 => ini # tmp
  /\ ~clashed =>
       /\ \A i, j \in Instances : Saving(i) /\ Saving(j) => i = j
       /\ \A i \in Instances :
            /\ pc[i] \in {"write", "rename"} => tmp # 0 /\ out[i] = tmp
            /\ pc[i] = "rename" => content[tmp] = Whole(settings[i])
       /\ FileIsWhole

\* While no two sessions overlap, the one there is has loaded what the last one
\* saved, and is about to save that with its own values over it.
SessionInv ==
  /\ clashed => overlapped
  /\ ~overlapped =>
       /\ \A i, j \in Instances : pc[i] # "off" /\ pc[j] # "off" => i = j
       /\ \A i \in Instances :
            /\ pc[i] = "run" => settings[i] = saved
            /\ Saving(i) => settings[i] =
                 [saved EXCEPT !["fft"] = fft[i], ![receiver[i]] = tuning[i]]
       /\ saved \in [Keys -> Values]
       /\ KeysSurvive

-----------------------------------------------------------------------------
LEMMA InodesArePositive == 0 \notin Inodes /\ 1 \in Inodes
<1>1. Cardinality(Instances) \in Nat
  BY SettingsAssumption, FS_CardinalityType
<1> QED BY <1>1 DEF Inodes

LEMMA NoKeysType == NoKeys \in [Keys -> Values]
BY DEF NoKeys, Values

LEMMA FftType ==
  ASSUME NEW keys \in [Keys -> Values], NEW given
  PROVE  given # Absent \/ StartFft(keys, given) \in SupportedFft
BY SettingsAssumption DEF StartFft

\* Clamped to its receiver's limits, also a NaN.
LEMMA TunedType ==
  ASSUME NEW keys \in [Keys -> Values], NEW r \in Receivers,
         NEW given \in {Absent, NaN, 0}
  PROVE  Tuned(WantedTuning(keys, r, given), r) \in MinTuning[r]..MaxTuning[r]
<1> DEFINE wanted == WantedTuning(keys, r, given)
<1>1. wanted \in Int \cup {NaN}
  BY SettingsAssumption DEF WantedTuning, Keys, Values
<1>2. MinTuning[r] \in Nat /\ MaxTuning[r] \in Nat /\ MinTuning[r] <= MaxTuning[r]
  BY SettingsAssumption
<1>3. (IF wanted = NaN THEN ControlTuning ELSE wanted) \in Int
  BY <1>1, SettingsAssumption
<1> HIDE DEF wanted
<1>4. Tuned(wanted, r) \in MinTuning[r]..MaxTuning[r]
  BY <1>2, <1>3 DEF Tuned, Clamped
<1> QED BY <1>4 DEF wanted

LEMMA StoredType ==
  ASSUME NEW keys \in [Keys -> Values], NEW r, NEW size \in Values,
         NEW v \in Values
  PROVE  Stored(keys, r, size, v) \in [Keys -> Values]
BY DEF Stored

LEMMA LoadedType == TypeOK => Loaded \in [Keys -> Values]
BY NoKeysType DEF TypeOK, Loaded

LEMMA InitType == Init => TypeOK
<1> SUFFICES ASSUME Init PROVE TypeOK
  OBVIOUS
<1>1. Absent \in Values /\ DefaultFft \in SupportedFft /\ 0 \in 0..MaxSessions
  BY SettingsAssumption DEF Values
<1>2. Partial \in [whole : BOOLEAN, keys : [Keys -> Values]]
  BY NoKeysType DEF Partial
<1>3. \A keys \in InitialKeys : Whole(keys) \in [whole : BOOLEAN, keys : [Keys -> Values]]
  BY SettingsAssumption DEF Whole
<1>4. content \in [Inodes -> [whole : BOOLEAN, keys : [Keys -> Values]]]
  <2>1. CASE content = [inode \in Inodes |-> Partial]
    BY <2>1, <1>2
  <2>2. CASE /\ saved \in InitialKeys
             /\ content = [inode \in Inodes |-> IF inode = 1 THEN Whole(saved)
                                                ELSE Partial]
    BY <2>2, <1>2, <1>3
  <2> QED BY <2>1, <2>2 DEF Init
<1>5. ini \in Inodes \cup {0} /\ tmp \in Inodes \cup {0}
  BY InodesArePositive DEF Init
<1> QED BY <1>1, <1>4, <1>5, NoKeysType DEF Init, TypeOK

\* An instance that ends leaves every variable of its own at its type.
LEMMA EndType ==
  ASSUME TypeOK, NEW i \in Instances, End(i)
  PROVE  /\ pc' \in [Instances -> {"off", "run", "open", "write", "rename"}]
         /\ receiver' \in [Instances -> Receivers \cup {Playback}]
         /\ fft' \in [Instances -> SupportedFft]
         /\ tuning' \in [Instances -> Values]
         /\ \A j \in Instances :
              IF receiver'[j] = Playback THEN tuning'[j] = Absent
              ELSE tuning'[j] \in MinTuning[receiver'[j]]..MaxTuning[receiver'[j]]
         /\ out' \in [Instances -> Inodes \cup {0}]
         /\ settings' \in [Instances -> [Keys -> Values]]
         /\ sessions' \in 0..MaxSessions
<1>1. Absent \in Values /\ DefaultFft \in SupportedFft
  BY SettingsAssumption DEF Values
<1> QED BY <1>1, NoKeysType DEF TypeOK, End

LEMMA UnlinkedType ==
  ASSUME TypeOK, NEW gone
  PROVE  Unlinked(gone) \in [Inodes -> [whole : BOOLEAN, keys : [Keys -> Values]]]
BY NoKeysType DEF TypeOK, Unlinked, Partial

LEMMA TypeStep == TypeOK /\ [Next]_vars => TypeOK'
<1> SUFFICES ASSUME TypeOK, Next PROVE TypeOK'
  BY DEF TypeOK, vars, sessionVars, fileVars, historyVars
<1> USE DEF sessionVars, fileVars, historyVars
<1>1. PICK i \in Instances :
        \/ \E line \in CommandLines : Launch(i, line)
        \/ ChangeControls(i) \/ Exit(i) \/ Abort(i)
        \/ OpenTmp(i) \/ WriteTmp(i) \/ WriteFails(i) \/ RenameTmp(i)
        \/ RenameFails(i)
  BY DEF Next
<1>2. CASE \E line \in CommandLines : Launch(i, line)
  <2>1. PICK line \in CommandLines : Launch(i, line)
    BY <1>2
  <2>2. /\ line.receiver \in Receivers \cup {Playback}
        /\ line.tuning \in {Absent, NaN, 0}
    BY DEF CommandLines
  <2> DEFINE size == StartFft(Loaded, line.fft)
             v == IF line.receiver = Playback THEN Absent
                  ELSE Tuned(WantedTuning(Loaded, line.receiver, line.tuning),
                             line.receiver)
  <2>3. size \in SupportedFft
    BY <2>1 DEF Launch
  <2>4. v \in Values /\ IF line.receiver = Playback THEN v = Absent
        ELSE v \in MinTuning[line.receiver]..MaxTuning[line.receiver]
    <3>1. CASE line.receiver = Playback
      BY <3>1 DEF Values
    <3>2. CASE line.receiver # Playback
      <4>1. line.receiver \in Receivers
        BY <2>2, <3>2
      <4>2. v \in MinTuning[line.receiver]..MaxTuning[line.receiver]
        BY <2>2, <3>2, <4>1, TunedType, LoadedType
      <4>3. v \in Int
        BY <4>1, <4>2, SettingsAssumption
      <4> QED BY <3>2, <4>2, <4>3 DEF Values
    <3> QED BY <3>1, <3>2
  <2> HIDE DEF size, v
  <2>5. /\ receiver' = [receiver EXCEPT ![i] = line.receiver]
        /\ fft' = [fft EXCEPT ![i] = size]
        /\ tuning' = [tuning EXCEPT ![i] = v]
        /\ settings' = [settings EXCEPT ![i] = Loaded]
        /\ pc' = [pc EXCEPT ![i] = "run"]
        /\ sessions < MaxSessions /\ sessions' = sessions + 1
        /\ overlapped' \in BOOLEAN
        /\ UNCHANGED <<out, fileVars, saved, clashed>>
    BY <2>1 DEF Launch, size, v
  <2>6. \A j \in Instances :
          IF receiver'[j] = Playback THEN tuning'[j] = Absent
          ELSE tuning'[j] \in MinTuning[receiver'[j]]..MaxTuning[receiver'[j]]
    <3> TAKE j \in Instances
    <3>1. CASE j = i
      BY <3>1, <2>4, <2>5 DEF TypeOK
    <3>2. CASE j # i
      BY <3>2, <2>5 DEF TypeOK
    <3> QED BY <3>1, <3>2
  <2>7. sessions' \in 0..MaxSessions
    BY <2>5, SettingsAssumption DEF TypeOK
  <2>8. /\ pc' \in [Instances -> {"off", "run", "open", "write", "rename"}]
        /\ receiver' \in [Instances -> Receivers \cup {Playback}]
        /\ fft' \in [Instances -> SupportedFft]
        /\ tuning' \in [Instances -> Values]
        /\ settings' \in [Instances -> [Keys -> Values]]
    BY <2>2, <2>3, <2>4, <2>5, LoadedType DEF TypeOK
  <2> QED BY <2>5, <2>6, <2>7, <2>8 DEF TypeOK
<1>3. CASE ChangeControls(i)
  <2>1. PICK size \in SupportedFft : fft' = [fft EXCEPT ![i] = size]
    BY <1>3 DEF ChangeControls
  <2>2. CASE receiver[i] = Playback
    BY <1>3, <2>1, <2>2 DEF ChangeControls, TypeOK
  <2>3. CASE receiver[i] # Playback
    <3>1. PICK v \in MinTuning[receiver[i]]..MaxTuning[receiver[i]] :
            tuning' = [tuning EXCEPT ![i] = v]
      BY <1>3, <2>3 DEF ChangeControls
    <3>2. receiver[i] \in Receivers
      BY <2>3 DEF TypeOK
    <3>3. v \in Values
      BY <3>2, SettingsAssumption DEF Values
    <3> QED BY <1>3, <2>1, <2>3, <3>1, <3>3 DEF ChangeControls, TypeOK
  <2> QED BY <2>2, <2>3
<1>4. CASE Exit(i)
  <2>1. fft[i] \in Values /\ tuning[i] \in Values
    <3>1. fft[i] \in SupportedFft /\ tuning[i] \in Values
      BY DEF TypeOK
    <3>2. fft[i] \in Nat
      BY <3>1, SettingsAssumption
    <3> QED BY <3>1, <3>2 DEF Values
  <2>2. Stored(settings[i], receiver[i], fft[i], tuning[i]) \in [Keys -> Values]
    BY <2>1, StoredType DEF TypeOK
  <2>3. clashed' \in BOOLEAN
    BY <1>4 DEF Exit, TypeOK
  <2> QED BY <1>4, <2>2, <2>3 DEF Exit, TypeOK
<1>5. CASE Abort(i) \/ RenameFails(i)
  BY <1>5, EndType DEF Abort, RenameFails, TypeOK
<1>6. CASE WriteFails(i)
  <2>1. content' = Unlinked(tmp) /\ tmp' = 0 /\ End(i)
    BY <1>6 DEF WriteFails
  <2> QED BY <1>6, <2>1, EndType, UnlinkedType DEF WriteFails, TypeOK
<1>7. CASE RenameTmp(i)
  <2>1. content' = Unlinked(ini) /\ tmp' = 0 /\ ini' = tmp /\ End(i)
    BY <1>7 DEF RenameTmp
  <2> QED BY <1>7, <2>1, EndType, UnlinkedType DEF RenameTmp, TypeOK
<1>8. CASE OpenTmp(i)
  <2>1. PICK inode \in IF tmp # 0 THEN {tmp} ELSE Inodes \ UsedInodes :
          /\ tmp' = inode /\ out' = [out EXCEPT ![i] = inode]
          /\ content' = [content EXCEPT ![inode] = Partial]
    BY <1>8 DEF OpenTmp
  <2>2. inode \in Inodes
    BY <2>1 DEF TypeOK
  <2>3. Partial \in [whole : BOOLEAN, keys : [Keys -> Values]]
    BY NoKeysType DEF Partial
  <2> QED BY <1>8, <2>1, <2>2, <2>3 DEF OpenTmp, TypeOK
<1>9. CASE WriteTmp(i)
  <2>1. Whole(settings[i]) \in [whole : BOOLEAN, keys : [Keys -> Values]]
    BY DEF TypeOK, Whole
  <2> QED BY <1>9, <2>1 DEF WriteTmp, TypeOK
<1> QED BY <1>1, <1>2, <1>3, <1>4, <1>5, <1>6, <1>7, <1>8, <1>9

-----------------------------------------------------------------------------
LEMMA SaveInit == Init => SaveInv
BY InodesArePositive DEF Init, SaveInv, Saving, FileIsWhole, Whole

LEMMA SaveStep == TypeOK /\ SaveInv /\ [Next]_vars => SaveInv'
<1> SUFFICES ASSUME TypeOK, SaveInv, [Next]_vars PROVE SaveInv'
  OBVIOUS
<1> USE DEF sessionVars, fileVars, historyVars
<1>0. CASE UNCHANGED vars
  BY <1>0 DEF vars, SaveInv, Saving, FileIsWhole
<1>1. SUFFICES ASSUME NEW i \in Instances,
        \/ \E line \in CommandLines : Launch(i, line)
        \/ ChangeControls(i) \/ Exit(i) \/ Abort(i)
        \/ OpenTmp(i) \/ WriteTmp(i) \/ WriteFails(i) \/ RenameTmp(i)
        \/ RenameFails(i)
      PROVE SaveInv'
  BY <1>0 DEF Next
<1>2. CASE (\E line \in CommandLines : Launch(i, line)) \/ ChangeControls(i)
  <2>1. /\ UNCHANGED <<fileVars, out, clashed>>
        /\ \A j \in Instances :
             /\ pc'[j] \in {"open", "write", "rename"} => pc'[j] = pc[j]
             /\ Saving(j) => settings'[j] = settings[j]
    BY <1>2 DEF Launch, ChangeControls, TypeOK, Saving
  <2> QED BY <2>1 DEF SaveInv, Saving, FileIsWhole
<1>3. CASE Exit(i)
  <2>1. /\ UNCHANGED <<fileVars, out>> /\ pc'[i] = "open"
        /\ \A j \in Instances \ {i} : pc'[j] = pc[j] /\ settings'[j] = settings[j]
        /\ ~clashed' => ~clashed /\ \A j \in Instances \ {i} : ~Saving(j)
    BY <1>3 DEF Exit, TypeOK
  <2> QED BY <2>1 DEF SaveInv, Saving, FileIsWhole
<1>4. CASE Abort(i) \/ RenameFails(i)
  <2>1. /\ UNCHANGED <<fileVars, clashed>> /\ pc'[i] = "off"
        /\ \A j \in Instances \ {i} : /\ pc'[j] = pc[j] /\ settings'[j] = settings[j]
                                       /\ out'[j] = out[j]
    BY <1>4 DEF Abort, RenameFails, End, TypeOK
  <2> QED BY <2>1 DEF SaveInv, Saving, FileIsWhole
<1>5. CASE OpenTmp(i)
  <2>1. PICK inode \in IF tmp # 0 THEN {tmp} ELSE Inodes \ UsedInodes :
          /\ tmp' = inode /\ out' = [out EXCEPT ![i] = inode]
          /\ content' = [content EXCEPT ![inode] = Partial]
    BY <1>5 DEF OpenTmp
  <2>2. inode # 0 /\ (ini # 0 => inode # ini)
    BY <2>1, InodesArePositive DEF UsedInodes, SaveInv
  <2>3. ini' = ini /\ clashed' = clashed /\ settings' = settings
        /\ pc' = [pc EXCEPT ![i] = "write"] /\ pc[i] = "open"
    BY <1>5 DEF OpenTmp
  <2>4. ini # 0 => content'[ini] = content[ini]
    BY <2>1, <2>2 DEF TypeOK
  <2>5. /\ pc'[i] = "write" /\ out'[i] = tmp'
        /\ \A j \in Instances \ {i} : pc'[j] = pc[j]
    BY <2>1, <2>3 DEF TypeOK
  <2> QED BY <2>1, <2>2, <2>3, <2>4, <2>5 DEF SaveInv, Saving, FileIsWhole
<1>6. CASE WriteTmp(i)
  <2>1. /\ UNCHANGED <<sessionVars, ini, tmp, clashed>> /\ pc[i] = "write"
        /\ pc'[i] = "rename" /\ \A j \in Instances \ {i} : pc'[j] = pc[j]
        /\ content' = [content EXCEPT ![out[i]] = Whole(settings[i])]
    BY <1>6 DEF WriteTmp, TypeOK
  <2>2. ~clashed => /\ out[i] = tmp /\ tmp # 0
                    /\ content'[tmp] = Whole(settings[i])
                    /\ ini # 0 => content'[ini] = content[ini]
    BY <2>1 DEF SaveInv, TypeOK
  <2> QED BY <2>1, <2>2 DEF SaveInv, Saving, FileIsWhole
<1>7. CASE WriteFails(i)
  <2>1. /\ pc[i] \in {"open", "write"} /\ tmp' = 0 /\ UNCHANGED <<ini, clashed>>
        /\ pc'[i] = "off" /\ \A j \in Instances \ {i} : pc'[j] = pc[j]
        /\ content' = Unlinked(tmp)
    BY <1>7 DEF WriteFails, End, TypeOK
  <2>2. ini # 0 => content'[ini] = content[ini]
    BY <2>1 DEF SaveInv, TypeOK, Unlinked
  <2> QED BY <2>1, <2>2 DEF SaveInv, Saving, FileIsWhole
<1>8. CASE RenameTmp(i)
  <2>1. /\ pc[i] = "rename" /\ tmp # 0 /\ ini' = tmp /\ tmp' = 0
        /\ clashed' = clashed /\ content' = Unlinked(ini)
        /\ pc'[i] = "off" /\ \A j \in Instances \ {i} : pc'[j] = pc[j]
    BY <1>8 DEF RenameTmp, End, TypeOK
  <2>2. tmp # ini /\ content'[tmp] = content[tmp]
    BY <2>1 DEF SaveInv, TypeOK, Unlinked
  <2>3. ~clashed => content'[ini'].whole
    <3>1. ~clashed => content[tmp] = Whole(settings[i])
      BY <2>1 DEF SaveInv
    <3>2. Whole(settings[i]).whole
      BY DEF Whole
    <3> QED BY <2>1, <2>2, <3>1, <3>2
  <2>4. ~clashed => \A j \in Instances : pc'[j] \notin {"open", "write", "rename"}
    BY <2>1 DEF SaveInv, Saving
  <2> QED BY <2>1, <2>3, <2>4 DEF SaveInv, Saving, FileIsWhole
<1> QED BY <1>1, <1>2, <1>3, <1>4, <1>5, <1>6, <1>7, <1>8

LEMMA SessionInit == Init => SessionInv
BY InodesArePositive, NoKeysType, SettingsAssumption
DEF Init, SessionInv, Saving, KeysSurvive, Loaded, Whole

LEMMA SessionStep == TypeOK /\ SaveInv /\ SessionInv /\ [Next]_vars => SessionInv'
<1> SUFFICES ASSUME TypeOK, SaveInv, SessionInv, [Next]_vars PROVE SessionInv'
  OBVIOUS
<1> USE DEF sessionVars, fileVars, historyVars
<1>0. CASE UNCHANGED vars
  BY <1>0 DEF vars, SessionInv, Saving, KeysSurvive, Loaded
<1>1. SUFFICES ASSUME NEW i \in Instances,
        \/ \E line \in CommandLines : Launch(i, line)
        \/ ChangeControls(i) \/ Exit(i) \/ Abort(i)
        \/ OpenTmp(i) \/ WriteTmp(i) \/ WriteFails(i) \/ RenameTmp(i)
        \/ RenameFails(i)
      PROVE SessionInv'
  BY <1>0 DEF Next
<1>2. CASE \E line \in CommandLines : Launch(i, line)
  <2>1. /\ UNCHANGED <<fileVars, saved, clashed>> /\ pc'[i] = "run"
        /\ settings'[i] = Loaded
        /\ overlapped' = (overlapped \/ \E j \in Instances \ {i} : pc[j] # "off")
        /\ \A j \in Instances \ {i} : pc'[j] = pc[j]
    BY <1>2 DEF Launch, OthersOff, TypeOK
  <2>2. Loaded' = Loaded
    BY <2>1 DEF Loaded
  <2>3. CASE overlapped'
    <3>1. clashed' => overlapped'
      BY <2>3
    <3> QED BY <2>3, <3>1 DEF SessionInv, KeysSurvive
  <2>4. CASE ~overlapped'
    <3>1. ~overlapped /\ \A j \in Instances \ {i} : pc'[j] = "off"
      BY <2>1, <2>4
    <3>2. ~clashed' /\ Loaded' = saved' /\ saved' \in [Keys -> Values]
      BY <2>1, <2>2, <3>1 DEF SessionInv, KeysSurvive
    <3>3. \A j \in Instances : pc'[j] # "off" => j = i
      BY <3>1
    <3>4. \A j \in Instances : pc'[j] = "run" => settings'[j] = saved'
      BY <2>1, <2>2, <3>2, <3>3
    <3>5. \A j \in Instances : pc'[j] \notin {"open", "write", "rename"}
      BY <2>1, <3>1
    <3> QED BY <3>2, <3>3, <3>4, <3>5 DEF SessionInv, Saving, KeysSurvive
  <2> QED BY <2>3, <2>4
<1>3. CASE ChangeControls(i)
  <2>1. /\ UNCHANGED <<fileVars, saved, clashed, overlapped, pc, settings, receiver>>
        /\ pc[i] = "run"
        /\ \A j \in Instances \ {i} : fft'[j] = fft[j] /\ tuning'[j] = tuning[j]
    BY <1>3 DEF ChangeControls, TypeOK
  <2> QED BY <2>1 DEF SessionInv, Saving, KeysSurvive, Loaded
<1>4. CASE Exit(i)
  <2>1. /\ UNCHANGED <<fileVars, saved, overlapped, fft, tuning, receiver>>
        /\ pc[i] = "run" /\ pc'[i] = "open"
        /\ clashed' = (clashed \/ \E j \in Instances \ {i} : Saving(j))
        /\ \A j \in Instances \ {i} : pc'[j] = pc[j] /\ settings'[j] = settings[j]
        /\ settings'[i] = Stored(settings[i], receiver[i], fft[i], tuning[i])
    BY <1>4 DEF Exit, TypeOK
  <2>2. ~overlapped => settings'[i] =
          [saved EXCEPT !["fft"] = fft[i], ![receiver[i]] = tuning[i]]
    <3> SUFFICES ASSUME ~overlapped
          PROVE settings'[i] =
                  [saved EXCEPT !["fft"] = fft[i], ![receiver[i]] = tuning[i]]
      OBVIOUS
    <3>1. settings[i] = saved /\ saved \in [Keys -> Values]
      BY <2>1 DEF SessionInv
    <3>2. receiver[i] # "fft" /\ "fft" \in Keys
      BY SettingsAssumption DEF TypeOK, Keys
    <3>3. settings'[i] = [key \in Keys |-> IF key = "fft" THEN fft[i]
                            ELSE IF key = receiver[i] THEN tuning[i] ELSE saved[key]]
      BY <2>1, <3>1 DEF Stored
    <3> HIDE DEF Keys
    <3> QED BY <3>1, <3>2, <3>3
  <2>3. clashed' => overlapped
    BY <2>1 DEF SessionInv, Saving
  <2> QED BY <2>1, <2>2, <2>3 DEF SessionInv, Saving, KeysSurvive, Loaded
<1>5. CASE Abort(i) \/ RenameFails(i)
  <2>1. /\ UNCHANGED <<fileVars, saved, clashed, overlapped>> /\ pc'[i] = "off"
        /\ \A j \in Instances \ {i} :
             /\ pc'[j] = pc[j] /\ settings'[j] = settings[j] /\ fft'[j] = fft[j]
             /\ tuning'[j] = tuning[j] /\ receiver'[j] = receiver[j]
    BY <1>5 DEF Abort, RenameFails, End, TypeOK
  <2> QED BY <2>1 DEF SessionInv, Saving, KeysSurvive, Loaded
<1>6. CASE OpenTmp(i)
  <2>1. PICK inode \in IF tmp # 0 THEN {tmp} ELSE Inodes \ UsedInodes :
          content' = [content EXCEPT ![inode] = Partial]
    BY <1>6 DEF OpenTmp
  <2>2. ini # 0 => inode # ini
    BY <2>1 DEF UsedInodes, SaveInv
  <2>3. /\ UNCHANGED <<ini, saved, clashed, overlapped, fft, tuning, receiver, settings>>
        /\ pc' = [pc EXCEPT ![i] = "write"] /\ pc[i] = "open"
    BY <1>6 DEF OpenTmp
  <2>4. Loaded' = Loaded
    BY <2>1, <2>2, <2>3 DEF Loaded, TypeOK
  <2>5. pc'[i] = "write" /\ \A j \in Instances \ {i} : pc'[j] = pc[j]
    BY <2>3 DEF TypeOK
  <2> QED BY <2>3, <2>4, <2>5 DEF SessionInv, Saving, KeysSurvive
<1>7. CASE WriteTmp(i)
  <2>1. /\ UNCHANGED <<sessionVars, ini, saved, clashed, overlapped>> /\ pc[i] = "write"
        /\ pc'[i] = "rename" /\ \A j \in Instances \ {i} : pc'[j] = pc[j]
        /\ content' = [content EXCEPT ![out[i]] = Whole(settings[i])]
    BY <1>7 DEF WriteTmp, TypeOK
  <2>2. ~overlapped => Loaded' = Loaded
    <3>1. ~overlapped => out[i] = tmp /\ tmp # 0
      BY <2>1 DEF SessionInv, SaveInv
    <3> QED BY <2>1, <3>1 DEF SaveInv, Loaded, TypeOK
  <2> QED BY <2>1, <2>2 DEF SessionInv, Saving, KeysSurvive
<1>8. CASE WriteFails(i)
  <2>1. /\ pc'[i] = "off" /\ UNCHANGED <<ini, saved, clashed, overlapped>>
        /\ content' = Unlinked(tmp)
        /\ \A j \in Instances \ {i} :
             /\ pc'[j] = pc[j] /\ settings'[j] = settings[j] /\ fft'[j] = fft[j]
             /\ tuning'[j] = tuning[j] /\ receiver'[j] = receiver[j]
    BY <1>8 DEF WriteFails, End, TypeOK
  <2>2. Loaded' = Loaded
    BY <2>1 DEF SaveInv, TypeOK, Unlinked, Loaded
  <2> QED BY <2>1, <2>2 DEF SessionInv, Saving, KeysSurvive
<1>9. CASE RenameTmp(i)
  <2>1. /\ pc[i] = "rename" /\ tmp # 0 /\ ini' = tmp
        /\ content' = Unlinked(ini) /\ pc'[i] = "off"
        /\ \A j \in Instances \ {i} : pc'[j] = pc[j]
        /\ saved' = IF overlapped THEN saved
             ELSE [saved EXCEPT !["fft"] = fft[i], ![receiver[i]] = tuning[i]]
        /\ UNCHANGED <<overlapped, clashed>>
    BY <1>9 DEF RenameTmp, End, TypeOK
  <2>2. SUFFICES ASSUME ~overlapped PROVE SessionInv'
    BY <2>1 DEF SessionInv
  <2>3. content[tmp] = Whole(settings[i]) /\ settings[i] = saved'
    BY <2>1, <2>2 DEF SaveInv, SessionInv, Saving
  <2>4. Loaded' = saved'
    <3>1. content'[tmp] = content[tmp]
      BY <2>1 DEF SaveInv, TypeOK, Unlinked
    <3> QED BY <2>1, <2>3, <3>1 DEF Loaded, Whole
  <2>5. saved' \in [Keys -> Values]
    BY <2>3 DEF TypeOK
  <2>6. \A j \in Instances : pc'[j] = "off"
    BY <2>1, <2>2 DEF SessionInv
  <2> QED BY <2>1, <2>2, <2>4, <2>5, <2>6 DEF SessionInv, Saving, KeysSurvive
<1> QED BY <1>1, <1>2, <1>3, <1>4, <1>5, <1>6, <1>7, <1>8, <1>9

LEMMA Invariance == Spec => [](TypeOK /\ SaveInv /\ SessionInv)
<1>1. Init => TypeOK /\ SaveInv /\ SessionInv
  BY InitType, SaveInit, SessionInit
<1>2. TypeOK /\ SaveInv /\ SessionInv /\ [Next]_vars
        => (TypeOK /\ SaveInv /\ SessionInv)'
  BY TypeStep, SaveStep, SessionStep
<1> QED BY <1>1, <1>2, PTL DEF Spec

-----------------------------------------------------------------------------
(* The theorems. *)

\* Whatever the file and the command line ask for, apply_settings(),
\* parse_arguments() and the clamps of ControlState leave a session with a
\* supported FFT size and a tuning inside its receiver's limits.
THEOREM WithinLimits == Spec => []TypeOK
BY Invariance, PTL

\* However a save is cut short, settings.ini is a whole save as long as no two
\* instances save at once: save_settings() writes beside it and renames.
THEOREM WholeFile == Spec => []FileIsWhole
<1>1. SaveInv => FileIsWhole
  BY DEF SaveInv, FileIsWhole
<1> QED BY Invariance, <1>1, PTL

\* A session starts with, for each key, what the last session that saved it had,
\* as long as no two overlap: store_settings() keeps the other receivers' keys.
THEOREM KeysAreKept == Spec => []KeysSurvive
<1>1. SessionInv => KeysSurvive
  BY DEF SessionInv, KeysSurvive
<1> QED BY Invariance, <1>1, PTL
=============================================================================
