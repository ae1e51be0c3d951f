--------------------------- MODULE Members_proofs ---------------------------
(* What holds of the commands for a member, however many of them run at     *)
(* once, and what only holds as long as they do not overlap.               *)
EXTENDS Members, TLAPS

\* What save_pairing and ensure_env_file write are settings: no host is loopback,
\* and a token is one that was drawn or none.
LEMMA SettingsWritten ==
  ASSUME NEW c \in Commands, env \in Settings \union {NoFile}
  PROVE  /\ Unpaired \in Settings
         /\ Loaded \in Settings
         /\ EnvOf(c) \in Settings
         /\ Merged(c) \in Settings
         /\ IngressOf(c) \subseteq Hosts
         /\ <<c, "cli">> \in Tokens
<1>1. Unpaired \in Settings
  BY DEF Unpaired, Settings
<1>2. Loaded \in Settings
  BY <1>1 DEF Loaded
<1>3. IngressOf(c) \subseteq Hosts
  BY ConstantsAssumption DEF IngressOf
<1>4. TokenFor(c) \in Tokens \union {NoToken}
  BY DEF TokenFor, NewToken, Tokens, Settings
<1>5. EnvOf(c) \in Settings
  BY <1>3, <1>4 DEF EnvOf, Settings
<1>6. Merged(c) \in Settings
  BY <1>2 DEF Merged, Settings
<1> QED
  BY <1>1, <1>2, <1>3, <1>5, <1>6 DEF Tokens

\* A command that fails goes on to a step of its script.
LEMMA AfterFailIsAStep ==
  ASSUME NEW c \in Commands
  PROVE  AfterFail(c) \in Steps
BY DEF AfterFail, Steps, Undoing, Over

\* A pairing code is printed, or about to be, only with a token; unpair prints none.
CodeOf(c) ==
  IF KindOf[c] = "unpair" THEN pc[c] \in Over \union {"save", "rename"}
  ELSE pc[c] \in {"save", "rename", "print"} => draft[c].token \in Tokens
CodeHasToken == \A c \in Commands : CodeOf(c)

\* What pair-code has read always holds a token: it draws one if there is none.
LEMMA LoadedCodeHasToken ==
  ASSUME TypeOK, NEW c \in Commands, Load(c)
  PROVE  draft'[c] \in Settings /\ draft'[c].token \in Tokens
<1> DEFINE token == IF Loaded.token = NoToken THEN NewToken(c, "cli") ELSE Loaded.token
           code == [Loaded EXCEPT !.token = token, !.hosts = @ \union IngressOf(c)]
<1>1. token \in Tokens /\ Loaded.hosts \union IngressOf(c) \subseteq Hosts
  BY SettingsWritten DEF TypeOK, Settings, NewToken
<1>2. draft'[c] = code
  BY DEF Load, GotoWith, TypeOK
<1>3. Loaded \in Settings
  BY SettingsWritten DEF TypeOK
<1> QED
  BY <1>1, <1>2, <1>3 DEF Settings

\* Every step keeps the codes' tokens.
LEMMA CodeStep == TypeOK /\ CodeHasToken /\ [Next]_vars => CodeHasToken'
<1> SUFFICES ASSUME TypeOK, CodeHasToken, [Next]_vars, NEW d \in Commands
             PROVE  CodeOf(d)'
  BY DEF CodeHasToken
<1>0. CodeOf(d)
  BY DEF CodeHasToken
<1> USE DEF TypeOK, CodeOf, Over
<1>1. ASSUME NEW c \in Commands, EnsureUser(c) PROVE CodeOf(d)'
  BY <1>0, <1>1 DEF EnsureUser, Begins, Goto, GotoWith
<1>2. ASSUME NEW c \in Commands, Prepare(c) PROVE CodeOf(d)'
  BY <1>0, <1>2 DEF Prepare, AfterFail, Goto, GotoWith
<1>3. ASSUME NEW c \in Commands, WriteEnv(c) PROVE CodeOf(d)'
  BY <1>0, <1>3 DEF WriteEnv, Goto, GotoWith
<1>4. ASSUME NEW c \in Commands, RenderUnit(c) PROVE CodeOf(d)'
  BY <1>0, <1>4 DEF RenderUnit, Goto, GotoWith
<1>5. ASSUME NEW c \in Commands, Enable(c) PROVE CodeOf(d)'
  BY <1>0, <1>5 DEF Enable, Goto, GotoWith
<1>6. ASSUME NEW c \in Commands, Verify(c) PROVE CodeOf(d)'
  BY <1>0, <1>6 DEF Verify, Goto, GotoWith
<1>7. ASSUME NEW c \in Commands, StepFails(c) PROVE CodeOf(d)'
  BY <1>0, <1>7 DEF StepFails, AfterFail, Goto, GotoWith
<1>8. ASSUME NEW c \in Commands, UndoService(c) PROVE CodeOf(d)'
  BY <1>0, <1>8 DEF UndoService, Undoing, Goto, GotoWith
<1>9. ASSUME NEW c \in Commands, UndoUnit(c) PROVE CodeOf(d)'
  BY <1>0, <1>9 DEF UndoUnit, Undoing, Goto, GotoWith
<1>10. ASSUME NEW c \in Commands, UndoAccount(c) PROVE CodeOf(d)'
  BY <1>0, <1>10 DEF UndoAccount, Goto, GotoWith
<1>11. ASSUME NEW c \in Commands, Load(c) PROVE CodeOf(d)'
  BY <1>0, <1>11, LoadedCodeHasToken DEF Load, Begins, Goto, GotoWith
<1>12. ASSUME NEW c \in Commands, Unpair(c) PROVE CodeOf(d)'
  BY <1>0, <1>12 DEF Unpair, Begins, Goto, GotoWith
<1>13. ASSUME NEW c \in Commands, Save(c) PROVE CodeOf(d)'
  BY <1>0, <1>13 DEF Save, Goto, GotoWith
<1>14. ASSUME NEW c \in Commands, Rename(c) PROVE CodeOf(d)'
  BY <1>0, <1>14 DEF Rename, Goto, GotoWith
<1>15. ASSUME NEW c \in Commands, PrintCode(c) PROVE CodeOf(d)'
  BY <1>0, <1>15 DEF PrintCode, Goto, GotoWith
<1>16. ASSUME NEW c \in Commands, StopService(c) PROVE CodeOf(d)'
  BY <1>0, <1>16 DEF StopService, Begins, Goto, GotoWith
<1>17. ASSUME NEW c \in Commands, WipeEnv(c) PROVE CodeOf(d)'
  BY <1>0, <1>17 DEF WipeEnv, Goto, GotoWith
<1>18. ASSUME NEW c \in Commands, Kill(c) PROVE CodeOf(d)'
  BY <1>0, <1>18 DEF Kill, Goto, GotoWith
<1>19. ASSUME NEW c \in Commands, Seed(c) PROVE CodeOf(d)'
  BY <1>0, <1>19 DEF Seed, Goto, GotoWith
<1>20. CASE Restart
  BY <1>0, <1>20 DEF Restart
<1>21. CASE ManualStart
  BY <1>0, <1>21 DEF ManualStart
<1>22. CASE Reboot
  BY <1>0, <1>22 DEF Reboot, Running
<1>23. CASE RemoveEnvByHand
  BY <1>0, <1>23 DEF RemoveEnvByHand
<1>24. CASE DeleteMember
  BY <1>0, <1>24 DEF DeleteMember
<1>25. CASE NewAccount
  BY <1>0, <1>25 DEF NewAccount
<1>26. CASE UNCHANGED vars
  BY <1>0, <1>26 DEF vars
<1> QED
  BY <1>1, <1>2, <1>3, <1>4, <1>5, <1>6, <1>7, <1>8, <1>9, <1>10, <1>11,
     <1>12, <1>13, <1>14, <1>15, <1>16, <1>17, <1>18, <1>19, <1>20, <1>21, <1>22,
     <1>23, <1>24, <1>25, <1>26 DEF Next

\* Every step keeps the types.
LEMMA TypeStep == TypeOK /\ CodeHasToken /\ [Next]_vars => TypeOK'
<1> SUFFICES ASSUME TypeOK, CodeHasToken, [Next]_vars PROVE TypeOK'
  OBVIOUS
<1>0. Unpaired \in Settings
  BY DEF Unpaired, Settings
<1> USE <1>0 DEF TypeOK
<1>1. ASSUME NEW c \in Commands, EnsureUser(c) PROVE TypeOK'
  BY <1>1 DEF EnsureUser, Begins, Goto, GotoWith, Steps, Over, profile, outcome
<1>2. ASSUME NEW c \in Commands, Prepare(c) PROVE TypeOK'
  BY <1>2, SettingsWritten, AfterFailIsAStep
  DEF Prepare, Goto, GotoWith, Steps, host, profile, history, outcome
<1>3. ASSUME NEW c \in Commands, WriteEnv(c) PROVE TypeOK'
  BY <1>3 DEF WriteEnv, Goto, GotoWith, Steps, host, history, outcome
<1>4. ASSUME NEW c \in Commands, RenderUnit(c) PROVE TypeOK'
  BY <1>4 DEF RenderUnit, Goto, GotoWith, Steps, profile, history, outcome
<1>5. ASSUME NEW c \in Commands, Enable(c) PROVE TypeOK'
  BY <1>5, SettingsWritten DEF Enable, Goto, GotoWith, Steps, profile, outcome
<1>6. ASSUME NEW c \in Commands, Verify(c) PROVE TypeOK'
  BY <1>6 DEF Verify, Goto, GotoWith, Steps, host, profile, history, outcome
<1>7. ASSUME NEW c \in Commands, StepFails(c) PROVE TypeOK'
  BY <1>7, AfterFailIsAStep DEF StepFails, Goto, GotoWith, host, profile, history, outcome
<1>8. ASSUME NEW c \in Commands, UndoService(c) PROVE TypeOK'
  BY <1>8 DEF UndoService, Goto, GotoWith, Steps, Undoing, profile, history, outcome
<1>9. ASSUME NEW c \in Commands, UndoUnit(c) PROVE TypeOK'
  BY <1>9 DEF UndoUnit, Goto, GotoWith, Steps, Undoing, profile
<1>10. ASSUME NEW c \in Commands, UndoAccount(c) PROVE TypeOK'
  BY <1>10 DEF UndoAccount, Deleted, Goto, GotoWith, Steps, Over, profile
<1>11. ASSUME NEW c \in Commands, Load(c) PROVE TypeOK'
  <2>1. draft' \in [Commands -> Settings]
    BY <1>11, LoadedCodeHasToken DEF Load, GotoWith
  <2>2. pc' \in [Commands -> Steps] /\ apart' \in BOOLEAN
    BY <1>11 DEF Load, Goto, GotoWith, Begins, Steps, history, outcome
  <2> QED
    BY <1>11, <2>1, <2>2 DEF Load, Begins, host, profile, history, outcome
<1>12. ASSUME NEW c \in Commands, Unpair(c) PROVE TypeOK'
  BY <1>12, SettingsWritten DEF Unpair, Begins, Goto, GotoWith, Steps, host, profile, outcome
<1>13. ASSUME NEW c \in Commands, Save(c) PROVE TypeOK'
  <2>1. Kept(c) \in Settings
    BY SettingsWritten DEF Kept, Settings
  <2> QED
    BY <1>13, <2>1 DEF Save, Goto, GotoWith, Steps, host, history, outcome
<1>14. ASSUME NEW c \in Commands, Rename(c) PROVE TypeOK'
  BY <1>14 DEF Rename, Goto, GotoWith, Steps, Over, host, profile, history, outcome
<1>15. ASSUME NEW c \in Commands, PrintCode(c) PROVE TypeOK'
  <2>1. draft[c].token \in Tokens
    BY <1>15 DEF PrintCode, CodeHasToken, CodeOf, Over
  <2> QED
    BY <1>15, <2>1 DEF PrintCode, Goto, GotoWith, Steps, Over, host, profile, outcome
<1>16. ASSUME NEW c \in Commands, StopService(c) PROVE TypeOK'
  BY ZenonT(60), <1>16 DEF StopService, Begins, Goto, GotoWith, Steps, Over, profile, outcome
<1>17. ASSUME NEW c \in Commands, WipeEnv(c) PROVE TypeOK'
  BY <1>17 DEF WipeEnv, Goto, GotoWith, Steps, Over, host, outcome
<1>18. ASSUME NEW c \in Commands, Kill(c) PROVE TypeOK'
  BY <1>18 DEF Kill, Goto, GotoWith, Steps, Over, host, profile, history, outcome
<1>19. ASSUME NEW c \in Commands, Seed(c) PROVE TypeOK'
  BY <1>19, SettingsWritten DEF Seed, Goto, GotoWith, Steps, Over, host
<1>20. CASE Restart
  BY <1>20, SettingsWritten DEF Restart, Loaded, Settings, Unpaired, host, profile, history, outcome
<1>21. CASE ManualStart
  BY <1>21 DEF ManualStart, Loaded, Settings, Unpaired, host, profile, history, outcome
<1>22. CASE Reboot
  BY <1>22 DEF Reboot, Loaded, Settings, Unpaired, Steps, Over, host, profile, history, outcome
<1>23. CASE RemoveEnvByHand
  BY <1>23 DEF RemoveEnvByHand, host, history, outcome
<1>24. CASE DeleteMember
  BY <1>24 DEF DeleteMember, Deleted
<1>25. CASE NewAccount
  BY <1>25 DEF NewAccount, profile, history, outcome
<1>26. CASE UNCHANGED vars
  BY <1>26 DEF vars, host, profile, history, outcome
<1> QED
  BY <1>1, <1>2, <1>3, <1>4, <1>5, <1>6, <1>7, <1>8, <1>9, <1>10, <1>11, <1>12,
     <1>13, <1>14, <1>15, <1>16, <1>17, <1>18, <1>19, <1>20, <1>21, <1>22, <1>23,
     <1>24, <1>25, <1>26 DEF Next

\* Every file, table and step keeps its type: what a command writes are settings,
\* and a command is always at a step of its script.
THEOREM MembersTyped == Spec => []TypeOK
<1>1. Init => TypeOK
  <2> SUFFICES ASSUME Init PROVE TypeOK
    OBVIOUS
  <2>1. Unpaired \in Settings
    BY DEF Unpaired, Settings
  <2>2. draft \in [Commands -> Settings]
    BY <2>1 DEF Init
  <2> QED
    BY <2>2 DEF Init, TypeOK, Steps, Over
<1>2. Init => CodeHasToken
  BY DEF Init, CodeHasToken, CodeOf, Over
<1>3. TypeOK /\ CodeHasToken /\ [Next]_vars => (TypeOK /\ CodeHasToken)'
  BY TypeStep, CodeStep
<1> QED
  BY <1>1, <1>2, <1>3, PTL DEF Spec

\* While no two commands have overlapped, at most one is running.
Alone == apart => \A c, e \in Commands : Running(c) /\ Running(e) => c = e

\* Every step keeps it: a command that begins beside another ends it.
LEMMA AloneStep == TypeOK /\ Alone /\ [Next]_vars => Alone'
<1> SUFFICES ASSUME TypeOK, Alone, [Next]_vars, apart',
                    NEW d \in Commands, NEW e \in Commands, Running(d)', Running(e)'
             PROVE  d = e
  BY DEF Alone
<1> USE DEF TypeOK, Alone, Running, Over, Undoing
<1>1. ASSUME NEW c \in Commands, EnsureUser(c) PROVE d = e
  BY ZenonT(60), <1>1 DEF EnsureUser, Begins, Goto, GotoWith, NoneRunning, history
<1>2. ASSUME NEW c \in Commands, Prepare(c) PROVE d = e
  BY <1>2 DEF Prepare, Goto, GotoWith, history, AfterFail
<1>3. ASSUME NEW c \in Commands, WriteEnv(c) PROVE d = e
  BY <1>3 DEF WriteEnv, Goto, GotoWith, history
<1>4. ASSUME NEW c \in Commands, RenderUnit(c) PROVE d = e
  BY <1>4 DEF RenderUnit, Goto, GotoWith, history
<1>5. ASSUME NEW c \in Commands, Enable(c) PROVE d = e
  BY <1>5 DEF Enable, Goto, GotoWith, history
<1>6. ASSUME NEW c \in Commands, Verify(c) PROVE d = e
  BY <1>6 DEF Verify, Goto, GotoWith, history
<1>7. ASSUME NEW c \in Commands, StepFails(c) PROVE d = e
  BY <1>7 DEF StepFails, Goto, GotoWith, history, AfterFail
<1>8. ASSUME NEW c \in Commands, UndoService(c) PROVE d = e
  BY <1>8 DEF UndoService, Goto, GotoWith, history
<1>9. ASSUME NEW c \in Commands, UndoUnit(c) PROVE d = e
  BY <1>9 DEF UndoUnit, Goto, GotoWith, history
<1>10. ASSUME NEW c \in Commands, UndoAccount(c) PROVE d = e
  BY <1>10 DEF UndoAccount, Goto, GotoWith, history
<1>11. ASSUME NEW c \in Commands, Load(c) PROVE d = e
  BY <1>11 DEF Load, Begins, Goto, GotoWith, NoneRunning, history
<1>12. ASSUME NEW c \in Commands, Unpair(c) PROVE d = e
  BY <1>12 DEF Unpair, Begins, Goto, GotoWith, NoneRunning, history
<1>13. ASSUME NEW c \in Commands, Save(c) PROVE d = e
  BY <1>13 DEF Save, Goto, GotoWith, history
<1>14. ASSUME NEW c \in Commands, Rename(c) PROVE d = e
  BY <1>14 DEF Rename, Goto, GotoWith, history
<1>15. ASSUME NEW c \in Commands, PrintCode(c) PROVE d = e
  BY <1>15 DEF PrintCode, Goto, GotoWith, history
<1>16. ASSUME NEW c \in Commands, StopService(c) PROVE d = e
  BY <1>16 DEF StopService, Begins, Goto, GotoWith, NoneRunning, history
<1>17. ASSUME NEW c \in Commands, WipeEnv(c) PROVE d = e
  BY <1>17 DEF WipeEnv, Goto, GotoWith, history
<1>18. ASSUME NEW c \in Commands, Kill(c) PROVE d = e
  BY <1>18 DEF Kill, Goto, GotoWith, history
<1>19. ASSUME NEW c \in Commands, Seed(c) PROVE d = e
  BY <1>19 DEF Seed, Goto, GotoWith, history
<1>20. CASE Restart
  BY <1>20 DEF Restart, host, history
<1>21. CASE ManualStart
  BY <1>21 DEF ManualStart, host, history
<1>22. CASE Reboot
  BY <1>22 DEF Reboot, host, history
<1>23. CASE RemoveEnvByHand
  BY <1>23 DEF RemoveEnvByHand, host, history
<1>24. CASE DeleteMember
  BY <1>24 DEF DeleteMember, NoneRunning
<1>25. CASE NewAccount
  BY <1>25 DEF NewAccount, NoneRunning, history
<1>26. CASE UNCHANGED vars
  BY <1>26 DEF vars, host, history
<1> QED
  BY <1>1, <1>2, <1>3, <1>4, <1>5, <1>6, <1>7, <1>8, <1>9, <1>10, <1>11,
     <1>12, <1>13, <1>14, <1>15, <1>16, <1>17, <1>18, <1>19, <1>20, <1>21, <1>22,
     <1>23, <1>24, <1>25, <1>26 DEF Next

\* The run whose useradd made the account is the only one that may delete it: a
\* command that has the hook set while it runs made the present account; it
\* undoes its run only with the hook set, begins without it and has cleared it
\* when it comes to the pairing code. As long as commands do not overlap, nobody
\* holds a code of an account whose run can still be undone.
OwnerOf(c) ==
  /\ Running(c) /\ hook[c] => account = c
  /\ pc[c] \in Undoing => hook[c]
  /\ pc[c] \in {"idle", "load", "save", "rename", "print", "wipe"} => ~hook[c]
  /\ apart /\ pc[c] \in {"save", "rename", "print"} => account # NoAccount
  /\ apart /\ Running(c) /\ hook[c] => handed = {}
  /\ apart /\ account = NoAccount => handed = {}
OwnerInv == \A c \in Commands : OwnerOf(c)

\* Every step keeps it, whatever runs beside: useradd fails while an account
\* exists, and what deletes an account is its maker or happens when nothing runs.
LEMMA OwnerStep == TypeOK /\ Alone /\ OwnerInv /\ [Next]_vars => OwnerInv'
<1> SUFFICES ASSUME TypeOK, Alone, OwnerInv, [Next]_vars, NEW d \in Commands
             PROVE  OwnerOf(d)'
  BY DEF OwnerInv
<1>0. OwnerOf(d)
  BY DEF OwnerInv
<1> USE DEF TypeOK, Running, Over, Undoing
<1>1. ASSUME NEW c \in Commands, EnsureUser(c) PROVE OwnerOf(d)'
  <2>1. OwnerOf(c)
    BY DEF OwnerInv
  <2>2. CASE d = c
    BY <1>0, <1>1, <2>2, ConstantsAssumption DEF OwnerOf, EnsureUser, Begins, NoneRunning, Goto, GotoWith, host, history
  <2>3. CASE d # c
    BY <1>0, <1>1, <2>1, <2>3, ConstantsAssumption
    DEF Alone, OwnerOf, EnsureUser, Begins, NoneRunning, Goto, GotoWith, host, history
  <2> QED
    BY <2>2, <2>3
<1>2. ASSUME NEW c \in Commands, Prepare(c) PROVE OwnerOf(d)'
  BY <1>0, <1>2, ConstantsAssumption DEF OwnerOf, Prepare, AfterFail, Goto, GotoWith, host, history
<1>3. ASSUME NEW c \in Commands, WriteEnv(c) PROVE OwnerOf(d)'
  BY <1>0, <1>3, ConstantsAssumption DEF OwnerOf, WriteEnv, Goto, GotoWith, host, history
<1>4. ASSUME NEW c \in Commands, RenderUnit(c) PROVE OwnerOf(d)'
  BY <1>0, <1>4, ConstantsAssumption DEF OwnerOf, RenderUnit, Goto, GotoWith, host, history
<1>5. ASSUME NEW c \in Commands, Enable(c) PROVE OwnerOf(d)'
  BY <1>0, <1>5, ConstantsAssumption DEF OwnerOf, Enable, Goto, GotoWith, host, history
<1>6. ASSUME NEW c \in Commands, Verify(c) PROVE OwnerOf(d)'
  BY <1>0, <1>6, ConstantsAssumption DEF OwnerOf, Verify, Goto, GotoWith, host, history
<1>7. ASSUME NEW c \in Commands, StepFails(c) PROVE OwnerOf(d)'
  BY <1>0, <1>7, ConstantsAssumption DEF OwnerOf, StepFails, AfterFail, Goto, GotoWith, host, history
<1>8. ASSUME NEW c \in Commands, UndoService(c) PROVE OwnerOf(d)'
  BY <1>0, <1>8, ConstantsAssumption DEF OwnerOf, UndoService, Goto, GotoWith, host, history
<1>9. ASSUME NEW c \in Commands, UndoUnit(c) PROVE OwnerOf(d)'
  BY <1>0, <1>9, ConstantsAssumption DEF OwnerOf, UndoUnit, Goto, GotoWith, host, history
<1>10. ASSUME NEW c \in Commands, UndoAccount(c) PROVE OwnerOf(d)'
  <2>1. OwnerOf(c)
    BY DEF OwnerInv
  <2>2. CASE d = c
    BY <1>0, <1>10, <2>2, ConstantsAssumption DEF OwnerOf, UndoAccount, Deleted, Goto, GotoWith, host, history
  <2>3. CASE d # c
    BY <1>0, <1>10, <2>1, <2>3, ConstantsAssumption
    DEF Alone, OwnerOf, UndoAccount, Deleted, Goto, GotoWith, host, history
  <2> QED
    BY <2>2, <2>3
<1>11. ASSUME NEW c \in Commands, Load(c) PROVE OwnerOf(d)'
  <2>1. OwnerOf(c)
    BY DEF OwnerInv
  <2>2. CASE d = c
    BY <1>0, <1>11, <2>2, ConstantsAssumption DEF OwnerOf, Load, Begins, NoneRunning, Goto, GotoWith, host, history
  <2>3. CASE d # c
    BY <1>0, <1>11, <2>1, <2>3, ConstantsAssumption
    DEF Alone, OwnerOf, Load, Begins, NoneRunning, Goto, GotoWith, host, history
  <2> QED
    BY <2>2, <2>3
<1>12. ASSUME NEW c \in Commands, Unpair(c) PROVE OwnerOf(d)'
  BY <1>0, <1>12, ConstantsAssumption DEF OwnerOf, Unpair, Begins, NoneRunning, Goto, GotoWith, host, history
<1>13. ASSUME NEW c \in Commands, Save(c) PROVE OwnerOf(d)'
  BY <1>0, <1>13, ConstantsAssumption DEF OwnerOf, Save, Goto, GotoWith, host, history
<1>14. ASSUME NEW c \in Commands, Rename(c) PROVE OwnerOf(d)'
  BY <1>0, <1>14, ConstantsAssumption DEF OwnerOf, Rename, Goto, GotoWith, host, history
<1>15. ASSUME NEW c \in Commands, PrintCode(c) PROVE OwnerOf(d)'
  <2>1. OwnerOf(c)
    BY DEF OwnerInv
  <2>2. CASE d = c
    BY <1>0, <1>15, <2>2, ConstantsAssumption DEF OwnerOf, PrintCode, Goto, GotoWith, host, history
  <2>3. CASE d # c
    BY <1>0, <1>15, <2>1, <2>3, ConstantsAssumption
    DEF Alone, OwnerOf, PrintCode, Goto, GotoWith, host, history
  <2> QED
    BY <2>2, <2>3
<1>16. ASSUME NEW c \in Commands, StopService(c) PROVE OwnerOf(d)'
  BY <1>0, <1>16, ConstantsAssumption DEF OwnerOf, StopService, Begins, NoneRunning, Goto, GotoWith, host, history
<1>17. ASSUME NEW c \in Commands, WipeEnv(c) PROVE OwnerOf(d)'
  BY <1>0, <1>17, ConstantsAssumption DEF OwnerOf, WipeEnv, Goto, GotoWith, host, history
<1>18. ASSUME NEW c \in Commands, Kill(c) PROVE OwnerOf(d)'
  BY <1>0, <1>18, ConstantsAssumption DEF OwnerOf, Kill, Goto, GotoWith, host, history
<1>19. ASSUME NEW c \in Commands, Seed(c) PROVE OwnerOf(d)'
  BY <1>0, <1>19, ConstantsAssumption DEF OwnerOf, Seed, Goto, GotoWith, host, history
<1>20. CASE Restart
  BY <1>0, <1>20, ConstantsAssumption DEF OwnerOf, Restart, host, history
<1>21. CASE ManualStart
  BY <1>0, <1>21, ConstantsAssumption DEF OwnerOf, ManualStart, host, history
<1>22. CASE Reboot
  BY <1>0, <1>22, ConstantsAssumption DEF OwnerOf, Reboot, host, history
<1>23. CASE RemoveEnvByHand
  BY <1>0, <1>23, ConstantsAssumption DEF OwnerOf, RemoveEnvByHand, host, history
<1>24. CASE DeleteMember
  BY <1>0, <1>24, ConstantsAssumption DEF OwnerOf, DeleteMember, Deleted, NoneRunning
<1>25. CASE NewAccount
  BY <1>0, <1>25, ConstantsAssumption DEF OwnerOf, NewAccount, NoneRunning, history
<1>26. CASE UNCHANGED vars
  BY <1>0, <1>26, ConstantsAssumption DEF OwnerOf, vars, host, history
<1> QED
  BY <1>1, <1>2, <1>3, <1>4, <1>5, <1>6, <1>7, <1>8, <1>9, <1>10, <1>11,
     <1>12, <1>13, <1>14, <1>15, <1>16, <1>17, <1>18, <1>19, <1>20, <1>21, <1>22,
     <1>23, <1>24, <1>25, <1>26 DEF Next

\* A rollback deletes only the account its own run made, however many runs for
\* the label go on at once and wherever they fail or are killed; and it never
\* deletes a member who holds a pairing code unless runs overlapped.
THEOREM RollbackIsOwn == Spec => []RollbackUndoesOwnRun
<1>1. Init => OwnerInv /\ Alone
  BY DEF Init, OwnerInv, OwnerOf, Alone, Running, Over, Undoing
<1>2. OwnerInv => RollbackUndoesOwnRun
  BY DEF OwnerInv, OwnerOf, RollbackUndoesOwnRun, Running, Over, Undoing
<1> QED
  BY <1>1, <1>2, AloneStep, OwnerStep, MembersTyped, PTL DEF Spec
-----------------------------------------------------------------------------
(* A revoked token stays out.  A token goes from a draft to the temporary  *)
(* file, to .env and from there to other drafts and to the gateway; the    *)
(* proof looks at what a step does to these and at nothing else.           *)

\* A token that is anywhere was drawn by a command that has begun.
Begun(x) == x \in Tokens => pc[x[1]] # "idle"
DrawnByBegun ==
  /\ Begun(Loaded.token)
  /\ tmp # NoFile => Begun(tmp.token)
  /\ \A c \in Commands : Begun(draft[c].token)
  /\ \A x \in handed \union revoked : Begun(x)

\* A command that is over has nothing in mind.
NothingInMind == \A c \in Commands : ~Running(c) => draft[c].token = NoToken

\* What a command that is under way has read, may still draw or is about to put
\* in place is not revoked; one that revokes has stopped the gateway.
RunningClean(c) ==
  /\ draft[c].token \notin revoked
  /\ \A by \in {"script", "cli"} : <<c, by>> \notin revoked
  /\ pc[c] = "rename" /\ tmp # NoFile => tmp.token \notin revoked
  /\ pc[c] = "wipe" => gateway = Down

Clean ==
  apart => /\ Loaded.token \notin revoked
           /\ gateway # Down => gateway.token \notin revoked
           /\ \A c \in Commands : Running(c) => RunningClean(c)

RevokedInv ==
  /\ TypeOK /\ CodeHasToken /\ Alone
  /\ DrawnByBegun /\ NothingInMind /\ Clean
-----------------------------------------------------------------------------
(* What a step does to the tokens.                                         *)

CommandStep(c) ==
  /\ \A d \in Commands \ {c} : pc'[d] = pc[d] /\ draft'[d] = draft[d]
  /\ (Running(c) \/ pc[c] = "idle") /\ pc'[c] # "idle"
  /\ apart' => apart /\ (Running(c) \/ NoneRunning)
  /\ draft'[c].token \in {NoToken, draft[c].token, Loaded.token, <<c, "script">>, <<c, "cli">>}
  /\ ~Running(c)' => draft'[c].token = NoToken
  /\ \/ Loaded'.token \in {NoToken, Loaded.token}
     \/ Running(c) /\ Loaded'.token = draft[c].token
     \/ pc[c] = "rename" /\ tmp # NoFile /\ Loaded'.token = tmp.token
  /\ \/ tmp' \in {tmp, NoFile}
     \/ tmp'.token = draft[c].token
  /\ pc'[c] = "rename" => Running(c) /\ tmp'.token = draft[c].token
  /\ gateway' \in {gateway, Down} \/ (gateway' = Loaded /\ pc'[c] = "verify")
  /\ pc'[c] = "wipe" => gateway' = Down
  /\ handed' \subseteq handed \union {draft[c].token}
  /\ \/ revoked' = revoked
     \/ /\ pc[c] = "wipe" /\ pc'[c] = "done"
        /\ revoked' = revoked \union handed
        /\ gateway' = gateway /\ Loaded'.token = NoToken

HostStep ==
  /\ apart' = apart
  /\ \/ UNCHANGED <<pc, draft>>
     \/ \A c \in Commands : /\ pc'[c] = "idle" => pc[c] = "idle"
                            /\ ~Running(c)' /\ draft'[c].token = NoToken
  /\ Loaded'.token \in {NoToken, Loaded.token}
  /\ tmp' \in {tmp, NoFile}
  /\ \/ gateway' \in {gateway, Down}
     \/ gateway' = Loaded /\ (gateway # Down \/ \A c \in Commands : ~Running(c)')
  /\ handed' \subseteq handed /\ revoked' = revoked

LEMMA NothingToken == Unpaired.token = NoToken
BY DEF Unpaired

LEMMA ProvisionSteps ==
  ASSUME TypeOK, NEW c \in Commands,
         \/ EnsureUser(c) \/ Prepare(c) \/ WriteEnv(c) \/ Seed(c)
         \/ RenderUnit(c) \/ Enable(c) \/ Verify(c) \/ StepFails(c)
         \/ UndoService(c) \/ UndoUnit(c) \/ UndoAccount(c)
  PROVE  CommandStep(c)
<1> USE NothingToken DEF TypeOK, CommandStep, Running, Over, Undoing, Goto, GotoWith, host,
        profile, history
<1>1. CASE EnsureUser(c)
  BY <1>1 DEF EnsureUser, Begins, Loaded
<1>2. CASE Prepare(c)
  <2>1. EnvOf(c).token \in {Loaded.token, <<c, "script">>}
    BY DEF EnvOf, TokenFor, NewToken, Loaded
  <2> QED BY <1>2, <2>1 DEF Prepare, AfterFail, Loaded
<1>3. CASE WriteEnv(c)
  <2>1. Loaded' = draft[c]
    BY <1>3, ConstantsAssumption DEF WriteEnv, Loaded
  <2> QED BY <1>3, <2>1 DEF WriteEnv
<1>4. CASE Seed(c)
  <2>1. Loaded' \in {Merged(c), Loaded} /\ Merged(c).token = Loaded.token
    BY <1>4, SettingsWritten, ConstantsAssumption DEF Seed, Loaded, Merged, Settings
  <2> QED BY <1>4, <2>1 DEF Seed
<1>5. CASE RenderUnit(c) \/ Enable(c) \/ Verify(c)
  BY <1>5 DEF RenderUnit, Enable, Verify, Loaded
<1>6. CASE StepFails(c)
  BY <1>6 DEF StepFails, AfterFail, Loaded
<1>7. CASE UndoService(c) \/ UndoUnit(c) \/ UndoAccount(c)
  BY <1>7 DEF UndoService, UndoUnit, UndoAccount, Deleted, Loaded
<1> QED BY <1>1, <1>2, <1>3, <1>4, <1>5, <1>6, <1>7

LEMMA OtherSteps ==
  ASSUME TypeOK, NEW c \in Commands,
         \/ Load(c) \/ Unpair(c) \/ Save(c) \/ Rename(c) \/ PrintCode(c)
         \/ StopService(c) \/ WipeEnv(c) \/ Kill(c)
  PROVE  CommandStep(c)
<1> USE NothingToken DEF TypeOK, CommandStep, Running, Over, Undoing, Goto, GotoWith, host,
        profile, history
<1>1. CASE Load(c)
  <2> DEFINE token == IF Loaded.token = NoToken THEN NewToken(c, "cli") ELSE Loaded.token
             code == [Loaded EXCEPT !.token = token, !.hosts = @ \union IngressOf(c)]
  <2>1. draft'[c] = code
    BY <1>1 DEF Load
  <2>2. code.token \in {Loaded.token, <<c, "cli">>}
    BY SettingsWritten DEF Settings, NewToken
  <2> HIDE DEF code
  <2>3. pc'[c] \in {"print", "save"} /\ Loaded' = Loaded
    BY <1>1 DEF Load, Loaded
  <2>4. apart' => apart /\ (Running(c) \/ NoneRunning)
    BY <1>1 DEF Load, Begins
  <2> QED BY <1>1, <2>1, <2>2, <2>3, <2>4 DEF Load, Begins
<1>2. CASE Unpair(c)
  BY <1>2 DEF Unpair, Begins, Loaded
<1>3. CASE Save(c)
  <2>1. Kept(c).token = draft[c].token
    BY DEF Kept, Settings
  <2> QED BY <1>3, <2>1 DEF Save, Loaded
<1>4. CASE Rename(c)
  BY <1>4 DEF Rename, Loaded
<1>5. CASE PrintCode(c)
  BY <1>5 DEF PrintCode, Loaded
<1>6. CASE StopService(c)
  BY <1>6 DEF StopService, Begins, Loaded
<1>7. CASE WipeEnv(c)
  BY <1>7 DEF WipeEnv, Loaded
<1>8. CASE Kill(c)
  BY <1>8 DEF Kill, Loaded
<1> QED BY <1>1, <1>2, <1>3, <1>4, <1>5, <1>6, <1>7, <1>8

LEMMA HostSteps ==
  ASSUME TypeOK,
         \/ Restart \/ ManualStart \/ Reboot
         \/ RemoveEnvByHand \/ DeleteMember \/ NewAccount \/ UNCHANGED vars
  PROVE  HostStep
<1> USE NothingToken DEF TypeOK, HostStep, Loaded, host, profile, history
<1>1. CASE Restart
  BY <1>1 DEF Restart
<1>2. CASE ManualStart
  BY <1>2 DEF ManualStart, NoneRunning, Running
<1>3. CASE Reboot
  BY <1>3 DEF Reboot, Running, Over
<1>4. CASE RemoveEnvByHand \/ DeleteMember \/ NewAccount
  BY <1>4 DEF RemoveEnvByHand, DeleteMember, Deleted, NewAccount
<1>5. CASE UNCHANGED vars
  BY <1>5 DEF vars
<1> QED BY <1>1, <1>2, <1>3, <1>4, <1>5
-----------------------------------------------------------------------------
(* Either keeps the revoked tokens out.                                    *)

LEMMA TokensTyped ==
  ASSUME TypeOK
  PROVE  NoToken \notin revoked /\ NoToken \notin Tokens
         /\ \A x \in Tokens : x[1] \in Commands
BY ConstantsAssumption DEF TypeOK, Tokens

\* While no commands have overlapped, the others are not under way.
LEMMA OthersOver ==
  ASSUME RevokedInv, NEW c \in Commands, CommandStep(c), apart',
         NEW d \in Commands \ {c}
  PROVE  apart /\ ~Running(d)'
BY DEF RevokedInv, CommandStep, Alone, NoneRunning, Running

LEMMA CommandClean ==
  ASSUME RevokedInv, NEW c \in Commands, CommandStep(c), TypeOK'
  PROVE  DrawnByBegun' /\ NothingInMind' /\ Clean'
<1>1. /\ NoToken \notin revoked /\ NoToken \notin Tokens /\ NoToken \notin revoked'
      /\ \A x \in Tokens : x[1] \in Commands
  BY TokensTyped DEF RevokedInv, TypeOK
<1>2. \A x : Begun(x) => Begun(x)'
  BY <1>1 DEF Begun, CommandStep
<1>3. Begun(NoToken)' /\ Begun(<<c, "script">>)' /\ Begun(<<c, "cli">>)'
  BY <1>1 DEF Begun, CommandStep
<1>4. DrawnByBegun'
  <2>1. Begun(Loaded.token)'
    BY <1>2, <1>3 DEF RevokedInv, DrawnByBegun, CommandStep
  <2>2. (tmp # NoFile => Begun(tmp.token))'
    BY <1>2, <1>3 DEF RevokedInv, DrawnByBegun, CommandStep
  <2>3. \A d \in Commands : Begun(draft[d].token)'
    BY <1>2, <1>3 DEF RevokedInv, DrawnByBegun, CommandStep
  <2>4. \A x \in handed' \union revoked' : Begun(x)'
    BY <1>2 DEF RevokedInv, DrawnByBegun, CommandStep
  <2> QED BY <2>1, <2>2, <2>3, <2>4 DEF DrawnByBegun
<1>5. NothingInMind'
  <2> SUFFICES ASSUME NEW d \in Commands, ~Running(d)' PROVE draft'[d].token = NoToken
    BY DEF NothingInMind
  <2>1. CASE d = c
    BY <2>1 DEF CommandStep
  <2>2. CASE d # c
    BY <2>2 DEF RevokedInv, NothingInMind, CommandStep, Running
  <2> QED BY <2>1, <2>2
<1>6. ASSUME apart' PROVE /\ Loaded'.token \notin revoked'
                          /\ gateway' # Down => gateway'.token \notin revoked'
                          /\ Running(c)' => RunningClean(c)'
  <2>1. apart /\ (Running(c) => RunningClean(c)) /\ Loaded.token \notin revoked
        /\ (gateway # Down => gateway.token \notin revoked)
    BY <1>6 DEF RevokedInv, Clean, CommandStep
  <2>2. CASE revoked' = revoked
    <3>1. draft[c].token \notin revoked
      BY <1>1, <2>1 DEF RevokedInv, NothingInMind, RunningClean
    <3>2. \A by \in {"script", "cli"} : <<c, by>> \notin revoked
      <4>1. CASE Running(c)
        BY <2>1, <4>1 DEF RunningClean
      <4>2. CASE ~Running(c) /\ pc[c] = "idle"
        BY <4>2 DEF RevokedInv, DrawnByBegun, Begun, Tokens
      <4> QED BY <4>1, <4>2 DEF CommandStep
    <3>3. Loaded'.token \notin revoked
      BY <1>1, <2>1, <3>1 DEF CommandStep, Running, Over, RunningClean
    <3> QED BY <1>1, <2>1, <2>2, <3>1, <3>2, <3>3 DEF CommandStep, RunningClean
  <2>3. CASE revoked' # revoked
    <3>1. pc[c] = "wipe" /\ pc'[c] = "done" /\ gateway' = gateway /\ Loaded'.token = NoToken
      BY <2>3 DEF CommandStep
    <3> QED BY <1>1, <2>1, <3>1 DEF Running, Over, RunningClean
  <2> QED BY <2>2, <2>3
<1>7. Clean'
  BY <1>6, OthersOver DEF Clean
<1> QED BY <1>4, <1>5, <1>7

LEMMA HostClean ==
  ASSUME RevokedInv, HostStep
  PROVE  DrawnByBegun' /\ NothingInMind' /\ Clean'
<1>1. NoToken \notin revoked /\ NoToken \notin Tokens /\ \A x \in Tokens : x[1] \in Commands
  BY TokensTyped DEF RevokedInv
<1>2. Begun(NoToken)' /\ \A x : Begun(x) => Begun(x)'
  BY <1>1 DEF Begun, HostStep
<1>3. DrawnByBegun'
  BY <1>2 DEF RevokedInv, DrawnByBegun, HostStep
<1>4. NothingInMind'
  BY DEF RevokedInv, NothingInMind, HostStep, Running
<1>5. Clean'
  BY <1>1 DEF RevokedInv, Clean, RunningClean, HostStep, Running
<1> QED BY <1>3, <1>4, <1>5

LEMMA RevokedStep == RevokedInv /\ [Next]_vars => RevokedInv'
<1> SUFFICES ASSUME RevokedInv, [Next]_vars PROVE RevokedInv'
  OBVIOUS
<1>1. TypeOK' /\ CodeHasToken' /\ Alone'
  BY TypeStep, CodeStep, AloneStep DEF RevokedInv
<1>2. HostStep \/ \E c \in Commands : CommandStep(c)
  BY ProvisionSteps, OtherSteps, HostSteps DEF RevokedInv, Next
<1> QED BY <1>1, <1>2, CommandClean, HostClean DEF RevokedInv

LEMMA RevokedInit == Init => RevokedInv
<1> SUFFICES ASSUME Init PROVE RevokedInv
  OBVIOUS
<1>1. TypeOK
  BY DEF Init, TypeOK, Unpaired, Settings, Steps, Over
<1>2. CodeHasToken /\ Alone
  BY DEF Init, CodeHasToken, CodeOf, Alone, Running, Over
<1>3. /\ Loaded.token = NoToken /\ tmp = NoFile /\ gateway = Down
      /\ revoked = {} /\ handed = {}
      /\ \A c \in Commands : draft[c].token = NoToken /\ ~Running(c)
  BY NothingToken DEF Init, Loaded, Running, Over
<1> QED BY <1>1, <1>2, <1>3, TokensTyped
        DEF RevokedInv, DrawnByBegun, Begun, NothingInMind, Clean

\* Once a revocation has reported success, no gateway and no .env has a token
\* handed out before it again, over restarts, reboots, failures and later
\* commands, as long as commands do not overlap.
THEOREM RevokedForGood == Spec => []RevokedStaysOut
<1>1. RevokedInv => RevokedStaysOut
  BY DEF RevokedInv, Clean, RevokedStaysOut, Loaded
<1> QED BY RevokedInit, RevokedStep, <1>1, PTL DEF Spec
-----------------------------------------------------------------------------
(* What failed runs and deleted members leave behind.                      *)

\* The account a run made has a unit from the moment its hook is cleared, unless
\* the run was killed or its rollback could not delete the account; the unit that a
\* rollback has removed nobody puts back. Nothing runs without an account, and only
\* a revocation for another person's, if no deleted member's unit is left over.
StageOf(c) ==
  /\ pc[c] = "idle" => account # c
  /\ account = c /\ ~unit => (Running(c) /\ hook[c]) \/ pc[c] = "killed" \/ c \in stuck
  /\ pc[c] \in {"enable", "verify"} => unit
  /\ pc[c] = "undo_account" => ~unit
  /\ Running(c) => account # NoAccount
  /\ Running(c) /\ account = Foreign /\ ~leftover => pc[c] = "wipe"

\* What there is without a member.
NoMember ==
  /\ account = NoAccount => env = NoFile /\ gateway = Down /\ (unit => leftover)
  /\ account = Foreign /\ ~leftover => env = NoFile /\ gateway = Down /\ ~unit

Tidy == apart => NoMember /\ \A c \in Commands : StageOf(c)
TidyInv == TypeOK /\ CodeHasToken /\ Alone /\ OwnerInv /\ Tidy

\* What a step of a command leaves to the others: it makes an account or deletes
\* one, and takes the unit only from its own.
Beside(c) ==
  /\ \A d \in Commands \ {c} : pc'[d] = pc[d] /\ hook'[d] = hook[d]
  /\ Running(c) \/ pc[c] = "idle"
  /\ apart' => apart /\ (Running(c) \/ NoneRunning)
  /\ account' \in {account, c, NoAccount}
  /\ unit => unit' \/ account = c
  /\ stuck \subseteq stuck'

LEMMA BesideTidy ==
  ASSUME TidyInv, NEW c \in Commands, Beside(c), apart', NEW d \in Commands \ {c}
  PROVE  StageOf(d)'
<1>1. apart /\ StageOf(d)
  BY DEF TidyInv, Tidy, Beside
<1>2. ~Running(d) /\ pc'[d] = pc[d] /\ hook'[d] = hook[d]
  BY <1>1 DEF TidyInv, Alone, Beside, NoneRunning
<1>3. ~Running(d)' /\ pc'[d] \notin {"enable", "verify", "undo_account"}
  BY <1>2 DEF Running, Over
<1>4. account' = d => account = d /\ account # c
  BY ConstantsAssumption DEF Beside
<1>5. account' = d /\ unit => unit'
  BY <1>4 DEF Beside
<1>6. d \in stuck => d \in stuck'
  BY DEF Beside
<1> QED BY <1>1, <1>2, <1>3, <1>4, <1>5, <1>6 DEF StageOf, Running

\* A step of a command keeps all others as they are; and, unless commands have
\* overlapped, its own stage and what there is without a member.
Keeps(c) == Beside(c) /\ (apart' => StageOf(c)' /\ NoMember')

LEMMA Ready ==
  ASSUME TidyInv, NEW c \in Commands
  PROVE  /\ TypeOK /\ OwnerOf(c)
         /\ apart => StageOf(c) /\ NoMember
         /\ Foreign # c /\ NoAccount # c /\ Foreign # NoAccount
BY ConstantsAssumption DEF TidyInv, OwnerInv, Tidy

LEMMA ProvisionTidy ==
  ASSUME TidyInv, NEW c \in Commands,
         \/ EnsureUser(c) \/ Prepare(c) \/ WriteEnv(c) \/ Seed(c)
         \/ RenderUnit(c) \/ Enable(c) \/ Verify(c) \/ StepFails(c)
  PROVE  Keeps(c)
<1>0. /\ TypeOK /\ OwnerOf(c)
      /\ apart => StageOf(c) /\ NoMember
      /\ Foreign # c /\ NoAccount # c /\ Foreign # NoAccount
  BY Ready
<1> USE DEF TypeOK, Keeps, Beside, StageOf, NoMember, OwnerOf, Running, Over, Undoing, Goto,
        GotoWith, host, profile, history, outcome
<1>1. CASE EnsureUser(c)
  BY <1>0, <1>1 DEF EnsureUser, Begins, MayAdopt
<1>2. CASE Prepare(c)
  BY <1>0, <1>2 DEF Prepare, AfterFail
<1>3. CASE WriteEnv(c)
  BY <1>0, <1>3 DEF WriteEnv
<1>4. CASE Seed(c)
  BY <1>0, <1>4 DEF Seed
<1>5. CASE RenderUnit(c)
  BY <1>0, <1>5 DEF RenderUnit
<1>6. CASE Enable(c)
  BY <1>0, <1>6 DEF Enable
<1>7. CASE Verify(c)
  BY <1>0, <1>7 DEF Verify
<1>8. CASE StepFails(c)
  BY <1>0, <1>8 DEF StepFails, AfterFail
<1> QED BY <1>1, <1>2, <1>3, <1>4, <1>5, <1>6, <1>7, <1>8

LEMMA OtherTidy ==
  ASSUME TidyInv, NEW c \in Commands,
         \/ UndoService(c) \/ UndoUnit(c) \/ UndoAccount(c)
         \/ Load(c) \/ Unpair(c) \/ Save(c) \/ Rename(c) \/ PrintCode(c)
         \/ StopService(c) \/ WipeEnv(c) \/ Kill(c)
  PROVE  Keeps(c)
<1>0. /\ TypeOK /\ OwnerOf(c)
      /\ apart => StageOf(c) /\ NoMember
      /\ Foreign # c /\ NoAccount # c /\ Foreign # NoAccount
  BY Ready
<1> USE DEF TypeOK, Keeps, Beside, StageOf, NoMember, OwnerOf, Running, Over, Undoing, Goto,
        GotoWith, host, profile, history, outcome
<1>1. CASE UndoService(c)
  BY <1>0, <1>1 DEF UndoService
<1>2. CASE UndoUnit(c)
  BY <1>0, <1>2 DEF UndoUnit
<1>3. CASE UndoAccount(c)
  BY <1>0, <1>3 DEF UndoAccount, Deleted
<1>4. CASE Load(c)
  <2>1. /\ pc'[c] \in {"print", "save"} /\ \A d \in Commands \ {c} : pc'[d] = pc[d]
        /\ UNCHANGED <<account, unit, gateway, hook, env, stuck, leftover>>
        /\ apart' => apart /\ (Running(c) \/ NoneRunning)
    <3>1. pc'[c] \in {"print", "save"} /\ \A d \in Commands \ {c} : pc'[d] = pc[d]
      BY <1>0, <1>4 DEF Load
    <3>2. UNCHANGED <<account, unit, gateway, hook, env, stuck, leftover>>
      BY <1>0, <1>4 DEF Load, Begins
    <3>3. apart' => apart /\ (Running(c) \/ NoneRunning)
      BY <1>4 DEF Load, Begins
    <3> QED BY <3>1, <3>2, <3>3
  <2>2. \/ pc[c] = "load"
        \/ pc[c] = "idle" /\ account \in Commands
    BY <1>4 DEF Load, Begins
  <2>3. account # NoAccount
    BY <1>4 DEF Load
  <2>4. Beside(c)
    BY <2>1, <2>2
  <2>5. ASSUME apart' PROVE StageOf(c)' /\ NoMember'
    BY <1>0, <2>1, <2>2, <2>3, <2>5, ConstantsAssumption
  <2> QED BY <2>4, <2>5
<1>5. CASE Unpair(c)
  <2>1. /\ pc'[c] = "save" /\ \A d \in Commands \ {c} : pc'[d] = pc[d]
        /\ UNCHANGED <<account, unit, gateway, hook, env, stuck, leftover>>
        /\ apart' => apart /\ NoneRunning
    <3>1. pc'[c] = "save" /\ \A d \in Commands \ {c} : pc'[d] = pc[d]
      BY <1>0, <1>5 DEF Unpair
    <3>2. UNCHANGED <<account, unit, gateway, hook, env, stuck, leftover>>
      BY <1>0, <1>5 DEF Unpair, Begins
    <3>3. apart' => apart /\ NoneRunning
      BY <1>5 DEF Unpair, Begins
    <3> QED BY <3>1, <3>2, <3>3
  <2>2. pc[c] = "idle" /\ account \in Commands
    BY <1>5 DEF Unpair, Begins
  <2>3. Beside(c)
    BY <2>1, <2>2
  <2>4. ASSUME apart' PROVE StageOf(c)' /\ NoMember'
    BY <1>0, <2>1, <2>2, <2>4, ConstantsAssumption
  <2> QED BY <2>3, <2>4
<1>6. CASE Save(c)
  BY <1>0, <1>6 DEF Save
<1>7. CASE Rename(c)
  BY <1>0, <1>7 DEF Rename
<1>8. CASE PrintCode(c)
  BY <1>0, <1>8 DEF PrintCode
<1>9. CASE StopService(c)
  BY <1>0, <1>9 DEF StopService, Begins
<1>10. CASE WipeEnv(c)
  BY <1>0, <1>10 DEF WipeEnv
<1>11. CASE Kill(c)
  BY <1>0, <1>11 DEF Kill
<1> QED BY <1>1, <1>2, <1>3, <1>4, <1>5, <1>6, <1>7, <1>8, <1>9, <1>10, <1>11

LEMMA HostTidy ==
  ASSUME TidyInv,
         \/ Restart \/ ManualStart \/ Reboot
         \/ RemoveEnvByHand \/ DeleteMember \/ NewAccount \/ UNCHANGED vars
  PROVE  Tidy'
<1>1. apart' = apart
  BY DEF Restart, ManualStart, Reboot, RemoveEnvByHand, DeleteMember, Deleted, NewAccount, vars, history, outcome
<1> SUFFICES ASSUME apart PROVE NoMember' /\ \A c \in Commands : StageOf(c)'
  BY <1>1 DEF Tidy
<1>2. ASSUME NEW c \in Commands PROVE StageOf(c)'
  <2>0. /\ TypeOK /\ StageOf(c) /\ NoMember
        /\ Foreign # c /\ NoAccount # c /\ Foreign # NoAccount
    BY Ready
  <2> USE DEF TypeOK, StageOf, Running, Over, host, profile, history, outcome
  <2>1. CASE Restart \/ ManualStart
    <3>1. UNCHANGED <<account, unit, pc, hook, stuck, leftover>>
      BY <2>1 DEF Restart, ManualStart
    <3> QED BY <2>0, <3>1
  <2>2. CASE Reboot
    BY <2>0, <2>2 DEF Reboot
  <2>3. CASE RemoveEnvByHand
    BY <2>0, <2>3 DEF RemoveEnvByHand
  <2>4. CASE DeleteMember \/ NewAccount
    BY <2>0, <2>4 DEF DeleteMember, Deleted, NewAccount, NoneRunning
  <2>5. CASE UNCHANGED vars
    BY <2>0, <2>5 DEF vars
  <2> QED BY <2>1, <2>2, <2>3, <2>4, <2>5
<1>3. NoMember'
  <2>0. TypeOK /\ NoMember /\ Foreign # NoAccount /\ Foreign \notin Commands
    BY ConstantsAssumption DEF TidyInv, Tidy
  <2> USE DEF TypeOK, NoMember, host, profile, history, outcome
  <2>1. CASE Restart
    BY <2>0, <2>1 DEF Restart
  <2>2. CASE ManualStart
    BY <2>0, <2>2 DEF ManualStart
  <2>3. CASE Reboot
    BY <2>0, <2>3 DEF Reboot
  <2>4. CASE RemoveEnvByHand
    BY <2>0, <2>4 DEF RemoveEnvByHand
  <2>5. CASE DeleteMember
    BY <2>0, <2>5 DEF DeleteMember, Deleted
  <2>6. CASE NewAccount
    BY <2>0, <2>6 DEF NewAccount
  <2>7. CASE UNCHANGED vars
    BY <2>0, <2>7 DEF vars
  <2> QED BY <2>1, <2>2, <2>3, <2>4, <2>5, <2>6, <2>7
<1> QED BY <1>2, <1>3

LEMMA TidyStep == TidyInv /\ [Next]_vars => TidyInv'
<1> SUFFICES ASSUME TidyInv, [Next]_vars PROVE TidyInv'
  OBVIOUS
<1>1. TypeOK' /\ CodeHasToken' /\ Alone' /\ OwnerInv'
  BY TypeStep, CodeStep, AloneStep, OwnerStep DEF TidyInv
<1>2. Tidy'
  <2>1. ASSUME NEW c \in Commands, Keeps(c) PROVE Tidy'
    BY <2>1, BesideTidy DEF Keeps, Tidy
  <2> QED BY <2>1, ProvisionTidy, OtherTidy, HostTidy DEF Next
<1> QED BY <1>1, <1>2 DEF TidyInv

LEMMA TidyInit == Init => TidyInv
<1> SUFFICES ASSUME Init PROVE TidyInv
  OBVIOUS
<1>1. TypeOK
  BY DEF Init, TypeOK, Unpaired, Settings, Steps, Over
<1>2. CodeHasToken /\ Alone /\ OwnerInv
  BY DEF Init, CodeHasToken, CodeOf, Alone, OwnerInv, OwnerOf, Running, Over, Undoing
<1>3. Tidy
  BY ConstantsAssumption DEF Init, Tidy, NoMember, StageOf, Running, Over
<1> QED BY <1>1, <1>2, <1>3 DEF TidyInv

\* A provisioning run that fails leaves a member with a unit, which a later run
\* adopts, or no member at all, unless userdel refuses in its rollback; only that
\* and a kill leave an account without a unit behind. Without an account there is
\* neither .env nor gateway, and a unit only if it outlived the member it was made
\* for. All of this as long as commands do not overlap.
THEOREM NothingLeftHalfMade == Spec => []NothingHalfMade
<1>1. TidyInv => NothingHalfMade
  BY DEF TidyInv, Tidy, StageOf, NoMember, NothingHalfMade
<1> QED BY TidyInit, TidyStep, <1>1, PTL DEF Spec

\* Another person's account of a member's name gets no .env and no gateway, as
\* long as commands do not overlap and no unit is left over from a member that was
\* deleted: such a unit makes the next account of that name look like a member's.
THEOREM ForeignIsUntouched == Spec => []ForeignAccountUntouched
<1>1. TidyInv => ForeignAccountUntouched
  BY DEF TidyInv, Tidy, NoMember, ForeignAccountUntouched
<1> QED BY TidyInit, TidyStep, <1>1, PTL DEF Spec
-----------------------------------------------------------------------------
(* The code a run prints, and the provider keys.                           *)

\* A file or a gateway with a token, open to the host of the command's URL.
Opens(c, settings) == settings.token # NoToken /\ IngressOf(c) \subseteq settings.hosts

\* Where a run has got to with .env: its token and host are in the file once it is
\* written, so that pair-code, its last part, finds nothing to change; the keys are
\* there once the profile is seeded, or the run has warned that they are not.
FileOf(c) ==
  /\ pc[c] \notin {"save", "rename"}
  /\ pc[c] = "write" => Opens(c, draft[c])
  /\ pc[c] \in {"seed", "install", "enable", "verify", "load", "print"} =>
       env # NoFile /\ Opens(c, env)
  /\ pc[c] \in {"install", "enable", "verify", "load", "print"} => env.keys \/ c \in warned
  /\ pc[c] = "print" => draft[c].token = env.token

\* The gateway a run has started, or a restart of it, serves what is in that file.
GatewayOf(c) ==
  pc[c] \in {"verify", "load", "print"} /\ c \in cold =>
    /\ gateway # Down
    /\ gateway.token = env.token
    /\ gateway.keys \/ c \in warned
    /\ IngressOf(c) \subseteq gateway.hosts

\* Only a provisioning run takes the steps of the script; one that has not come to
\* enable has started nothing; and the temporary file is the one just written.
CodeStage(c) ==
  /\ pc[c] \in {"prepare", "write", "seed", "install", "enable", "verify", "load"} =>
       KindOf[c] = "provision"
  /\ pc[c] \in {"idle", "prepare", "write", "seed", "install", "enable"} => c \notin cold
  /\ pc[c] = "rename" => tmp = Kept(c)
  /\ KindOf[c] = "provision" => FileOf(c) /\ GatewayOf(c)

Fresh == apart => \A c \in Commands : CodeStage(c)
FreshInv == TypeOK /\ CodeHasToken /\ Alone /\ Fresh

\* A step of a command leaves the others alone.
Apart(c) ==
  /\ \A d \in Commands \ {c} : pc'[d] = pc[d]
  /\ Running(c) \/ pc[c] = "idle"
  /\ apart' => apart /\ (Running(c) \/ NoneRunning)
  /\ cold' \subseteq cold \union {c}

LEMMA ApartFresh ==
  ASSUME FreshInv, NEW c \in Commands, Apart(c), apart', NEW d \in Commands \ {c}
  PROVE  CodeStage(d)'
<1>1. apart /\ CodeStage(d)
  BY DEF FreshInv, Fresh, Apart
<1>2. ~Running(d) /\ pc'[d] = pc[d]
  BY <1>1 DEF FreshInv, Alone, Apart, NoneRunning
<1>3. pc'[d] \in Over
  BY <1>2 DEF Running
<1>4. pc'[d] = "idle" => d \notin cold'
  BY <1>1, <1>2 DEF CodeStage, Apart
<1> QED BY <1>3, <1>4 DEF CodeStage, FileOf, GatewayOf, Over

Advances(c) == Apart(c) /\ (apart' => CodeStage(c)')

\* A step after which the command is over, or undoes its run, needs no more than
\* to leave the others alone.
LEMMA Ends ==
  ASSUME NEW c \in Commands, Apart(c), pc'[c] \in (Over \ {"idle"}) \union Undoing \union {"wipe"}
  PROVE  Advances(c)
BY DEF Advances, CodeStage, FileOf, GatewayOf, Over, Undoing

LEMMA ProvisionFresh ==
  ASSUME FreshInv, NEW c \in Commands,
         \/ EnsureUser(c) \/ Prepare(c) \/ WriteEnv(c) \/ Seed(c)
         \/ RenderUnit(c) \/ Enable(c) \/ Verify(c)
  PROVE  Advances(c)
<1>0. TypeOK /\ (apart => CodeStage(c))
  BY DEF FreshInv, Fresh
<1> USE DEF TypeOK, Advances, Apart, CodeStage, FileOf, GatewayOf, Opens, Running, Over, Undoing,
        Goto, GotoWith, host, profile, history, outcome
<1>1. CASE EnsureUser(c)
  BY <1>0, <1>1 DEF EnsureUser, Begins
<1>2. CASE Prepare(c)
  <2>1. CASE env # NoFile /\ env.token = NoToken
    BY <1>0, <1>2, <2>1 DEF Prepare, AfterFail
  <2>2. CASE ~(env # NoFile /\ env.token = NoToken)
    <3>1. EnvOf(c).token # NoToken /\ EnvOf(c).hosts = IngressOf(c)
      BY <2>2, ConstantsAssumption DEF EnvOf, TokenFor, NewToken, Tokens
    <3>2. pc' = [pc EXCEPT ![c] = "write"] /\ draft' = [draft EXCEPT ![c] = EnvOf(c)]
      BY <1>2, <2>2 DEF Prepare
    <3>3. IngressOf(c)' = IngressOf(c)
      BY DEF IngressOf
    <3> QED BY <1>0, <1>2, <3>1, <3>2, <3>3 DEF Prepare
  <2> QED BY <2>1, <2>2
<1>3. CASE WriteEnv(c)
  <2>1. NoFile \notin Settings /\ draft[c] \in Settings
    BY <1>0, ConstantsAssumption
  <2> QED BY <1>0, <1>3, <2>1 DEF WriteEnv, IngressOf
<1>4. CASE Seed(c)
  <2>1. apart => env # NoFile
    BY <1>0, <1>4 DEF Seed
  <2>2. apart => /\ Merged(c) # NoFile /\ Merged(c).token = env.token
                 /\ Merged(c).hosts = env.hosts /\ Merged(c).keys
    BY <1>0, <2>1, SettingsWritten, ConstantsAssumption DEF Merged, Loaded, Settings
  <2> QED BY <1>0, <1>4, <2>2 DEF Seed, IngressOf
<1>5. CASE RenderUnit(c)
  BY <1>0, <1>5 DEF RenderUnit, IngressOf
<1>6. CASE Enable(c)
  <2>1. NoFile \notin Settings /\ Down \notin Settings
    BY ConstantsAssumption
  <2>2. apart' => Loaded = env /\ env \in Settings
    BY <1>0, <1>6 DEF Enable, Loaded
  <2> QED BY <1>0, <1>6, <2>1, <2>2 DEF Enable, IngressOf
<1>7. CASE Verify(c)
  BY <1>0, <1>7 DEF Verify, IngressOf
<1> QED BY <1>1, <1>2, <1>3, <1>4, <1>5, <1>6, <1>7

LEMMA LoadFresh ==
  ASSUME FreshInv, NEW c \in Commands, Load(c)
  PROVE  Advances(c)
<1> DEFINE token == IF Loaded.token = NoToken THEN NewToken(c, "cli") ELSE Loaded.token
           code == [Loaded EXCEPT !.token = token, !.hosts = @ \union IngressOf(c)]
<1>0. TypeOK /\ (apart => CodeStage(c))
  BY DEF FreshInv, Fresh
<1>1. /\ pc' = [pc EXCEPT ![c] = IF code = Loaded THEN "print" ELSE "save"]
      /\ draft' = [draft EXCEPT ![c] = code]
      /\ UNCHANGED <<env, gateway, cold, warned, tmp>>
  BY DEF Load, Begins, GotoWith, history, outcome, profile
<1>2. \/ pc[c] = "load" /\ UNCHANGED apart
      \/ pc[c] = "idle" /\ KindOf[c] = "paircode" /\ apart' = (apart /\ NoneRunning)
  BY DEF Load, Begins, history, outcome
<1>3. Apart(c)
  <2>1. \A d \in Commands \ {c} : pc'[d] = pc[d]
    BY <1>0, <1>1 DEF TypeOK
  <2>2. Running(c) \/ pc[c] = "idle"
    BY <1>2 DEF Running, Over
  <2>3. apart' => apart /\ (Running(c) \/ NoneRunning)
    BY <1>2 DEF Running, Over
  <2> QED BY <1>1, <2>1, <2>2, <2>3 DEF Apart
<1>4. ASSUME apart', pc[c] = "load" PROVE CodeStage(c)'
  <2>1. KindOf[c] = "provision" /\ FileOf(c) /\ GatewayOf(c)
    BY <1>0, <1>2, <1>4 DEF CodeStage
  <2>2. env # NoFile /\ env \in Settings /\ Opens(c, env) /\ Loaded = env
    BY <1>0, <1>4, <2>1 DEF FileOf, Loaded, TypeOK
  <2>3. token = env.token /\ Loaded.hosts \union IngressOf(c) = env.hosts
    BY <2>2 DEF Opens
  <2>4. code = env
    BY <2>2, <2>3 DEF Settings
  <2>5. pc'[c] = "print" /\ draft'[c] = env
    BY <1>0, <1>1, <2>2, <2>4 DEF TypeOK
  <2> QED BY <1>0, <1>1, <1>4, <2>1, <2>2, <2>5
          DEF CodeStage, FileOf, GatewayOf, Opens, IngressOf
<1>5. ASSUME apart', pc[c] = "idle", KindOf[c] = "paircode" PROVE CodeStage(c)'
  <2>1. pc'[c] \in {"print", "save"}
    BY <1>0, <1>1 DEF TypeOK
  <2> QED BY <1>5, <2>1 DEF CodeStage
<1> QED BY <1>2, <1>3, <1>4, <1>5 DEF Advances

LEMMA OtherFresh ==
  ASSUME FreshInv, NEW c \in Commands,
         \/ StepFails(c) \/ UndoService(c) \/ UndoUnit(c) \/ UndoAccount(c)
         \/ Unpair(c) \/ Save(c) \/ Rename(c) \/ PrintCode(c)
         \/ StopService(c) \/ WipeEnv(c) \/ Kill(c)
  PROVE  Advances(c)
<1>0. TypeOK /\ (apart => CodeStage(c))
  BY DEF FreshInv, Fresh
<1> USE DEF TypeOK, Apart, Running, Over, Undoing, Goto, GotoWith, host, profile, history, outcome
<1>1. CASE StepFails(c)
  BY <1>0, <1>1, Ends DEF StepFails, AfterFail
<1>2. CASE UndoService(c) \/ UndoUnit(c) \/ UndoAccount(c)
  BY <1>0, <1>2, Ends DEF UndoService, UndoUnit, UndoAccount, Deleted
<1>3. CASE Unpair(c)
  <2>1. Apart(c) /\ pc'[c] = "save" /\ KindOf[c] = "unpair"
    BY <1>0, <1>3 DEF Unpair, Begins
  <2> QED BY <2>1 DEF Advances, CodeStage
<1>4. CASE Save(c)
  <2>1. Apart(c) /\ pc'[c] = "rename" /\ tmp' = Kept(c) /\ UNCHANGED <<env, draft>>
    BY <1>0, <1>4 DEF Save
  <2>2. Kept(c)' = Kept(c)
    BY <2>1 DEF Kept, Loaded
  <2>3. apart' => KindOf[c] # "provision"
    BY <1>0, <1>4 DEF Save, CodeStage, FileOf
  <2> QED BY <2>1, <2>2, <2>3 DEF Advances, CodeStage
<1>5. CASE Rename(c)
  <2>1. Apart(c) /\ pc'[c] \in {"failed", "done", "print"}
    BY <1>0, <1>5 DEF Rename
  <2>2. apart' => KindOf[c] # "provision"
    BY <1>0, <1>5 DEF Rename, CodeStage, FileOf
  <2> QED BY <2>1, <2>2 DEF Advances, CodeStage
<1>6. CASE PrintCode(c)
  BY <1>0, <1>6, Ends DEF PrintCode
<1>7. CASE StopService(c)
  BY <1>0, <1>7, Ends DEF StopService, Begins
<1>8. CASE WipeEnv(c) \/ Kill(c)
  BY <1>0, <1>8, Ends DEF WipeEnv, Kill
<1> QED BY <1>1, <1>2, <1>3, <1>4, <1>5, <1>6, <1>7, <1>8

LEMMA HostFresh ==
  ASSUME FreshInv,
         \/ Restart \/ ManualStart \/ Reboot
         \/ RemoveEnvByHand \/ DeleteMember \/ NewAccount \/ UNCHANGED vars
  PROVE  Fresh'
<1>1. apart' = apart
  BY DEF Restart, ManualStart, Reboot, RemoveEnvByHand, DeleteMember, Deleted, NewAccount, vars, history, outcome
<1> SUFFICES ASSUME apart, NEW c \in Commands PROVE CodeStage(c)'
  BY <1>1 DEF Fresh
<1>2. TypeOK /\ CodeStage(c)
  BY DEF FreshInv, Fresh
<1>3. CASE Restart
  <2>1. NoFile \notin Settings /\ Down \notin Settings
    BY ConstantsAssumption
  <2>2. gateway' = Loaded /\ UNCHANGED <<env, tmp, pc, draft, cold, warned>>
    BY <1>3 DEF Restart, profile, history, outcome
  <2>3. env # NoFile => Loaded = env /\ env \in Settings
    BY <1>2 DEF Loaded, TypeOK
  <2>4. Kept(c)' = Kept(c) /\ IngressOf(c)' = IngressOf(c)
    BY <2>2 DEF Kept, Loaded, IngressOf
  <2>5. FileOf(c)' <=> FileOf(c)
    BY <2>2, <2>4 DEF FileOf, Opens
  <2>6. FileOf(c) => GatewayOf(c)'
    BY <2>1, <2>2, <2>3, <2>4 DEF FileOf, Opens, GatewayOf
  <2> QED BY <1>2, <2>2, <2>4, <2>5, <2>6 DEF CodeStage
<1>4. CASE ManualStart \/ RemoveEnvByHand \/ DeleteMember \/ NewAccount
  <2>1. pc' = pc /\ cold' = cold /\ pc[c] \in Over
    BY <1>4 DEF ManualStart, RemoveEnvByHand, DeleteMember, Deleted, NewAccount, NoneRunning, Running,
                history
  <2> QED BY <1>2, <2>1 DEF CodeStage, FileOf, GatewayOf, Over
<1>5. CASE Reboot
  <2>1. pc'[c] \in Over /\ (pc'[c] = "idle" => pc[c] = "idle") /\ cold' = cold
    BY <1>5 DEF Reboot, Running, Over, history, outcome
  <2> QED BY <1>2, <2>1 DEF CodeStage, FileOf, GatewayOf, Over
<1>6. CASE UNCHANGED vars
  BY <1>2, <1>6 DEF vars, profile, history, outcome, CodeStage, FileOf, GatewayOf, Opens, IngressOf, Kept,
                    Loaded
<1> QED BY <1>3, <1>4, <1>5, <1>6

LEMMA FreshStep == FreshInv /\ [Next]_vars => FreshInv'
<1> SUFFICES ASSUME FreshInv, [Next]_vars PROVE FreshInv'
  OBVIOUS
<1>1. TypeOK' /\ CodeHasToken' /\ Alone'
  BY TypeStep, CodeStep, AloneStep DEF FreshInv
<1>2. Fresh'
  <2>1. ASSUME NEW c \in Commands, Advances(c) PROVE Fresh'
    BY <2>1, ApartFresh DEF Advances, Fresh
  <2> QED BY <2>1, ProvisionFresh, LoadFresh, OtherFresh, HostFresh DEF Next
<1> QED BY <1>1, <1>2 DEF FreshInv

LEMMA FreshInit == Init => FreshInv
BY TidyInit DEF TidyInv, FreshInv, Fresh, Init, CodeStage, FileOf, GatewayOf

\* The code a provisioning run prints opens the gateway that run started, whatever
\* stood in .env before and however often systemd has restarted the gateway since,
\* as long as commands do not overlap.
THEOREM FreshCodeOpens == Spec => FreshCodeIsAccepted
<1>1. FreshInv => \A c \in cold : apart /\ Prints(c) => Accepts(c)
  <2> SUFFICES ASSUME FreshInv, NEW c \in cold, apart, Prints(c) PROVE Accepts(c)
    OBVIOUS
  <2>1. c \in Commands /\ CodeStage(c)
    BY DEF FreshInv, Fresh, TypeOK
  <2> QED BY <2>1 DEF Prints, CodeStage, FileOf, GatewayOf, Accepts
<1> QED BY FreshInit, FreshStep, <1>1, PTL DEF Spec, FreshCodeIsAccepted

\* When a run that has not warned of missing keys prints its code, the provider keys
\* are in .env, and in the gateway if the run started it; a pair-code or an unpair
\* that saves .env keeps what keys there are. Both as long as commands do not overlap.
THEOREM KeysStayPut == Spec => ProviderKeysStay
<1> DEFINE Holds == apart => \A c \in Commands :
                      /\ Prints(c) /\ c \notin warned =>
                           env # NoFile /\ env.keys /\ (c \in cold => gateway.keys)
                      /\ Rename(c) => env'.keys = Loaded.keys
<1>1. ASSUME FreshInv PROVE Holds
  <2> SUFFICES ASSUME apart, NEW c \in Commands
               PROVE  /\ Prints(c) /\ c \notin warned =>
                           env # NoFile /\ env.keys /\ (c \in cold => gateway.keys)
                      /\ Rename(c) => env'.keys = Loaded.keys
    OBVIOUS
  <2>1. TypeOK /\ CodeStage(c)
    BY <1>1 DEF FreshInv, Fresh
  <2>2. Prints(c) /\ c \notin warned => env # NoFile /\ env.keys /\ (c \in cold => gateway.keys)
    BY <2>1 DEF Prints, CodeStage, FileOf, GatewayOf
  <2>3. ASSUME Rename(c) PROVE env'.keys = Loaded.keys
    <3>1. Kept(c) \in Settings /\ Kept(c).keys = Loaded.keys
      BY <2>1, SettingsWritten DEF Kept, Settings, TypeOK
    <3>2. tmp = Kept(c) /\ tmp # NoFile
      BY <2>1, <2>3, <3>1, ConstantsAssumption DEF Rename, CodeStage
    <3> QED BY <2>3, <3>1, <3>2 DEF Rename
  <2> QED BY <2>2, <2>3
<1> QED BY FreshInit, FreshStep, <1>1, PTL DEF Spec, ProviderKeysStay
=============================================================================
