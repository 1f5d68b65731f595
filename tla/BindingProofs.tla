---------------------------- MODULE BindingProofs ----------------------------
(***************************************************************************)
(* Proofs about the Rust binding: ShimErrors, RustClosures and             *)
(* RustSubscriptions, for every value of their constants.                  *)
(***************************************************************************)
EXTENDS ShimErrors, RustSubscriptions, StackLemmas

-----------------------------------------------------------------------------
(* The tables of the exported functions. *)

(* A function that does not clear the record has no string to copy, so     *)
(* that a copy that is lost is always read from a cleared record.          *)
CopiesClear(S) == \A c \in S : "copies" \in c.traits => "plain" \notin c.traits

LEMMA ExportedCopiesClear == CopiesClear(ExportedCalls)
<1>1. CopiesClear(LastErrorCalls)
  BY DEF CopiesClear, Calls, LastErrorCalls
<1>2. CopiesClear(DatabaseLifecycleCalls)
  BY DEF CopiesClear, Calls, DatabaseLifecycleCalls
<1>3. CopiesClear(DatabaseMetadataCalls)
  BY DEF CopiesClear, Calls, DatabaseMetadataCalls
<1>4. CopiesClear(DatabaseInfoCalls)
  BY DEF CopiesClear, Calls, DatabaseInfoCalls
<1>5. CopiesClear(AddressCalls)
  BY DEF CopiesClear, Calls, AddressCalls
<1>6. CopiesClear(SegmentCalls)
  BY DEF CopiesClear, Calls, SegmentCalls
<1>7. CopiesClear(FunctionCalls)
  BY DEF CopiesClear, Calls, FunctionCalls
<1>8. CopiesClear(FrameCalls)
  BY DEF CopiesClear, Calls, FrameCalls
<1>9. CopiesClear(RegisterVariableCalls)
  BY DEF CopiesClear, Calls, RegisterVariableCalls
<1>10. CopiesClear(OperandFormatCalls)
  BY DEF CopiesClear, Calls, OperandFormatCalls
<1>11. CopiesClear(InstructionCalls)
  BY DEF CopiesClear, Calls, InstructionCalls
<1>12. CopiesClear(DataReadCalls)
  BY DEF CopiesClear, Calls, DataReadCalls
<1>13. CopiesClear(DataPatchCalls)
  BY DEF CopiesClear, Calls, DataPatchCalls
<1>14. CopiesClear(NameCalls)
  BY DEF CopiesClear, Calls, NameCalls
<1>15. CopiesClear(XrefCalls)
  BY DEF CopiesClear, Calls, XrefCalls
<1>16. CopiesClear(CommentCalls)
  BY DEF CopiesClear, Calls, CommentCalls
<1>17. CopiesClear(SearchCalls)
  BY DEF CopiesClear, Calls, SearchCalls
<1>18. CopiesClear(AnalysisCalls)
  BY DEF CopiesClear, Calls, AnalysisCalls
<1>19. CopiesClear(TypeFactoryCalls)
  BY DEF CopiesClear, Calls, TypeFactoryCalls
<1>20. CopiesClear(TypeQueryCalls)
  BY DEF CopiesClear, Calls, TypeQueryCalls
<1>21. CopiesClear(TypeLookupCalls)
  BY DEF CopiesClear, Calls, TypeLookupCalls
<1>22. CopiesClear(TypeLibraryCalls)
  BY DEF CopiesClear, Calls, TypeLibraryCalls
<1>23. CopiesClear(EntryCalls)
  BY DEF CopiesClear, Calls, EntryCalls
<1>24. CopiesClear(FixupCalls)
  BY DEF CopiesClear, Calls, FixupCalls
<1>25. CopiesClear(EventCalls)
  BY DEF CopiesClear, Calls, EventCalls
<1>26. CopiesClear(EventFilterCalls)
  BY DEF CopiesClear, Calls, EventFilterCalls
<1>27. CopiesClear(ActionCalls)
  BY DEF CopiesClear, Calls, ActionCalls
<1>28. CopiesClear(ActionContextCalls)
  BY DEF CopiesClear, Calls, ActionContextCalls
<1>29. CopiesClear(LoaderInfoCalls)
  BY DEF CopiesClear, Calls, LoaderInfoCalls
<1>30. CopiesClear(LoaderInputCalls)
  BY DEF CopiesClear, Calls, LoaderInputCalls
<1>31. CopiesClear(DebuggerBackendCalls)
  BY DEF CopiesClear, Calls, DebuggerBackendCalls
<1>32. CopiesClear(DebuggerStateCalls)
  BY DEF CopiesClear, Calls, DebuggerStateCalls
<1>33. CopiesClear(DebuggerThreadCalls)
  BY DEF CopiesClear, Calls, DebuggerThreadCalls
<1>34. CopiesClear(AppcallCalls)
  BY DEF CopiesClear, Calls, AppcallCalls
<1>35. CopiesClear(DebuggerEventCalls)
  BY DEF CopiesClear, Calls, DebuggerEventCalls
<1>36. CopiesClear(DebuggerModuleCalls)
  BY DEF CopiesClear, Calls, DebuggerModuleCalls
<1>37. CopiesClear(DecompilerSessionCalls)
  BY DEF CopiesClear, Calls, DecompilerSessionCalls
<1>38. CopiesClear(DecompilerEventCalls)
  BY DEF CopiesClear, Calls, DecompilerEventCalls
<1>39. CopiesClear(PseudocodeCalls)
  BY DEF CopiesClear, Calls, PseudocodeCalls
<1>40. CopiesClear(LvarCalls)
  BY DEF CopiesClear, Calls, LvarCalls
<1>41. CopiesClear(DecompilerViewCalls)
  BY DEF CopiesClear, Calls, DecompilerViewCalls
<1>42. CopiesClear(CtreeCalls)
  BY DEF CopiesClear, Calls, CtreeCalls
<1>43. CopiesClear(MicrocodeCalls)
  BY DEF CopiesClear, Calls, MicrocodeCalls
<1>44. CopiesClear(StorageCalls)
  BY DEF CopiesClear, Calls, StorageCalls
<1>45. CopiesClear(GraphCalls)
  BY DEF CopiesClear, Calls, GraphCalls
<1>46. CopiesClear(GroupCalls)
  BY DEF CopiesClear, Calls, GroupCalls
<1>47. CopiesClear(FlowchartCalls)
  BY DEF CopiesClear, Calls, FlowchartCalls
<1>48. CopiesClear(DialogCalls)
  BY DEF CopiesClear, Calls, DialogCalls
<1>49. CopiesClear(FormCalls)
  BY DEF CopiesClear, Calls, FormCalls
<1>50. CopiesClear(ClipboardCalls)
  BY DEF CopiesClear, Calls, ClipboardCalls
<1>51. CopiesClear(WidgetCalls)
  BY DEF CopiesClear, Calls, WidgetCalls
<1>52. CopiesClear(ViewerCalls)
  BY DEF CopiesClear, Calls, ViewerCalls
<1>53. CopiesClear(TimerCalls)
  BY DEF CopiesClear, Calls, TimerCalls
<1>54. CopiesClear(UiEventCalls)
  BY DEF CopiesClear, Calls, UiEventCalls
<1>55. CopiesClear(WidgetEventCalls)
  BY DEF CopiesClear, Calls, WidgetEventCalls
<1>56. CopiesClear(ViewEventCalls)
  BY DEF CopiesClear, Calls, ViewEventCalls
<1>57. CopiesClear(RenderingCalls)
  BY DEF CopiesClear, Calls, RenderingCalls
<1>58. CopiesClear(LinesCalls)
  BY DEF CopiesClear, Calls, LinesCalls
<1>59. CopiesClear(DiagnosticsCalls)
  BY DEF CopiesClear, Calls, DiagnosticsCalls
<1>60. CopiesClear(LuminaCalls)
  BY DEF CopiesClear, Calls, LuminaCalls
<1> QED
  BY <1>1, <1>2, <1>3, <1>4, <1>5, <1>6, <1>7, <1>8, <1>9, <1>10, <1>11,
     <1>12, <1>13, <1>14, <1>15, <1>16, <1>17, <1>18, <1>19, <1>20, <1>21,
     <1>22, <1>23, <1>24, <1>25, <1>26, <1>27, <1>28, <1>29, <1>30, <1>31,
     <1>32, <1>33, <1>34, <1>35, <1>36, <1>37, <1>38, <1>39, <1>40, <1>41,
     <1>42, <1>43, <1>44, <1>45, <1>46, <1>47, <1>48, <1>49, <1>50, <1>51,
     <1>52, <1>53, <1>54, <1>55, <1>56, <1>57, <1>58, <1>59, <1>60
     DEF CopiesClear, ExportedCalls

LEMMA KindsCopyAndClear ==
  \A kind \in CallKinds : "copies" \in kind.traits => Clears(kind)
<1> SUFFICES ASSUME NEW w \in WrapperTable
             PROVE  "copies" \in CallKind(w).traits => Clears(CallKind(w))
  BY DEF CallKinds
<1> DEFINE c == CHOOSE x \in ExportedCalls : IsCallOf(x, w)
<1>1. c \in ExportedCalls
  BY WrappersCallExported
<1> HIDE DEF c
<1>2. "copies" \in c.traits => "plain" \notin c.traits
  BY <1>1, ExportedCopiesClear DEF CopiesClear
<1>3. CallKind(w).traits = c.traits
  BY DEF CallKind, c
<1> QED
  BY <1>2, <1>3 DEF Clears

-----------------------------------------------------------------------------
(* Categories and their numbers. *)

LEMMA Numbers ==
  /\ Category = {"Validation", "NotFound", "Conflict", "Unsupported", "SdkFailure", "Internal"}
  /\ Len(ErrorCategory) = 6
  /\ \A category \in Category : set_error(category) \in 0 .. Len(ErrorCategory)
  /\ \A number \in 0 .. Len(ErrorCategory) : last_error(number) \in Category
<1>1. DOMAIN ErrorCategory = 1 .. 6 /\ Len(ErrorCategory) = 6
  BY DEF ErrorCategory
<1>2. Category = {"Validation", "NotFound", "Conflict", "Unsupported", "SdkFailure", "Internal"}
  BY <1>1 DEF Category, ErrorCategory, ToSet
<1>3. ASSUME NEW category \in Category PROVE set_error(category) \in 1 .. 6
  <2>1. \E k \in DOMAIN ErrorCategory : ErrorCategory[k] = category
    BY DEF Category, ToSet
  <2> QED
    BY <1>1, <2>1 DEF set_error
<1>4. ASSUME NEW number \in 0 .. 6 PROVE last_error(number) \in Category
  <2>1. CASE number + 1 \in DOMAIN ErrorCategory
    BY <2>1 DEF last_error, Category, ToSet
  <2>2. CASE number + 1 \notin DOMAIN ErrorCategory
    BY <1>2, <2>2 DEF last_error
  <2> QED
    BY <2>1, <2>2
<1> QED
  BY <1>1, <1>2, <1>3, <1>4

-----------------------------------------------------------------------------
(* The invariant. *)

Record == [number : 0 .. Len(ErrorCategory), by : CallNumber]
Answers == [call : CallNumber, by : CallNumber, set : Category \cup {"none"},
            category : Category \cup {"none"}, alone : BOOLEAN]

(* The call has written the record, or cleared it and may read it so. *)
HasWritten(e) == e.phase # "body" \/ e.may.lost

(* Only the innermost call of a thread is undisturbed since it failed, and *)
(* then the record of the thread is its own.                               *)
OwnRecord(th) ==
  \A i \in DOMAIN exported[th] :
    exported[th][i].alone =>
      /\ i = Len(exported[th])
      /\ HasWritten(exported[th][i]) => g_last_error[th].by = exported[th][i].call

ErrInv ==
  /\ g_last_error \in [RustThreads -> Record]
  /\ exported \in [RustThreads -> Seq(Exported)]
  /\ calls_made \in CallNumber
  /\ answer \in [RustThreads -> Answers]
  /\ \A th \in RustThreads : OwnRecord(th)
  /\ \A th \in RustThreads : answer[th].alone => answer[th].by = answer[th].call

LEMMA Stored ==
  ASSUME g_last_error \in [RustThreads -> Record], NEW th \in RustThreads,
         NEW number \in 0 .. Len(ErrorCategory), NEW call \in CallNumber,
         Store(th, number, call)
  PROVE  /\ g_last_error' \in [RustThreads -> Record]
         /\ g_last_error'[th].by = call
         /\ \A u \in RustThreads \ {th} : g_last_error'[u] = g_last_error[u]
BY DEF Store, Sharers, Record

(* The innermost call of a thread that is in one. *)
LEMMA InnerIsExported ==
  ASSUME ErrInv, NEW th \in RustThreads, exported[th] # << >>
  PROVE  /\ Inner(th) \in Exported
         /\ Len(exported[th]) \in Nat \ {0}
         /\ DOMAIN exported[th] = 1 .. Len(exported[th])
         /\ Inner(th) = exported[th][Len(exported[th])]
         /\ Inner(th).alone /\ HasWritten(Inner(th))
              => g_last_error[th].by = Inner(th).call
<1>1. exported \in [RustThreads -> Seq(Exported)]
  BY DEF ErrInv
<1>2. /\ Len(exported[th]) \in Nat \ {0}
      /\ Len(exported[th]) \in DOMAIN exported[th]
      /\ DOMAIN exported[th] = 1 .. Len(exported[th])
      /\ exported[th][Len(exported[th])] \in Exported
  BY <1>1, TopOfStack
<1>3. Inner(th) = exported[th][Len(exported[th])]
  BY DEF Inner, Last
<1>4. OwnRecord(th)
  BY DEF ErrInv
<1> QED
  BY <1>2, <1>3, <1>4 DEF OwnRecord

(* A thread steps; the others keep their calls and their records. *)
LEMMA OneThreadSteps ==
  ASSUME ErrInv, NEW th \in RustThreads,
         g_last_error' \in [RustThreads -> Record],
         exported' \in [RustThreads -> Seq(Exported)],
         calls_made' \in CallNumber,
         \A u \in RustThreads \ {th} :
           exported'[u] = exported[u] /\ g_last_error'[u] = g_last_error[u],
         OwnRecord(th)', UNCHANGED answer
  PROVE  ErrInv'
<1>1. ASSUME NEW u \in RustThreads \ {th} PROVE OwnRecord(u)'
  BY DEF ErrInv, OwnRecord
<1>2. \A u \in RustThreads : OwnRecord(u)'
  BY <1>1
<1> QED
  BY <1>2 DEF ErrInv

(* The innermost call of a thread returns; those around it are disturbed.  *)
LEMMA CallLeft ==
  ASSUME ErrInv, NEW th \in RustThreads, exported[th] # << >>, Leave(th)
  PROVE  /\ exported' \in [RustThreads -> Seq(Exported)]
         /\ \A u \in RustThreads \ {th} : exported'[u] = exported[u]
         /\ \A i \in DOMAIN exported'[th] : ~exported'[th][i].alone
<1>1. /\ exported \in [RustThreads -> Seq(Exported)]
      /\ exported' = Popped(exported, th)
  BY DEF ErrInv, Leave, Popped
<1>2. /\ exported' \in [RustThreads -> Seq(Exported)]
      /\ \A u \in RustThreads \ {th} : exported'[u] = exported[u]
      /\ Len(exported[th]) \in Nat \ {0}
      /\ DOMAIN exported[th] = 1 .. Len(exported[th])
      /\ DOMAIN exported'[th] = 1 .. Len(exported[th]) - 1
      /\ \A i \in 1 .. Len(exported[th]) - 1 : exported'[th][i] = exported[th][i]
  BY <1>1, StackPopped
<1>3. ASSUME NEW i \in 1 .. Len(exported[th]) - 1 PROVE ~exported[th][i].alone
  BY <1>2 DEF ErrInv, OwnRecord
<1> QED
  BY <1>2, <1>3

LEMMA LeaveStep ==
  ASSUME ErrInv, NEW th \in RustThreads, exported[th] # << >>, Leave(th),
         UNCHANGED <<g_last_error, calls_made, answer>>
  PROVE  ErrInv'
<1>1. /\ exported' \in [RustThreads -> Seq(Exported)]
      /\ \A u \in RustThreads \ {th} : exported'[u] = exported[u]
      /\ OwnRecord(th)'
  BY CallLeft DEF OwnRecord
<1> QED
  BY <1>1, OneThreadSteps DEF ErrInv

(* The innermost call gets on, as e. *)
LEMMA CallMoved ==
  ASSUME ErrInv, NEW th \in RustThreads, exported[th] # << >>,
         NEW e \in Exported, exported' = TopSet(exported, th, e),
         g_last_error' \in [RustThreads -> Record],
         \A u \in RustThreads \ {th} : g_last_error'[u] = g_last_error[u],
         e.alone /\ HasWritten(e) => g_last_error'[th].by = e.call,
         UNCHANGED <<calls_made, answer>>
  PROVE  ErrInv'
<1>1. exported \in [RustThreads -> Seq(Exported)]
  BY DEF ErrInv
<1>2. /\ exported' \in [RustThreads -> Seq(Exported)]
      /\ \A u \in RustThreads \ {th} : exported'[u] = exported[u]
      /\ Len(exported[th]) \in Nat \ {0}
      /\ Len(exported'[th]) = Len(exported[th])
      /\ DOMAIN exported[th] = 1 .. Len(exported[th])
      /\ DOMAIN exported'[th] = 1 .. Len(exported[th])
      /\ \A i \in 1 .. Len(exported[th]) - 1 : exported'[th][i] = exported[th][i]
      /\ exported'[th][Len(exported[th])] = e
  BY <1>1, StackTopSet, SMTT(30)
<1>3. ASSUME NEW i \in 1 .. Len(exported[th]) - 1 PROVE ~exported[th][i].alone
  BY <1>2 DEF ErrInv, OwnRecord
<1>4. OwnRecord(th)'
  <2> SUFFICES ASSUME NEW i \in DOMAIN exported'[th], exported'[th][i].alone
               PROVE  /\ i = Len(exported'[th])
                      /\ HasWritten(exported'[th][i])
                           => g_last_error'[th].by = exported'[th][i].call
    BY DEF OwnRecord
  <2>1. i = Len(exported[th])
    BY <1>2, <1>3
  <2> QED
    BY <1>2, <2>1
<1> QED
  BY <1>2, <1>4, OneThreadSteps DEF ErrInv

(* A call is entered: those around it are disturbed. *)
LEMMA CallEntered ==
  ASSUME ErrInv, NEW th \in RustThreads, NEW e \in Exported,
         exported' = [exported EXCEPT ![th] = Append(Outer(th), e)],
         g_last_error' \in [RustThreads -> Record],
         \A u \in RustThreads \ {th} : g_last_error'[u] = g_last_error[u],
         HasWritten(e) => g_last_error'[th].by = e.call,
         calls_made' \in CallNumber, UNCHANGED answer
  PROVE  ErrInv'
<1> DEFINE n == Len(exported[th])
           outer == Outer(th)
<1>1. /\ exported[th] \in Seq(Exported) /\ n \in Nat
      /\ DOMAIN exported[th] = 1 .. n /\ \A i \in 1 .. n : exported[th][i] \in Exported
  <2>1. exported[th] \in Seq(Exported)
    BY DEF ErrInv
  <2> QED
    BY <2>1, LenProperties, ElementOfSeq
<1>2. ASSUME NEW i \in 1 .. n
      PROVE  [exported[th][i] EXCEPT !.alone = FALSE] \in Exported
             /\ [exported[th][i] EXCEPT !.alone = FALSE].alone = FALSE
  BY <1>1 DEF Exported
<1>3. outer \in [1 .. n -> Exported] /\ \A i \in 1 .. n : ~outer[i].alone
  BY <1>1, <1>2 DEF Outer
<1> HIDE DEF outer
<1>4. outer \in Seq(Exported) /\ Len(outer) = n
  <2> HIDE DEF n
  <2>1. outer \in Seq(Exported) /\ DOMAIN outer = 1 .. n
    BY <1>1, <1>3, SeqDef
  <2> QED
    BY <1>1, <2>1, LenProperties
<1>5. /\ Append(outer, e) \in Seq(Exported)
      /\ Len(Append(outer, e)) = n + 1
      /\ \A i \in 1 .. n : Append(outer, e)[i] = outer[i]
      /\ Append(outer, e)[n + 1] = e
  BY <1>4, AppendProperties
<1>6. /\ exported' \in [RustThreads -> Seq(Exported)]
      /\ \A u \in RustThreads \ {th} : exported'[u] = exported[u]
      /\ exported'[th] = Append(outer, e)
  <2>1. exported \in [RustThreads -> Seq(Exported)]
    BY DEF ErrInv
  <2> QED
    BY <1>5, <2>1 DEF outer
<1>7. DOMAIN exported'[th] = 1 .. n + 1 /\ Len(exported'[th]) = n + 1
  BY <1>5, <1>6, LenProperties
<1> HIDE DEF n
<1>8. OwnRecord(th)'
  <2> SUFFICES ASSUME NEW i \in 1 .. n + 1, exported'[th][i].alone
               PROVE  /\ i = n + 1
                      /\ HasWritten(exported'[th][i])
                           => g_last_error'[th].by = exported'[th][i].call
    BY <1>7 DEF OwnRecord
  <2>1. CASE i = n + 1
    BY <1>5, <1>6, <2>1
  <2>2. CASE i # n + 1
    <3>1. i \in 1 .. n
      BY <1>1, <2>2 DEF n
    <3> QED
      BY <1>3, <1>5, <1>6, <3>1
  <2> QED
    BY <2>1, <2>2
<1> QED
  BY <1>6, <1>8, OneThreadSteps

-----------------------------------------------------------------------------
(* The steps of a call. *)

LEMMA OutcomesTyped ==
  ASSUME NEW kind \in CallKinds
  PROVE  Outcomes(kind) \in CallOutcomes /\ (Outcomes(kind).lost => Clears(kind))
<1>1. Failures \subseteq Category /\ "Internal" \in Category
  BY Numbers, ErrorAssumption
<1>2. (kind.does = "demands" /\ "copies" \in kind.traits) \in BOOLEAN
  OBVIOUS
<1>3. Outcomes(kind) \in CallOutcomes
  BY <1>1, <1>2 DEF Outcomes, CallOutcomes
<1>4. Outcomes(kind).lost => "copies" \in kind.traits
  BY DEF Outcomes
<1> QED
  BY <1>3, <1>4, KindsCopyAndClear

NewCall(call, may, phase, set) ==
  [call |-> call, may |-> may, phase |-> phase, set |-> set, alone |-> TRUE]

LEMMA EnterStep ==
  ASSUME ErrInv, NEW th \in RustThreads, NEW kind \in CallKinds,
         CallExported(th, kind) \/ CallRefused(th, kind)
  PROVE  ErrInv'
<1>1. /\ calls_made' \in CallNumber
      /\ UNCHANGED answer
  <2>1. calls_made \in 0 .. MaxCalls /\ calls_made < MaxCalls /\ calls_made' = calls_made + 1
    BY DEF ErrInv, CallExported, CallRefused, Enter, CallNumber
  <2> QED
    BY <2>1, ErrorAssumption DEF CallExported, CallRefused, Enter, CallNumber
<1>2. CASE CallExported(th, kind)
  <2> DEFINE e == NewCall(calls_made', Outcomes(kind), "body", "none")
  <2>1. exported' = [exported EXCEPT ![th] = Append(Outer(th), e)]
    BY <1>2 DEF CallExported, Enter, NewCall
  <2>2. e \in Exported
    BY <1>1, OutcomesTyped DEF NewCall, Exported, Phases
  <2>3. HasWritten(e) => Clears(kind)
    BY OutcomesTyped DEF NewCall, HasWritten
  <2>4. e.call = calls_made'
    BY DEF NewCall
  <2> HIDE DEF e
  <2>5. g_last_error \in [RustThreads -> Record]
    BY DEF ErrInv
  <2>6. CASE Clears(kind)
    <3>1. Store(th, 0, calls_made') /\ 0 \in 0 .. Len(ErrorCategory)
      BY <1>2, <2>6, Numbers DEF CallExported, IDAX_ERROR_NONE
    <3>2. /\ g_last_error' \in [RustThreads -> Record]
          /\ g_last_error'[th].by = calls_made'
          /\ \A u \in RustThreads \ {th} : g_last_error'[u] = g_last_error[u]
      BY <1>1, <2>5, <3>1, Stored
    <3> QED
      BY <1>1, <2>1, <2>2, <2>4, <3>2, CallEntered
  <2>7. CASE ~Clears(kind)
    <3>1. g_last_error' = g_last_error
      BY <1>2, <2>7 DEF CallExported
    <3> QED
      BY <1>1, <2>1, <2>2, <2>3, <2>5, <2>7, <3>1, CallEntered
  <2> QED
    BY <2>6, <2>7
<1>3. CASE CallRefused(th, kind)
  <2> DEFINE e == NewCall(calls_made', Outcomes(kind), "failed", "Validation")
  <2>1. exported' = [exported EXCEPT ![th] = Append(Outer(th), e)]
    BY <1>3 DEF CallRefused, Enter, NewCall
  <2>2. e \in Exported
    BY <1>1, OutcomesTyped, Numbers DEF NewCall, Exported, Phases
  <2>3. e.call = calls_made'
    BY DEF NewCall
  <2> HIDE DEF e
  <2>4. g_last_error \in [RustThreads -> Record]
    BY DEF ErrInv
  <2>5. /\ Store(th, set_error("Validation"), calls_made')
        /\ set_error("Validation") \in 0 .. Len(ErrorCategory)
    BY <1>3, Numbers DEF CallRefused
  <2>6. /\ g_last_error' \in [RustThreads -> Record]
        /\ g_last_error'[th].by = calls_made'
        /\ \A u \in RustThreads \ {th} : g_last_error'[u] = g_last_error[u]
    BY <1>1, <2>4, <2>5, Stored
  <2> QED
    BY <1>1, <2>1, <2>2, <2>3, <2>6, CallEntered
<1> QED
  BY <1>2, <1>3

LEMMA FailStep ==
  ASSUME ErrInv, NEW th \in RustThreads, NEW category \in Category, fail(th, category)
  PROVE  ErrInv'
<1> DEFINE e == [Inner(th) EXCEPT !.phase = "failed", !.set = category, !.alone = TRUE]
<1>1. exported[th] # << >>
  BY DEF fail, In
<1>2. Inner(th) \in Exported
  BY <1>1, InnerIsExported
<1>3. e \in Exported /\ e.call = Inner(th).call
  BY <1>2 DEF Exported, Phases
<1>4. exported' = TopSet(exported, th, e)
  BY DEF fail, TopSet, Inner
<1> HIDE DEF e
<1>5. Inner(th).call \in CallNumber
  BY <1>2 DEF Exported
<1>6. /\ g_last_error' \in [RustThreads -> Record]
      /\ g_last_error'[th].by = Inner(th).call
      /\ \A u \in RustThreads \ {th} : g_last_error'[u] = g_last_error[u]
  <2>1. g_last_error \in [RustThreads -> Record]
    BY DEF ErrInv
  <2>2. /\ Store(th, set_error(category), Inner(th).call)
        /\ set_error(category) \in 0 .. Len(ErrorCategory)
    BY Numbers DEF fail
  <2> QED
    BY <1>5, <2>1, <2>2, Stored
<1> QED
  BY <1>1, <1>3, <1>4, <1>6, CallMoved DEF fail

(* A step that leaves the record alone, from a call that has written it or *)
(* may lose its copy.                                                      *)
LEMMA MoveStep ==
  ASSUME ErrInv, NEW th \in RustThreads, exported[th] # << >>,
         HasWritten(Inner(th)), NEW phase \in Phases, MoveTo(th, phase),
         UNCHANGED <<g_last_error, calls_made, answer>>
  PROVE  ErrInv'
<1> DEFINE e == [Inner(th) EXCEPT !.phase = phase]
<1>1. Inner(th) \in Exported
  BY InnerIsExported
<1>2. e \in Exported /\ e.call = Inner(th).call /\ e.alone = Inner(th).alone
  BY <1>1 DEF Exported
<1>3. exported' = TopSet(exported, th, e)
  BY DEF MoveTo, TopSet, Inner
<1> HIDE DEF e
<1>4. e.alone => g_last_error'[th].by = e.call
  BY <1>2, InnerIsExported
<1>5. g_last_error' \in [RustThreads -> Record]
  BY DEF ErrInv
<1> QED
  BY <1>2, <1>3, <1>4, <1>5, CallMoved

LEMMA ConsumeStep ==
  ASSUME ErrInv, NEW th \in RustThreads, consume_last_error(th)
  PROVE  ErrInv'
<1>1. exported[th] # << >> /\ HasWritten(Inner(th)) /\ Leave(th)
  BY DEF consume_last_error, In, HasWritten
<1>2. /\ exported' \in [RustThreads -> Seq(Exported)]
      /\ \A u \in RustThreads \ {th} : exported'[u] = exported[u]
      /\ OwnRecord(th)'
  BY <1>1, CallLeft DEF OwnRecord
<1>3. \A u \in RustThreads : OwnRecord(u)'
  <2>1. g_last_error' = g_last_error
    BY DEF consume_last_error
  <2>2. ASSUME NEW u \in RustThreads \ {th} PROVE OwnRecord(u)'
    BY <1>2, <2>1 DEF ErrInv, OwnRecord
  <2> QED
    BY <1>2, <2>2
<1>4. /\ Inner(th) \in Exported
      /\ Inner(th).alone => g_last_error[th].by = Inner(th).call
  BY <1>1, InnerIsExported
<1> DEFINE a == [call |-> Inner(th).call, by |-> g_last_error[th].by, set |-> Inner(th).set,
                 category |-> last_error(g_last_error[th].number), alone |-> Inner(th).alone]
<1>5. a \in Answers
  <2>1. g_last_error[th] \in Record
    BY DEF ErrInv
  <2>2. last_error(g_last_error[th].number) \in Category /\ g_last_error[th].by \in CallNumber
    BY <2>1, Numbers DEF Record
  <2>3. /\ Inner(th).call \in CallNumber /\ Inner(th).alone \in BOOLEAN
        /\ Inner(th).set \in Category \cup {"none"}
    BY <1>4 DEF Exported
  <2> QED
    BY <2>2, <2>3 DEF Answers
<1>6. a.alone => a.by = a.call
  BY <1>4
<1>7. answer' = [answer EXCEPT ![th] = a]
  BY DEF consume_last_error
<1> HIDE DEF a
<1>8. /\ answer' \in [RustThreads -> Answers]
      /\ \A u \in RustThreads : answer'[u].alone => answer'[u].by = answer'[u].call
  BY <1>5, <1>6, <1>7 DEF ErrInv
<1> QED
  BY <1>2, <1>3, <1>8 DEF ErrInv, consume_last_error

LEMMA ErrStep == ErrInv /\ [ErrorsNext]_errvars => ErrInv'
<1> SUFFICES ASSUME ErrInv, [ErrorsNext]_errvars PROVE ErrInv'
  OBVIOUS
<1>1. ASSUME NEW th \in RustThreads, Succeeds(th) \/ HidesFailure(th) PROVE ErrInv'
  BY <1>1, LeaveStep DEF Succeeds, HidesFailure, In
<1>2. ASSUME NEW th \in RustThreads, CopyLost(th) PROVE ErrInv'
  BY <1>2, MoveStep DEF CopyLost, In, HasWritten, Phases
<1>3. ASSUME NEW th \in RustThreads, DropContext(th) PROVE ErrInv'
  BY <1>3, MoveStep DEF DropContext, In, HasWritten, Phases
<1>4. ASSUME NEW th \in RustThreads, ContextDropped(th) PROVE ErrInv'
  BY <1>4, MoveStep DEF ContextDropped, In, HasWritten, Phases
<1>5. CASE UNCHANGED errvars
  BY <1>5 DEF errvars, ErrInv, OwnRecord
<1> QED
  BY <1>1, <1>2, <1>3, <1>4, <1>5, EnterStep, FailStep, ConsumeStep DEF ErrorsNext

(* What a wrapper returns as its error was written by its own call, on any *)
(* number of threads and however deep calls nest in callbacks, unless      *)
(* client code called the library between the failure and the reading.     *)
THEOREM ErrorsAreOwn == ErrorsSpec => []ErrorIsOwn
<1>1. ErrorsInit => ErrInv
  <2> SUFFICES ASSUME ErrorsInit PROVE ErrInv
    OBVIOUS
  <2>1. 0 \in CallNumber /\ 0 \in 0 .. Len(ErrorCategory)
    BY Numbers, ErrorAssumption DEF CallNumber
  <2>2. NoAnswer \in Answers /\ NoAnswer.by = NoAnswer.call
    BY <2>1 DEF NoAnswer, Answers
  <2>3. g_last_error \in [RustThreads -> Record]
    BY <2>1 DEF ErrorsInit, Record, IDAX_ERROR_NONE
  <2>4. exported \in [RustThreads -> Seq(Exported)] /\ \A th \in RustThreads : OwnRecord(th)
    BY DEF ErrorsInit, OwnRecord
  <2> QED
    BY <2>1, <2>2, <2>3, <2>4 DEF ErrorsInit, ErrInv
<1>2. ErrInv => ErrorIsOwn
  <2> SUFFICES ASSUME ErrInv PROVE ErrorIsOwn
    OBVIOUS
  <2>1. \A th \in RustThreads : answer[th] \in Answers
    BY DEF ErrInv
  <2>2. ErrorsTypeOK
    BY <2>1 DEF ErrInv, ErrorsTypeOK, Record, Answers
  <2> QED
    BY <2>2 DEF ErrInv, ErrorIsOwn
<1> QED
  BY <1>1, <1>2, ErrStep, PTL DEF ErrorsSpec

-----------------------------------------------------------------------------
(* The boxes of the user interface.  Four kinds of things own a box: an    *)
(* entry of one of the three tables, and the callback object of a viewer.  *)

Owners ==
  ({"timer"} \X Addresses) \cup ({"action", "popup"} \X ActionIds)
  \cup ({"graph"} \X Closure)

(* The closures whose boxes an owner is to drop. *)
Held(owner) ==
  CASE owner[1] = "timer" -> Kept(TIMER_CONTEXTS, owner[2])
    [] owner[1] = "action" -> KeptPair(owner[2]) \ {None}
    [] owner[1] = "popup" -> Kept(POPUP_CONTEXTS, owner[2])
    [] owner[1] = "graph" -> shims \cap {owner[2]}

Live == (1 .. made) \ freed

(* Every box that is not freed has one owner, and no owner a freed one. *)
OneOwner ==
  /\ made \in Nat
  /\ freed \subseteq 1 .. made
  /\ \A o \in Owners : Held(o) \subseteq Live
  /\ \A o, p \in Owners : \A c \in Held(o) : c \in Held(p) => o = p
  /\ \A c \in Live : \E o \in Owners : c \in Held(o)

(* A call that boxes closures gives some of them to one owner, whose old   *)
(* boxes it frees, and frees the others; no other owner is concerned.      *)
BoxesGoTo(owner, new, n) ==
  /\ made' = made + n
  /\ freed' = freed \cup Held(owner) \cup (((made + 1) .. made') \ new)
  /\ new \subseteq (made + 1) .. made'
  /\ \A o \in Owners : Held(o)' = IF o = owner THEN new ELSE Held(o)

LEMMA BoxesChangeHands ==
  ASSUME OneOwner, NEW owner \in Owners, NEW new, NEW n \in Nat,
         BoxesGoTo(owner, new, n)
  PROVE  OneOwner'
<1> DEFINE fresh == (made + 1) .. made'
<1> USE DEF OneOwner, BoxesGoTo
<1>1. made' \in Nat /\ fresh \subseteq 1 .. made' /\ 1 .. made' = (1 .. made) \cup fresh
      /\ fresh \cap (1 .. made) = {}
  OBVIOUS
<1>2. Held(owner) \subseteq Live /\ Live \subseteq 1 .. made
  BY DEF Live
<1>3. freed' \subseteq 1 .. made'
  BY <1>1, <1>2
<1>4. Live' = (Live \ Held(owner)) \cup new
  BY <1>1, <1>2 DEF Live
<1>5. \A o \in Owners \ {owner} : Held(o) \subseteq Live \ Held(owner)
  OBVIOUS
<1>9. \A o \in Owners \ {owner} : Held(o) \cap new = {} /\ Held(o)' = Held(o)
  <2>1. new \cap Live = {}
    BY <1>1, <1>2
  <2> QED  BY <2>1, <1>5
<1>6. \A o \in Owners : Held(o)' \subseteq Live'
  BY <1>4, <1>5
<1>7. ASSUME NEW o \in Owners, NEW p \in Owners, NEW c, c \in Held(o)', c \in Held(p)'
      PROVE  o = p
  <2>1. CASE o = owner /\ p # owner
    BY <1>7, <2>1, <1>9
  <2>2. CASE o # owner /\ p = owner
    BY <1>7, <2>2, <1>9
  <2>3. CASE o # owner /\ p # owner
    BY <1>7, <2>3
  <2> QED  BY <2>1, <2>2, <2>3
<1>8. ASSUME NEW c \in Live'
      PROVE  \E o \in Owners : c \in Held(o)'
  <2>1. CASE c \in new
    BY <2>1
  <2>2. CASE c \in Live \ Held(owner)
    <3>1. PICK o \in Owners : c \in Held(o)
      BY <2>2
    <3> QED  BY <2>2, <3>1
  <2> QED  BY <1>4, <1>8, <2>1, <2>2
<1> HIDE DEF fresh
<1> QED  BY <1>1, <1>3, <1>6, <1>7, <1>8

LEMMA BoxesFreed ==
  ASSUME OneOwner, NEW owner \in Owners, UNCHANGED made,
         freed' = freed \cup Held(owner),
         \A o \in Owners : Held(o)' = IF o = owner THEN {} ELSE Held(o)
  PROVE  OneOwner'
<1> DEFINE new == {}
<1>1. 0 \in Nat /\ made \in Nat
  BY DEF OneOwner
<1>2. made' = made + 0 /\ (made + 1) .. made' = {}
  BY <1>1
<1>3. freed' = freed \cup Held(owner) \cup (((made + 1) .. made') \ new)
  BY <1>2
<1>4. new \subseteq (made + 1) .. made'
  OBVIOUS
<1>5. \A o \in Owners : Held(o)' = IF o = owner THEN new ELSE Held(o)
  OBVIOUS
<1> HIDE DEF new
<1> QED  BY <1>1, <1>2, <1>3, <1>4, <1>5, BoxesChangeHands DEF BoxesGoTo

(* A call that owners have no part in frees whatever it boxes. *)
LEMMA BoxesStay ==
  ASSUME OneOwner, NEW n \in Nat, made' = made + n,
         freed' = freed \cup ((made + 1) .. made'),
         \A o \in Owners : Held(o)' = Held(o)
  PROVE  OneOwner'
<1> USE DEF OneOwner
<1>1. Live' = Live /\ freed' \subseteq 1 .. made' /\ made' \in Nat
  BY DEF Live
<1> QED  BY <1>1

-----------------------------------------------------------------------------
(* What IDA can call, and what runs, in terms of the boxes: there, or put  *)
(* an end to.                                                              *)
Accounted == Live \cup given_up

Linked ==
  /\ DOMAIN TIMER_CONTEXTS \subseteq DOMAIN g_timers
  /\ \A a \in DOMAIN g_timers :
       g_timers[a].closure # None => g_timers[a].closure \in Kept(TIMER_CONTEXTS, a)
  /\ \A id \in DOMAIN sdk_actions : Closures(sdk_actions[id]) \ {None} \subseteq KeptPair(id)
  /\ viewers \ {None} \subseteq shims
  /\ \A i \in DOMAIN popup : /\ popup[i].id \in DOMAIN POPUP_CONTEXTS
                            /\ popup[i].closure \in Accounted
  /\ \A i \in DOMAIN running : running[i] \in Accounted

ClosuresInv == ClosuresTypeOK /\ OneOwner /\ Linked

LEMMA PartialSet ==
  ASSUME NEW D, NEW R, NEW f \in PartialFunction(D, R), NEW k \in D, NEW v \in R
  PROVE  Set(f, k, v) \in PartialFunction(D, R)
<1>1. DOMAIN f \subseteq D /\ f \in [DOMAIN f -> R]
  BY DEF PartialFunction
<1>2. DOMAIN f \cup {k} \in SUBSET D
  BY <1>1
<1>3. Set(f, k, v) \in [DOMAIN f \cup {k} -> R]
  BY <1>1 DEF Set
<1> QED  BY <1>2, <1>3 DEF PartialFunction

LEMMA PartialWithout ==
  ASSUME NEW D, NEW R, NEW f \in PartialFunction(D, R), NEW k
  PROVE  Without(f, k) \in PartialFunction(D, R)
<1>1. DOMAIN f \subseteq D /\ f \in [DOMAIN f -> R]
  BY DEF PartialFunction
<1>2. DOMAIN f \ {k} \in SUBSET D
  BY <1>1
<1>3. Without(f, k) \in [DOMAIN f \ {k} -> R]
  BY <1>1 DEF Without, Restrict
<1> QED  BY <1>2, <1>3 DEF PartialFunction

LEMMA PartialIn ==
  ASSUME NEW D, NEW R, NEW f \in PartialFunction(D, R)
  PROVE  /\ DOMAIN f \subseteq D
         /\ \A x \in DOMAIN f : f[x] \in R
         /\ \A x : Kept(f, x) \subseteq R
         /\ \A x : x \notin DOMAIN f => Kept(f, x) = {}
         /\ f = [x \in DOMAIN f |-> f[x]]
  BY DEF PartialFunction, Kept

LEMMA PartialEmpty ==
  ASSUME NEW D, NEW R
  PROVE  << >> \in PartialFunction(D, R) /\ DOMAIN << >> = {}
<1>1. << >> \in [{} -> R]
  OBVIOUS
<1> QED  BY <1>1 DEF PartialFunction

-----------------------------------------------------------------------------
(* Who holds what, by kind. *)

LEMMA HeldByKind ==
  /\ \A a \in Addresses : /\ <<"timer", a>> \in Owners
                          /\ Held(<<"timer", a>>) = Kept(TIMER_CONTEXTS, a)
  /\ \A id \in ActionIds : /\ <<"action", id>> \in Owners
                           /\ Held(<<"action", id>>) = KeptPair(id) \ {None}
                           /\ <<"popup", id>> \in Owners
                           /\ Held(<<"popup", id>>) = Kept(POPUP_CONTEXTS, id)
  /\ \A c \in Closure : /\ <<"graph", c>> \in Owners
                        /\ Held(<<"graph", c>>) = shims \cap {c}
  BY DEF Owners, Held

LEMMA OwnerKinds ==
  ASSUME NEW o \in Owners
  PROVE  \/ \E a \in Addresses : o = <<"timer", a>>
         \/ \E id \in ActionIds : o = <<"action", id>> \/ o = <<"popup", id>>
         \/ \E c \in Closure : o = <<"graph", c>>
  BY DEF Owners

LEMMA TimersMove ==
  ASSUME NEW a \in Addresses, NEW new, UNCHANGED <<PLUGIN_CONTEXTS, POPUP_CONTEXTS, shims>>,
         \A x \in Addresses :
            Kept(TIMER_CONTEXTS, x)' = IF x = a THEN new ELSE Kept(TIMER_CONTEXTS, x)
  PROVE  \A o \in Owners : Held(o)' = IF o = <<"timer", a>> THEN new ELSE Held(o)
<1> TAKE o \in Owners
<1>1. CASE \E x \in Addresses : o = <<"timer", x>>
  BY <1>1 DEF Held
<1>2. CASE \E x \in ActionIds : o = <<"action", x>> \/ o = <<"popup", x>>
  BY <1>2 DEF Held, Kept, KeptPair
<1>3. CASE \E c \in Closure : o = <<"graph", c>>
  BY <1>3 DEF Held
<1> QED  BY <1>1, <1>2, <1>3, OwnerKinds

LEMMA ActionsMove ==
  ASSUME NEW id \in ActionIds, NEW new, UNCHANGED <<TIMER_CONTEXTS, POPUP_CONTEXTS, shims>>,
         \A x \in ActionIds : KeptPair(x)' \ {None} = IF x = id THEN new ELSE KeptPair(x) \ {None}
  PROVE  \A o \in Owners : Held(o)' = IF o = <<"action", id>> THEN new ELSE Held(o)
<1> TAKE o \in Owners
<1>1. CASE \E x \in Addresses : o = <<"timer", x>>
  BY <1>1 DEF Held, Kept
<1>2. CASE \E x \in ActionIds : o = <<"action", x>>
  BY <1>2 DEF Held
<1>4. CASE \E x \in ActionIds : o = <<"popup", x>>
  BY <1>4 DEF Held, Kept
<1>3. CASE \E c \in Closure : o = <<"graph", c>>
  BY <1>3 DEF Held
<1> QED  BY <1>1, <1>2, <1>3, <1>4, OwnerKinds

LEMMA PopupsMove ==
  ASSUME NEW id \in ActionIds, NEW new, UNCHANGED <<TIMER_CONTEXTS, PLUGIN_CONTEXTS, shims>>,
         \A x \in ActionIds :
            Kept(POPUP_CONTEXTS, x)' = IF x = id THEN new ELSE Kept(POPUP_CONTEXTS, x)
  PROVE  \A o \in Owners : Held(o)' = IF o = <<"popup", id>> THEN new ELSE Held(o)
<1> TAKE o \in Owners
<1>1. CASE \E x \in Addresses : o = <<"timer", x>>
  BY <1>1 DEF Held, Kept
<1>2. CASE \E x \in ActionIds : o = <<"action", x>>
  BY <1>2 DEF Held, Kept, KeptPair
<1>4. CASE \E x \in ActionIds : o = <<"popup", x>>
  BY <1>4 DEF Held
<1>3. CASE \E c \in Closure : o = <<"graph", c>>
  BY <1>3 DEF Held
<1> QED  BY <1>1, <1>2, <1>3, <1>4, OwnerKinds

LEMMA ShimsMove ==
  ASSUME NEW c \in Closure, NEW new, UNCHANGED <<TIMER_CONTEXTS, PLUGIN_CONTEXTS, POPUP_CONTEXTS>>,
         \A x \in Closure : shims' \cap {x} = IF x = c THEN new ELSE shims \cap {x}
  PROVE  \A o \in Owners : Held(o)' = IF o = <<"graph", c>> THEN new ELSE Held(o)
<1> TAKE o \in Owners
<1>1. CASE \E x \in Addresses : o = <<"timer", x>>
  BY <1>1 DEF Held, Kept
<1>2. CASE \E x \in ActionIds : o = <<"action", x>> \/ o = <<"popup", x>>
  BY <1>2 DEF Held, Kept, KeptPair
<1>3. CASE \E x \in Closure : o = <<"graph", x>>
  BY <1>3 DEF Held
<1> QED  BY <1>1, <1>2, <1>3, OwnerKinds

LEMMA NothingMoves ==
  ASSUME UNCHANGED <<TIMER_CONTEXTS, PLUGIN_CONTEXTS, POPUP_CONTEXTS, shims>>
  PROVE  /\ \A o \in Owners : Held(o)' = Held(o)
         /\ \A x : Kept(TIMER_CONTEXTS, x)' = Kept(TIMER_CONTEXTS, x)
         /\ \A x : KeptPair(x)' = KeptPair(x)
  BY DEF Held, Kept, KeptPair

-----------------------------------------------------------------------------
(* Each step leaves every box with one owner. *)

LEMMA InvUnfolds ==
  ASSUME ClosuresInv
  PROVE  ClosuresTypeOK /\ OneOwner /\ Linked /\ made \in Nat
  BY DEF ClosuresInv, OneOwner

LEMMA TimersOneOwner ==
  ASSUME ClosuresInv, NEW a \in Addresses,
         \/ register_timer_with_callback(a) \/ register_timer(a)
         \/ \E refused \in BOOLEAN : unregister_timer(a, refused)
  PROVE  OneOwner'
<1> DEFINE owner == <<"timer", a>>
<1>0. /\ ClosuresTypeOK /\ OneOwner /\ Linked /\ made \in Nat /\ owner \in Owners
      /\ Held(owner) = Kept(TIMER_CONTEXTS, a)
      /\ TIMER_CONTEXTS \in PartialFunction(Addresses, Closure)
  BY InvUnfolds, HeldByKind DEF ClosuresTypeOK
<1>1. CASE register_timer_with_callback(a)
  <2>1. a \notin DOMAIN TIMER_CONTEXTS
    BY <1>0, <1>1 DEF Linked, register_timer_with_callback
  <2>2. Held(owner) = {}
    BY <1>0, <2>1 DEF Kept
  <2>3. made' = made + 1 /\ freed' = freed /\ made + 1 \in Closure
    BY <1>0, <1>1, ClosuresAssumption DEF register_timer_with_callback, Box, Closure
  <2>4. \A x : Kept(TIMER_CONTEXTS, x)' = IF x = a THEN {made + 1} ELSE Kept(TIMER_CONTEXTS, x)
    <3>1. TIMER_CONTEXTS' = Set(TIMER_CONTEXTS, a, made + 1)
      BY <1>1 DEF register_timer_with_callback
    <3>2. \A x : Kept(Set(TIMER_CONTEXTS, a, made + 1), x)
                   = IF x = a THEN {made + 1} ELSE Kept(TIMER_CONTEXTS, x)
      BY DEF Kept, Set
    <3> QED  BY <3>1, <3>2 DEF Kept
  <2>5. UNCHANGED <<PLUGIN_CONTEXTS, POPUP_CONTEXTS, shims>>
    BY <1>1 DEF register_timer_with_callback, actions, popups, graphs
  <2>6. \A o \in Owners : Held(o)' = IF o = owner THEN {made + 1} ELSE Held(o)
    BY <2>4, <2>5, TimersMove
  <2>7. freed' = freed \cup Held(owner) \cup (((made + 1) .. made') \ {made + 1})
    BY <1>0, <2>2, <2>3
  <2>8. {made + 1} \subseteq (made + 1) .. made'
    BY <1>0, <2>3
  <2> HIDE DEF owner
  <2> QED  BY <1>0, <2>3, <2>6, <2>7, <2>8, BoxesChangeHands DEF BoxesGoTo
<1>2. CASE register_timer(a)
  <2>1. UNCHANGED <<made, freed, TIMER_CONTEXTS, PLUGIN_CONTEXTS, POPUP_CONTEXTS, shims>>
    BY <1>2 DEF register_timer, boxed, actions, popups, graphs
  <2> QED  BY <1>0, <2>1, NothingMoves, BoxesStay
<1>3. ASSUME NEW refused \in BOOLEAN, unregister_timer(a, refused)
      PROVE  OneOwner'
  <2>1. CASE refused
    <3>1. UNCHANGED <<made, freed, TIMER_CONTEXTS, PLUGIN_CONTEXTS, POPUP_CONTEXTS, shims>>
      BY <1>3, <2>1 DEF unregister_timer, boxed, timers, actions, popups, graphs
    <3> QED  BY <1>0, <3>1, NothingMoves, BoxesStay
  <2>2. CASE ~refused
    <3>1. /\ TIMER_CONTEXTS' = Without(TIMER_CONTEXTS, a)
          /\ Box(0, Kept(TIMER_CONTEXTS, a), Kept(TIMER_CONTEXTS, a))
          /\ UNCHANGED <<PLUGIN_CONTEXTS, POPUP_CONTEXTS, shims>>
      BY <1>3, <2>2 DEF unregister_timer, actions, popups, graphs
    <3>2. \A x : Kept(Without(TIMER_CONTEXTS, a), x)
                   = IF x = a THEN {} ELSE Kept(TIMER_CONTEXTS, x)
      BY DEF Kept, Without, Restrict
    <3>3. \A x : Kept(TIMER_CONTEXTS, x)' = IF x = a THEN {} ELSE Kept(TIMER_CONTEXTS, x)
      BY <3>1, <3>2 DEF Kept
    <3>4. \A o \in Owners : Held(o)' = IF o = owner THEN {} ELSE Held(o)
      BY <3>1, <3>3, TimersMove
    <3>5. None \notin Held(owner)
      BY <1>0 DEF OneOwner, Live, None
    <3>6. made' = made /\ freed' = freed \cup Held(owner)
      BY <1>0, <3>1, <3>5 DEF Box
    <3> HIDE DEF owner
    <3> QED  BY <1>0, <3>4, <3>6, BoxesFreed
  <2> QED  BY <2>1, <2>2
<1> QED  BY <1>1, <1>2, <1>3

LEMMA ActionsOneOwner ==
  ASSUME ClosuresInv, NEW id \in ActionIds,
         \/ \E checks \in BOOLEAN : register_action_with_context(id, checks)
         \/ register_action(id) \/ unregister_action(id)
  PROVE  OneOwner'
<1> DEFINE owner == <<"action", id>>
<1>0. /\ OneOwner /\ made \in Nat /\ owner \in Owners
      /\ Held(owner) = KeptPair(id) \ {None}
  BY InvUnfolds, HeldByKind
<1>1. ASSUME NEW checks \in BOOLEAN, register_action_with_context(id, checks)
      PROVE  OneOwner'
  <2> DEFINE n == IF checks THEN 2 ELSE 1
             new == IF checks THEN {made + 1, made + 2} ELSE {made + 1}
             pair == [handler |-> made + 1, enabled |-> IF checks THEN made + 2 ELSE None]
  <2>1. /\ Box(n, KeptPair(id), KeptPair(id))
        /\ PLUGIN_CONTEXTS' = Set(PLUGIN_CONTEXTS, id, pair)
        /\ UNCHANGED <<TIMER_CONTEXTS, POPUP_CONTEXTS, shims>>
    BY <1>1 DEF register_action_with_context, timers, popups, graphs
  <2>2. Closures(pair) \ {None} = new
    BY <1>0 DEF Closures, None
  <2>3. \A x : Kept(Set(PLUGIN_CONTEXTS, id, pair), x)
                 = IF x = id THEN {pair} ELSE Kept(PLUGIN_CONTEXTS, x)
    BY DEF Kept, Set
  <2> HIDE DEF pair
  <2>4. \A x : KeptPair(x)' = IF x = id THEN Closures(pair) ELSE KeptPair(x)
    BY <2>1, <2>3 DEF KeptPair, Kept
  <2>5. \A x \in ActionIds :
           KeptPair(x)' \ {None} = IF x = id THEN new ELSE KeptPair(x) \ {None}
    BY <2>2, <2>4
  <2>6. \A o \in Owners : Held(o)' = IF o = owner THEN new ELSE Held(o)
    <3> HIDE DEF new
    <3> QED  BY <2>1, <2>5, ActionsMove
  <2>7. n \in Nat /\ made' = made + n
    BY <2>1 DEF Box
  <2>10. new = (made + 1) .. made'
    <3>1. CASE checks
      BY <1>0, <2>7, <3>1
    <3>2. CASE ~checks
      BY <1>0, <2>7, <3>2
    <3> QED  BY <3>1, <3>2
  <2>8. freed' = freed \cup Held(owner)
    BY <1>0, <2>1 DEF Box
  <2>9. /\ freed' = freed \cup Held(owner) \cup (((made + 1) .. made') \ new)
        /\ new \subseteq (made + 1) .. made'
    BY <2>8, <2>10
  <2> HIDE DEF owner, new, n
  <2>11. BoxesGoTo(owner, new, n)
    BY <2>6, <2>7, <2>9 DEF BoxesGoTo
  <2> QED  BY <1>0, <2>7, <2>11, BoxesChangeHands
<1>2. ASSUME register_action(id) \/ unregister_action(id)
      PROVE  OneOwner'
  <2>1. /\ Box(0, KeptPair(id), KeptPair(id))
        /\ PLUGIN_CONTEXTS' = Without(PLUGIN_CONTEXTS, id)
        /\ UNCHANGED <<TIMER_CONTEXTS, POPUP_CONTEXTS, shims>>
    BY <1>2 DEF register_action, unregister_action, timers, popups, graphs
  <2>2. \A x : Kept(Without(PLUGIN_CONTEXTS, id), x)
                 = IF x = id THEN {} ELSE Kept(PLUGIN_CONTEXTS, x)
    BY DEF Kept, Without, Restrict
  <2>3. \A x : KeptPair(x)' = IF x = id THEN {} ELSE KeptPair(x)
    BY <2>1, <2>2 DEF KeptPair, Kept
  <2>4. \A o \in Owners : Held(o)' = IF o = owner THEN {} ELSE Held(o)
    <3> DEFINE new == {}
    <3>1. \A x \in ActionIds :
             KeptPair(x)' \ {None} = IF x = id THEN new ELSE KeptPair(x) \ {None}
      BY <2>3
    <3> HIDE DEF new
    <3>2. \A o \in Owners : Held(o)' = IF o = owner THEN new ELSE Held(o)
      BY <2>1, <3>1, ActionsMove
    <3> QED  BY <3>2 DEF new
  <2>5. made' = made /\ freed' = freed \cup Held(owner)
    BY <1>0, <2>1 DEF Box
  <2> HIDE DEF owner
  <2> QED  BY <1>0, <2>4, <2>5, BoxesFreed
<1> QED  BY <1>1, <1>2

LEMMA PopupsOneOwner ==
  ASSUME ClosuresInv, NEW id \in ActionIds, attach_dynamic_action(id)
  PROVE  OneOwner'
<1> DEFINE owner == <<"popup", id>>
<1>0. /\ OneOwner /\ made \in Nat /\ owner \in Owners
      /\ Held(owner) = Kept(POPUP_CONTEXTS, id)
  BY InvUnfolds, HeldByKind
<1>1. /\ Box(1, Kept(POPUP_CONTEXTS, id), Kept(POPUP_CONTEXTS, id))
      /\ POPUP_CONTEXTS' = Set(POPUP_CONTEXTS, id, made + 1)
      /\ UNCHANGED <<TIMER_CONTEXTS, PLUGIN_CONTEXTS, shims>>
  BY DEF attach_dynamic_action, timers, actions, graphs
<1>2. \A x : Kept(Set(POPUP_CONTEXTS, id, made + 1), x)
               = IF x = id THEN {made + 1} ELSE Kept(POPUP_CONTEXTS, x)
  BY DEF Kept, Set
<1>3. \A x : Kept(POPUP_CONTEXTS, x)' = IF x = id THEN {made + 1} ELSE Kept(POPUP_CONTEXTS, x)
  BY <1>1, <1>2 DEF Kept
<1>4. \A o \in Owners : Held(o)' = IF o = owner THEN {made + 1} ELSE Held(o)
  BY <1>1, <1>3, PopupsMove
<1>5. None \notin Held(owner)
  BY <1>0 DEF OneOwner, Live, None
<1>6. /\ made' = made + 1
      /\ freed' = freed \cup Held(owner) \cup (((made + 1) .. made') \ {made + 1})
      /\ {made + 1} \subseteq (made + 1) .. made'
  BY <1>0, <1>1, <1>5 DEF Box
<1> HIDE DEF owner
<1> QED  BY <1>0, <1>4, <1>6, BoxesChangeHands DEF BoxesGoTo

LEMMA GraphsOneOwner ==
  ASSUME ClosuresInv,
         \/ show_graph
         \/ \E closure \in Closure \cup {None} : ViewerDestroyed(closure)
  PROVE  OneOwner'
<1>0. /\ OneOwner /\ Linked /\ ClosuresTypeOK /\ made \in Nat
  BY InvUnfolds
<1>1. CASE show_graph
  <2> DEFINE owner == <<"graph", made + 1>>
  <2>1. /\ made + 1 \in Closure /\ made' = made + 1 /\ freed' = freed
        /\ shims' = shims \cup {made + 1}
        /\ UNCHANGED <<TIMER_CONTEXTS, PLUGIN_CONTEXTS, POPUP_CONTEXTS>>
    BY <1>0, <1>1, ClosuresAssumption
    DEF show_graph, Box, Closure, timers, actions, popups
  <2>2. owner \in Owners /\ Held(owner) = shims \cap {made + 1}
    BY <2>1, HeldByKind
  <2>3. Held(owner) = {}
    BY <1>0, <2>2 DEF OneOwner, Live
  <2>4. \A x \in Closure : shims' \cap {x} = IF x = made + 1 THEN {made + 1} ELSE shims \cap {x}
    BY <2>1
  <2>5. \A o \in Owners : Held(o)' = IF o = owner THEN {made + 1} ELSE Held(o)
    BY <2>1, <2>4, ShimsMove
  <2>6. /\ freed' = freed \cup Held(owner) \cup (((made + 1) .. made') \ {made + 1})
        /\ {made + 1} \subseteq (made + 1) .. made'
    BY <1>0, <2>1, <2>3
  <2> HIDE DEF owner
  <2> QED  BY <1>0, <2>1, <2>2, <2>5, <2>6, BoxesChangeHands DEF BoxesGoTo
<1>2. ASSUME NEW closure \in Closure \cup {None}, ViewerDestroyed(closure)
      PROVE  OneOwner'
  <2>1. /\ closure \in viewers /\ shims' = shims \ {closure}
        /\ Box(0, {closure}, {closure})
        /\ UNCHANGED <<TIMER_CONTEXTS, PLUGIN_CONTEXTS, POPUP_CONTEXTS>>
    BY <1>2 DEF ViewerDestroyed, timers, actions, popups
  <2>2. CASE closure = None
    <3>1. None \notin shims
      BY <1>0 DEF ClosuresTypeOK, Closure, None
    <3>2. UNCHANGED <<made, freed, shims>>
      BY <1>0, <2>1, <2>2, <3>1 DEF Box
    <3> QED  BY <1>0, <2>1, <3>2, NothingMoves, BoxesStay
  <2>3. CASE closure # None
    <3> DEFINE owner == <<"graph", closure>>
    <3>1. closure \in Closure /\ closure \in shims
      BY <1>0, <2>1, <2>3 DEF Linked
    <3>2. owner \in Owners /\ Held(owner) = {closure}
      BY <3>1, HeldByKind
    <3>3. \A o \in Owners : Held(o)' = IF o = owner THEN {} ELSE Held(o)
      <4> DEFINE new == {}
      <4>1. \A x \in Closure : shims' \cap {x} = IF x = closure THEN new ELSE shims \cap {x}
        BY <2>1
      <4> HIDE DEF new
      <4>2. \A o \in Owners : Held(o)' = IF o = owner THEN new ELSE Held(o)
        BY <2>1, <3>1, <4>1, ShimsMove
      <4> QED  BY <4>2 DEF new
    <3>4. made' = made /\ freed' = freed \cup Held(owner)
      BY <1>0, <2>1, <2>3, <3>2 DEF Box
    <3> HIDE DEF owner
    <3> QED  BY <1>0, <3>2, <3>3, <3>4, BoxesFreed
  <2> QED  BY <2>2, <2>3
<1> QED  BY <1>1, <1>2

(* What is refused leaves no box, and what runs or closes moves none.      *)
LEMMA OthersOneOwner ==
  ASSUME ClosuresInv,
         \/ TimerRefused \/ (\E checks \in BOOLEAN : ActionRefused(checks))
         \/ AttachRefused \/ ShowRefused \/ PopupCloses \/ ShowPlainGraph
         \/ (\E closure \in Closure : ClosureRuns(closure))
         \/ (\E stops \in BOOLEAN : ClosureReturns(stops))
         \/ UNCHANGED closurevars
  PROVE  OneOwner'
<1>0. OneOwner /\ made \in Nat
  BY InvUnfolds
<1>1. UNCHANGED <<TIMER_CONTEXTS, PLUGIN_CONTEXTS, POPUP_CONTEXTS, shims>>
  BY DEF TimerRefused, ActionRefused, AttachRefused, ShowRefused, PopupCloses,
         ShowPlainGraph, ClosureRuns, ClosureReturns, closurevars, timers, actions,
         popups, graphs
<1>2. CASE TimerRefused \/ AttachRefused \/ ShowRefused
  <2>1. made' = made + 1 /\ freed' = freed \cup ((made + 1) .. made')
    BY <1>0, <1>2 DEF TimerRefused, AttachRefused, ShowRefused, Box, None
  <2> QED  BY <1>0, <1>1, <2>1, NothingMoves, BoxesStay
<1>3. ASSUME NEW checks \in BOOLEAN, ActionRefused(checks)
      PROVE  OneOwner'
  <2> DEFINE n == IF checks THEN 2 ELSE 1
  <2>1. n \in Nat /\ made' = made + n /\ freed' = freed \cup ((made + 1) .. made')
    BY <1>0, <1>3 DEF ActionRefused, Box, None
  <2> HIDE DEF n
  <2> QED  BY <1>0, <1>1, <2>1, NothingMoves, BoxesStay
<1>4. CASE UNCHANGED boxed
  <2>1. made' = made /\ freed' = freed
    BY <1>4 DEF boxed
  <2>2. 0 \in Nat /\ made' = made + 0 /\ freed' = freed \cup ((made + 1) .. made')
    BY <1>0, <2>1
  <2> QED  BY <1>0, <1>1, <2>2, NothingMoves, BoxesStay
<1> QED
  BY <1>2, <1>3, <1>4 DEF PopupCloses, ShowPlainGraph, ClosureRuns, ClosureReturns, closurevars

-----------------------------------------------------------------------------
(* Each step keeps the types and what IDA can call. *)

BoxesTyped == made \in 0 .. MaxClosures /\ freed \subseteq 1 .. made /\ given_up \subseteq 1 .. made

(* Among the boxes that a call frees are new ones and those that it is     *)
(* meant to end.                                                           *)
LEMMA BoxKeeps ==
  ASSUME ClosuresInv, OneOwner', NEW n \in Nat, NEW now, NEW ended, Box(n, now, ended),
         ended \ {None} \subseteq 1 .. made,
         \A c \in now : c \in 1 .. made => c \in ended
  PROVE  BoxesTyped' /\ Accounted \subseteq Accounted'
<1>0. /\ made \in 0 .. MaxClosures /\ given_up \subseteq 1 .. made /\ made \in Nat
  BY InvUnfolds DEF ClosuresTypeOK
<1>1. made' = made + n /\ made' \in 0 .. MaxClosures /\ 1 .. made \subseteq 1 .. made'
  BY <1>0, ClosuresAssumption DEF Box
<1>2. freed' \subseteq 1 .. made' /\ given_up' \subseteq 1 .. made'
  BY <1>0, <1>1 DEF OneOwner, Box
<1>3. ASSUME NEW c \in Accounted
      PROVE  c \in Accounted'
  <2>1. c \in 1 .. made
    BY <1>0, <1>3 DEF Accounted, Live
  <2>2. c # None
    BY <2>1 DEF None
  <2>3. CASE c \in given_up
    BY <2>3 DEF Accounted, Box
  <2>4. CASE c \in Live /\ c \in now
    BY <2>1, <2>2, <2>4 DEF Accounted, Box
  <2>5. CASE c \in Live /\ c \notin now
    BY <1>1, <2>1, <2>5 DEF Accounted, Live, Box
  <2> QED  BY <1>3, <2>3, <2>4, <2>5 DEF Accounted
<1> QED  BY <1>1, <1>2, <1>3 DEF BoxesTyped

LEMMA BoxesStayTyped ==
  ASSUME ClosuresInv, UNCHANGED boxed
  PROVE  BoxesTyped' /\ Accounted' = Accounted
  BY InvUnfolds DEF ClosuresTypeOK, boxed, BoxesTyped, Accounted, Live

(* What a step leaves alone keeps its part of the invariant. *)
TimersLinked ==
  /\ g_timers \in PartialFunction(Addresses, TimerState)
  /\ TIMER_CONTEXTS \in PartialFunction(Addresses, Closure)
  /\ DOMAIN TIMER_CONTEXTS \subseteq DOMAIN g_timers
  /\ \A a \in DOMAIN g_timers :
       g_timers[a].closure # None => g_timers[a].closure \in Kept(TIMER_CONTEXTS, a)

ActionsLinked ==
  /\ sdk_actions \in PartialFunction(ActionIds, ActionContextPair)
  /\ PLUGIN_CONTEXTS \in PartialFunction(ActionIds, ActionContextPair)
  /\ \A id \in DOMAIN sdk_actions : Closures(sdk_actions[id]) \ {None} \subseteq KeptPair(id)

PopupsLinked ==
  /\ popup \in Seq(PopupEntry)
  /\ POPUP_CONTEXTS \in PartialFunction(ActionIds, Closure)
  /\ \A i \in DOMAIN popup : popup[i].id \in DOMAIN POPUP_CONTEXTS

GraphsLinked ==
  /\ viewers \subseteq Closure \cup {None}
  /\ shims \subseteq Closure
  /\ viewers \ {None} \subseteq shims

ClosuresAccounted ==
  /\ \A i \in DOMAIN popup : popup[i].closure \in Accounted
  /\ running \in Seq(Closure)
  /\ \A i \in DOMAIN running : running[i] \in Accounted

LEMMA InvByKind ==
  ClosuresInv <=>
    /\ OneOwner /\ BoxesTyped /\ ClosuresAccounted
    /\ TimersLinked /\ ActionsLinked /\ PopupsLinked /\ GraphsLinked
  BY DEF ClosuresInv, ClosuresTypeOK, Linked, BoxesTyped, TimersLinked, ActionsLinked,
         PopupsLinked, GraphsLinked, ClosuresAccounted

LEMMA KindsStay ==
  /\ TimersLinked /\ UNCHANGED timers => TimersLinked'
  /\ ActionsLinked /\ UNCHANGED actions => ActionsLinked'
  /\ PopupsLinked /\ UNCHANGED popups => PopupsLinked'
  /\ GraphsLinked /\ UNCHANGED graphs => GraphsLinked'
<1>1. TimersLinked /\ UNCHANGED timers => TimersLinked'
  BY DEF TimersLinked, timers, Kept
<1>2. ActionsLinked /\ UNCHANGED actions => ActionsLinked'
  BY DEF ActionsLinked, actions, KeptPair, Kept
<1>3. PopupsLinked /\ UNCHANGED popups => PopupsLinked'
  BY DEF PopupsLinked, popups
<1>4. GraphsLinked /\ UNCHANGED graphs => GraphsLinked'
  BY DEF GraphsLinked, graphs
<1> QED  BY <1>1, <1>2, <1>3, <1>4

(* A step that neither opens popup entries nor runs closures. *)
LEMMA AccountedStays ==
  ASSUME ClosuresInv, Accounted \subseteq Accounted', UNCHANGED <<popup, running>>
  PROVE  ClosuresAccounted'
  BY InvByKind DEF ClosuresAccounted

LEMMA TimersStep ==
  ASSUME ClosuresInv, NEW a \in Addresses,
         \/ register_timer_with_callback(a) \/ register_timer(a)
         \/ \E refused \in BOOLEAN : unregister_timer(a, refused)
  PROVE  ClosuresInv'
<1>0. /\ OneOwner /\ TimersLinked /\ ActionsLinked /\ PopupsLinked /\ GraphsLinked
      /\ made \in Nat /\ BoxesTyped
  BY InvByKind, InvUnfolds
<1>1. OneOwner'
  BY TimersOneOwner
<1>2. UNCHANGED <<running, actions, popups, graphs>>
  BY DEF register_timer_with_callback, register_timer, unregister_timer
<1>3. UNCHANGED <<popup, running>>
  BY <1>2 DEF popups
<1>4. BoxesTyped' /\ Accounted \subseteq Accounted'
  <2>1. CASE register_timer_with_callback(a)
    <3>1. Box(1, {}, {})
      BY <2>1 DEF register_timer_with_callback
    <3> QED  BY <1>1, <3>1, BoxKeeps
  <2>2. CASE UNCHANGED boxed
    BY <2>2, BoxesStayTyped
  <2>3. CASE Box(0, Kept(TIMER_CONTEXTS, a), Kept(TIMER_CONTEXTS, a))
    <3>1. Kept(TIMER_CONTEXTS, a) \subseteq 1 .. made
      <4>1. <<"timer", a>> \in Owners /\ Held(<<"timer", a>>) = Kept(TIMER_CONTEXTS, a)
        BY HeldByKind
      <4> QED  BY <1>0, <4>1 DEF OneOwner, Live
    <3> QED  BY <1>1, <2>3, <3>1, BoxKeeps
  <2> QED  BY <2>1, <2>2, <2>3 DEF register_timer, unregister_timer
<1>5. TimersLinked'
  <2>1. CASE register_timer_with_callback(a)
    <3> DEFINE state == [closure |-> made + 1, ticking |-> TRUE]
    <3>1. /\ made + 1 \in Closure /\ state \in TimerState
          /\ g_timers' = Set(g_timers, a, state)
          /\ TIMER_CONTEXTS' = Set(TIMER_CONTEXTS, a, made + 1)
      BY <1>0, <2>1, ClosuresAssumption
      DEF register_timer_with_callback, Box, Closure, TimerState
    <3>2a. Set(g_timers, a, state) \in PartialFunction(Addresses, TimerState)
      BY <1>0, <3>1, PartialSet DEF TimersLinked
    <3>2. /\ DOMAIN Set(g_timers, a, state) = DOMAIN g_timers \cup {a}
          /\ \A x \in DOMAIN g_timers \cup {a} :
                Set(g_timers, a, state)[x] = IF x = a THEN state ELSE g_timers[x]
      BY DEF Set
    <3>3a. Set(TIMER_CONTEXTS, a, made + 1) \in PartialFunction(Addresses, Closure)
      BY <1>0, <3>1, PartialSet DEF TimersLinked
    <3>3. /\ DOMAIN Set(TIMER_CONTEXTS, a, made + 1) = DOMAIN TIMER_CONTEXTS \cup {a}
      BY DEF Set
    <3>4. \A x : Kept(Set(TIMER_CONTEXTS, a, made + 1), x)
                   = IF x = a THEN {made + 1} ELSE Kept(TIMER_CONTEXTS, x)
      BY DEF Kept, Set
    <3>5. state.closure = made + 1
      OBVIOUS
    <3> HIDE DEF state
    <3> QED  BY <1>0, <3>1, <3>2a, <3>2, <3>3a, <3>3, <3>4, <3>5 DEF TimersLinked
  <2>2. CASE register_timer(a)
    <3> DEFINE state == [closure |-> None, ticking |-> TRUE]
    <3>1. /\ state \in TimerState /\ state.closure = None
          /\ g_timers' = Set(g_timers, a, state)
          /\ TIMER_CONTEXTS' = TIMER_CONTEXTS
      BY <2>2 DEF register_timer, TimerState
    <3>2a. Set(g_timers, a, state) \in PartialFunction(Addresses, TimerState)
      BY <1>0, <3>1, PartialSet DEF TimersLinked
    <3>2. /\ DOMAIN Set(g_timers, a, state) = DOMAIN g_timers \cup {a}
          /\ \A x \in DOMAIN g_timers \cup {a} :
                Set(g_timers, a, state)[x] = IF x = a THEN state ELSE g_timers[x]
      BY DEF Set
    <3> HIDE DEF state
    <3> QED  BY <1>0, <3>1, <3>2a, <3>2 DEF TimersLinked
  <2>3. ASSUME NEW refused \in BOOLEAN, unregister_timer(a, refused)
        PROVE  TimersLinked'
    <3>1. CASE refused
      BY <1>0, <2>3, <3>1, KindsStay DEF unregister_timer
    <3>2. CASE ~refused
      <4>1. /\ g_timers' = Without(g_timers, a)
            /\ TIMER_CONTEXTS' = Without(TIMER_CONTEXTS, a)
        BY <2>3, <3>2 DEF unregister_timer
      <4>2a. Without(g_timers, a) \in PartialFunction(Addresses, TimerState)
        BY <1>0, PartialWithout DEF TimersLinked
      <4>2. /\ DOMAIN Without(g_timers, a) = DOMAIN g_timers \ {a}
            /\ \A x \in DOMAIN g_timers \ {a} : Without(g_timers, a)[x] = g_timers[x]
        BY DEF Without, Restrict
      <4>3a. Without(TIMER_CONTEXTS, a) \in PartialFunction(Addresses, Closure)
        BY <1>0, PartialWithout DEF TimersLinked
      <4>3. /\ DOMAIN Without(TIMER_CONTEXTS, a) = DOMAIN TIMER_CONTEXTS \ {a}
        BY DEF Without, Restrict
      <4>4. \A x : Kept(Without(TIMER_CONTEXTS, a), x)
                     = IF x = a THEN {} ELSE Kept(TIMER_CONTEXTS, x)
        BY DEF Kept, Without, Restrict
      <4> QED  BY <1>0, <4>1, <4>2a, <4>2, <4>3a, <4>3, <4>4 DEF TimersLinked
    <3> QED  BY <3>1, <3>2
  <2> QED  BY <2>1, <2>2, <2>3
<1>6. ActionsLinked' /\ PopupsLinked' /\ GraphsLinked'
  BY <1>0, <1>2, KindsStay
<1>7. ClosuresAccounted'
  BY <1>3, <1>4, AccountedStays
<1> QED  BY <1>1, <1>4, <1>5, <1>6, <1>7, InvByKind, PTL

LEMMA ActionsStep ==
  ASSUME ClosuresInv, NEW id \in ActionIds,
         \/ \E checks \in BOOLEAN : register_action_with_context(id, checks)
         \/ register_action(id) \/ unregister_action(id)
  PROVE  ClosuresInv'
<1>0. /\ OneOwner /\ TimersLinked /\ ActionsLinked /\ PopupsLinked /\ GraphsLinked
      /\ made \in Nat /\ BoxesTyped
  BY InvByKind, InvUnfolds
<1>1. OneOwner'
  BY ActionsOneOwner
<1>2. UNCHANGED <<running, timers, popups, graphs>>
  BY DEF register_action_with_context, register_action, unregister_action
<1>3. UNCHANGED <<popup, running>>
  BY <1>2 DEF popups
<1>4. BoxesTyped' /\ Accounted \subseteq Accounted'
  <2>1. KeptPair(id) \ {None} \subseteq 1 .. made
    BY <1>0, HeldByKind DEF OneOwner, Live
  <2>2. \E n \in {0, 1, 2} : Box(n, KeptPair(id), KeptPair(id))
    BY DEF register_action_with_context, register_action, unregister_action
  <2> QED  BY <1>1, <2>1, <2>2, BoxKeeps
<1>5. ActionsLinked'
  <2>1. ASSUME NEW checks \in BOOLEAN, register_action_with_context(id, checks)
        PROVE  ActionsLinked'
    <3> DEFINE pair == [handler |-> made + 1, enabled |-> IF checks THEN made + 2 ELSE None]
    <3>1. /\ sdk_actions' = Set(sdk_actions, id, pair)
          /\ PLUGIN_CONTEXTS' = Set(PLUGIN_CONTEXTS, id, pair)
      BY <2>1 DEF register_action_with_context
    <3>2. pair \in ActionContextPair
      BY <1>0, <2>1, ClosuresAssumption
      DEF register_action_with_context, Box, Closure, ActionContextPair
    <3> HIDE DEF pair
    <3>3a. Set(sdk_actions, id, pair) \in PartialFunction(ActionIds, ActionContextPair)
      BY <1>0, <3>2, PartialSet DEF ActionsLinked
    <3>3. /\ DOMAIN Set(sdk_actions, id, pair) = DOMAIN sdk_actions \cup {id}
          /\ \A x \in DOMAIN sdk_actions \cup {id} :
                Set(sdk_actions, id, pair)[x] = IF x = id THEN pair ELSE sdk_actions[x]
      BY DEF Set
    <3>4. Set(PLUGIN_CONTEXTS, id, pair) \in PartialFunction(ActionIds, ActionContextPair)
      BY <1>0, <3>2, PartialSet DEF ActionsLinked
    <3>5. \A x : Kept(Set(PLUGIN_CONTEXTS, id, pair), x)
                   = IF x = id THEN {pair} ELSE Kept(PLUGIN_CONTEXTS, x)
      BY DEF Kept, Set
    <3>6. \A x : KeptPair(x)' = IF x = id THEN Closures(pair) ELSE KeptPair(x)
      BY <3>1, <3>5 DEF KeptPair, Kept
    <3> QED  BY <1>0, <3>1, <3>3a, <3>3, <3>4, <3>6 DEF ActionsLinked
  <2>2. CASE register_action(id)
    <3> DEFINE pair == [handler |-> None, enabled |-> None]
    <3>1. /\ sdk_actions' = Set(sdk_actions, id, pair)
          /\ PLUGIN_CONTEXTS' = Without(PLUGIN_CONTEXTS, id)
      BY <2>2 DEF register_action
    <3>2. pair \in ActionContextPair /\ Closures(pair) \ {None} = {}
      BY DEF ActionContextPair, Closures
    <3> HIDE DEF pair
    <3>3a. Set(sdk_actions, id, pair) \in PartialFunction(ActionIds, ActionContextPair)
      BY <1>0, <3>2, PartialSet DEF ActionsLinked
    <3>3. /\ DOMAIN Set(sdk_actions, id, pair) = DOMAIN sdk_actions \cup {id}
          /\ \A x \in DOMAIN sdk_actions \cup {id} :
                Set(sdk_actions, id, pair)[x] = IF x = id THEN pair ELSE sdk_actions[x]
      BY DEF Set
    <3>4. Without(PLUGIN_CONTEXTS, id) \in PartialFunction(ActionIds, ActionContextPair)
      BY <1>0, PartialWithout DEF ActionsLinked
    <3>5. \A x : Kept(Without(PLUGIN_CONTEXTS, id), x)
                   = IF x = id THEN {} ELSE Kept(PLUGIN_CONTEXTS, x)
      BY DEF Kept, Without, Restrict
    <3>6. \A x : KeptPair(x)' = IF x = id THEN {} ELSE KeptPair(x)
      BY <3>1, <3>5 DEF KeptPair, Kept
    <3> QED  BY <1>0, <3>1, <3>2, <3>3a, <3>3, <3>4, <3>6 DEF ActionsLinked
  <2>3. CASE unregister_action(id)
    <3>1. /\ sdk_actions' = Without(sdk_actions, id)
          /\ PLUGIN_CONTEXTS' = Without(PLUGIN_CONTEXTS, id)
      BY <2>3 DEF unregister_action
    <3>3a. Without(sdk_actions, id) \in PartialFunction(ActionIds, ActionContextPair)
      BY <1>0, PartialWithout DEF ActionsLinked
    <3>3. /\ DOMAIN Without(sdk_actions, id) = DOMAIN sdk_actions \ {id}
          /\ \A x \in DOMAIN sdk_actions \ {id} : Without(sdk_actions, id)[x] = sdk_actions[x]
      BY DEF Without, Restrict
    <3>4. Without(PLUGIN_CONTEXTS, id) \in PartialFunction(ActionIds, ActionContextPair)
      BY <1>0, PartialWithout DEF ActionsLinked
    <3>5. \A x : Kept(Without(PLUGIN_CONTEXTS, id), x)
                   = IF x = id THEN {} ELSE Kept(PLUGIN_CONTEXTS, x)
      BY DEF Kept, Without, Restrict
    <3>6. \A x : KeptPair(x)' = IF x = id THEN {} ELSE KeptPair(x)
      BY <3>1, <3>5 DEF KeptPair, Kept
    <3> QED  BY <1>0, <3>1, <3>3a, <3>3, <3>4, <3>6 DEF ActionsLinked
  <2> QED  BY <2>1, <2>2, <2>3
<1>6. TimersLinked' /\ PopupsLinked' /\ GraphsLinked'
  BY <1>0, <1>2, KindsStay
<1>7. ClosuresAccounted'
  BY <1>3, <1>4, AccountedStays
<1> QED  BY <1>1, <1>4, <1>5, <1>6, <1>7, InvByKind, PTL

LEMMA PopupsStep ==
  ASSUME ClosuresInv, NEW id \in ActionIds, attach_dynamic_action(id)
  PROVE  ClosuresInv'
<1>0. /\ OneOwner /\ TimersLinked /\ ActionsLinked /\ PopupsLinked /\ GraphsLinked
      /\ made \in Nat /\ BoxesTyped /\ ClosuresAccounted
  BY InvByKind, InvUnfolds
<1>1. OneOwner'
  BY PopupsOneOwner
<1>2. /\ UNCHANGED <<running, timers, actions, graphs>>
      /\ Box(1, Kept(POPUP_CONTEXTS, id), Kept(POPUP_CONTEXTS, id))
      /\ popup' = Append(popup, [id |-> id, closure |-> made + 1])
      /\ POPUP_CONTEXTS' = Set(POPUP_CONTEXTS, id, made + 1)
  BY DEF attach_dynamic_action
<1>3. made + 1 \in Closure /\ made' = made + 1
  BY <1>0, <1>2, ClosuresAssumption DEF Box, Closure
<1>4. BoxesTyped' /\ Accounted \subseteq Accounted'
  <2>1. <<"popup", id>> \in Owners /\ Held(<<"popup", id>>) = Kept(POPUP_CONTEXTS, id)
    BY HeldByKind
  <2>2. Kept(POPUP_CONTEXTS, id) \subseteq 1 .. made
    BY <1>0, <2>1 DEF OneOwner, Live
  <2> QED  BY <1>1, <1>2, <2>2, BoxKeeps
<1>5. PopupsLinked'
  <2>1. [id |-> id, closure |-> made + 1] \in PopupEntry
    BY <1>3 DEF PopupEntry
  <2>2. Set(POPUP_CONTEXTS, id, made + 1) \in PartialFunction(ActionIds, Closure)
    BY <1>0, <1>3, PartialSet DEF PopupsLinked
  <2>3. DOMAIN Set(POPUP_CONTEXTS, id, made + 1) = DOMAIN POPUP_CONTEXTS \cup {id}
    BY DEF Set
  <2> QED  BY <1>0, <1>2, <2>1, <2>2, <2>3 DEF PopupsLinked
<1>6. TimersLinked' /\ ActionsLinked' /\ GraphsLinked'
  BY <1>0, <1>2, KindsStay
<1>7. ClosuresAccounted'
  <2>1. made + 1 \in Accounted'
    <3>1. made + 1 \notin freed'
      <4>1. <<"popup", id>> \in Owners /\ Held(<<"popup", id>>) = Kept(POPUP_CONTEXTS, id)
        BY HeldByKind
      <4>2. Kept(POPUP_CONTEXTS, id) \subseteq 1 .. made /\ freed \subseteq 1 .. made
        BY <1>0, <4>1 DEF OneOwner, Live
      <4> QED  BY <1>0, <1>2, <4>2 DEF Box
    <3> QED  BY <1>0, <1>3, <3>1 DEF Accounted, Live
  <2>2. popup \in Seq(PopupEntry)
    BY <1>0 DEF PopupsLinked
  <2>3. ASSUME NEW i \in DOMAIN popup'
        PROVE  popup'[i].closure \in Accounted'
    <3>1. CASE i \in DOMAIN popup
      BY <1>0, <1>2, <1>4, <2>2, <3>1 DEF ClosuresAccounted
    <3>2. CASE i = Len(popup) + 1
      BY <1>2, <2>1, <2>2, <3>2
    <3> QED  BY <1>2, <2>2, <2>3, <3>1, <3>2
  <2> QED  BY <1>0, <1>2, <1>4, <2>3 DEF ClosuresAccounted
<1> QED  BY <1>1, <1>4, <1>5, <1>6, <1>7, InvByKind, PTL

LEMMA GraphsStep ==
  ASSUME ClosuresInv,
         \/ show_graph \/ ShowPlainGraph
         \/ \E closure \in Closure \cup {None} : ViewerDestroyed(closure)
  PROVE  ClosuresInv'
<1>0. /\ OneOwner /\ TimersLinked /\ ActionsLinked /\ PopupsLinked /\ GraphsLinked
      /\ made \in Nat /\ BoxesTyped
  BY InvByKind, InvUnfolds
<1>1. OneOwner'
  BY GraphsOneOwner, OthersOneOwner
<1>2. UNCHANGED <<running, timers, actions, popups>>
  BY DEF show_graph, ShowPlainGraph, ViewerDestroyed
<1>3. UNCHANGED <<popup, running>>
  BY <1>2 DEF popups
<1>4. BoxesTyped' /\ Accounted \subseteq Accounted'
  <2>1. CASE show_graph
    <3>1. Box(1, {}, {})
      BY <2>1 DEF show_graph
    <3> QED  BY <1>1, <3>1, BoxKeeps
  <2>2. CASE ShowPlainGraph
    BY <2>2, BoxesStayTyped DEF ShowPlainGraph
  <2>3. ASSUME NEW closure \in Closure \cup {None}, ViewerDestroyed(closure)
        PROVE  BoxesTyped' /\ Accounted \subseteq Accounted'
    <3>1. Box(0, {closure}, {closure}) /\ closure \in viewers
      BY <2>3 DEF ViewerDestroyed
    <3>2. {closure} \ {None} \subseteq 1 .. made
      <4>1. CASE closure = None
        BY <4>1
      <4>2. CASE closure # None
        <5>1. closure \in Closure /\ closure \in shims
          BY <1>0, <2>3, <3>1, <4>2 DEF GraphsLinked
        <5>2. <<"graph", closure>> \in Owners /\ closure \in Held(<<"graph", closure>>)
          BY <5>1, HeldByKind
        <5> QED  BY <1>0, <5>2 DEF OneOwner, Live
      <4> QED  BY <4>1, <4>2
    <3> QED  BY <1>1, <3>1, <3>2, BoxKeeps
  <2> QED  BY <2>1, <2>2, <2>3
<1>5. GraphsLinked'
  <2>1. CASE show_graph
    <3>1. made + 1 \in Closure
      BY <1>0, <2>1, ClosuresAssumption DEF show_graph, Box, Closure
    <3> QED  BY <1>0, <2>1, <3>1 DEF GraphsLinked, show_graph
  <2>2. CASE ShowPlainGraph
    BY <1>0, <2>2 DEF GraphsLinked, ShowPlainGraph
  <2>3. CASE \E closure \in Closure \cup {None} : ViewerDestroyed(closure)
    BY <1>0, <2>3 DEF GraphsLinked, ViewerDestroyed
  <2> QED  BY <2>1, <2>2, <2>3
<1>6. TimersLinked' /\ ActionsLinked' /\ PopupsLinked'
  BY <1>0, <1>2, KindsStay
<1>7. ClosuresAccounted'
  BY <1>3, <1>4, AccountedStays
<1> QED  BY <1>1, <1>4, <1>5, <1>6, <1>7, InvByKind, PTL

(* The closures that IDA calls are there, but for those of popup entries.  *)
LEMMA CallableAccounted ==
  ASSUME ClosuresInv
  PROVE  /\ Callable \subseteq Accounted
         /\ \A c \in Callable : c \in Live \/ \E i \in DOMAIN popup : popup[i].closure = c
<1>0. /\ OneOwner /\ TimersLinked /\ ActionsLinked /\ GraphsLinked /\ ClosuresAccounted
  BY InvByKind
<1>1. ASSUME NEW c \in Callable
      PROVE  c \in Live \/ \E i \in DOMAIN popup : popup[i].closure = c
  <2>0. c # None
    BY DEF Callable
  <2>1. ASSUME NEW a \in DOMAIN g_timers, g_timers[a].closure = c
        PROVE  c \in Live
    <3>1. c \in Kept(TIMER_CONTEXTS, a) /\ a \in Addresses
      BY <1>0, <2>0, <2>1 DEF TimersLinked, PartialFunction
    <3>2. <<"timer", a>> \in Owners /\ Held(<<"timer", a>>) = Kept(TIMER_CONTEXTS, a)
      BY <3>1, HeldByKind
    <3> QED  BY <1>0, <3>1, <3>2 DEF OneOwner
  <2>2. ASSUME NEW id \in DOMAIN sdk_actions, c \in Closures(sdk_actions[id])
        PROVE  c \in Live
    <3>1. c \in KeptPair(id) \ {None} /\ id \in ActionIds
      BY <1>0, <2>0, <2>2 DEF ActionsLinked, PartialFunction
    <3>2. <<"action", id>> \in Owners /\ Held(<<"action", id>>) = KeptPair(id) \ {None}
      BY <3>1, HeldByKind
    <3> QED  BY <1>0, <3>1, <3>2 DEF OneOwner
  <2>3. CASE c \in viewers
    <3>1. c \in shims /\ c \in Closure
      BY <1>0, <2>0, <2>3 DEF GraphsLinked
    <3>2. <<"graph", c>> \in Owners /\ c \in Held(<<"graph", c>>)
      BY <3>1, HeldByKind
    <3> QED  BY <1>0, <3>2 DEF OneOwner
  <2>4. \/ \E a \in DOMAIN g_timers : g_timers[a].closure = c
        \/ \E id \in DOMAIN sdk_actions : c \in Closures(sdk_actions[id])
        \/ \E i \in DOMAIN popup : popup[i].closure = c
        \/ c \in viewers
    BY <1>1 DEF Callable
  <2> QED  BY <2>1, <2>2, <2>3, <2>4
<1>2. \A c \in Callable : c \in Accounted
  BY <1>0, <1>1 DEF ClosuresAccounted, Accounted
<1> QED  BY <1>1, <1>2

LEMMA OthersStep ==
  ASSUME ClosuresInv,
         \/ TimerRefused \/ (\E checks \in BOOLEAN : ActionRefused(checks))
         \/ AttachRefused \/ ShowRefused \/ PopupCloses
         \/ (\E closure \in Closure : ClosureRuns(closure))
         \/ (\E stops \in BOOLEAN : ClosureReturns(stops))
         \/ UNCHANGED closurevars
  PROVE  ClosuresInv'
<1>0. /\ OneOwner /\ TimersLinked /\ ActionsLinked /\ PopupsLinked /\ GraphsLinked
      /\ made \in Nat /\ BoxesTyped /\ ClosuresAccounted
  BY InvByKind, InvUnfolds
<1>1. OneOwner'
  BY OthersOneOwner
<1>2. CASE \/ TimerRefused \/ (\E checks \in BOOLEAN : ActionRefused(checks))
           \/ AttachRefused \/ ShowRefused
  <2>1. UNCHANGED <<running, timers, actions, popups, graphs>>
    BY <1>2 DEF TimerRefused, ActionRefused, AttachRefused, ShowRefused
  <2>2. TimersLinked' /\ ActionsLinked' /\ PopupsLinked' /\ GraphsLinked'
    BY <1>0, <2>1, KindsStay
  <2>3. UNCHANGED <<popup, running>>
    BY <2>1 DEF popups
  <2>4. PICK n \in {1, 2}, now \in SUBSET {made + 1, made + 2} : Box(n, now, {})
    BY <1>2 DEF TimerRefused, ActionRefused, AttachRefused, ShowRefused
  <2>5. BoxesTyped' /\ Accounted \subseteq Accounted'
    <3>1. n \in Nat /\ {} \ {None} \subseteq 1 .. made /\ \A c \in now : c \notin 1 .. made
      BY <1>0
    <3> QED  BY <1>1, <2>4, <3>1, BoxKeeps
  <2>6. ClosuresAccounted'
    BY <2>3, <2>5, AccountedStays
  <2> QED  BY <1>1, <2>2, <2>5, <2>6, InvByKind, PTL
<1>3. CASE PopupCloses
  <2>1. /\ UNCHANGED <<boxed, running, timers, actions, POPUP_CONTEXTS, graphs>>
        /\ popup' = << >>
    BY <1>3 DEF PopupCloses
  <2>2. TimersLinked' /\ ActionsLinked' /\ GraphsLinked'
    BY <1>0, <2>1, KindsStay
  <2>3. BoxesTyped' /\ Accounted' = Accounted
    BY <2>1, BoxesStayTyped
  <2>4. PopupsLinked' /\ ClosuresAccounted'
    BY <1>0, <2>1, <2>3 DEF PopupsLinked, ClosuresAccounted
  <2> QED  BY <1>1, <2>2, <2>3, <2>4, InvByKind, PTL
<1>4. ASSUME NEW closure \in Closure, ClosureRuns(closure)
      PROVE  ClosuresInv'
  <2>1. /\ UNCHANGED <<boxed, timers, actions, popups, graphs>>
        /\ running' = Append(running, closure)
        /\ closure \in Accounted
    BY <1>4, CallableAccounted DEF ClosureRuns
  <2>2. TimersLinked' /\ ActionsLinked' /\ PopupsLinked' /\ GraphsLinked'
    BY <1>0, <2>1, KindsStay
  <2>3. BoxesTyped' /\ Accounted' = Accounted
    BY <2>1, BoxesStayTyped
  <2>4. ClosuresAccounted'
    BY <1>0, <1>4, <2>1, <2>3 DEF ClosuresAccounted, popups
  <2> QED  BY <1>1, <2>2, <2>3, <2>4, InvByKind, PTL
<1>5. ASSUME NEW stops \in BOOLEAN, ClosureReturns(stops)
      PROVE  ClosuresInv'
  <2>1. /\ UNCHANGED <<boxed, TIMER_CONTEXTS, actions, popups, graphs>>
        /\ running # << >> /\ running' = Front(running)
    BY <1>5 DEF ClosureReturns
  <2>2. ActionsLinked' /\ PopupsLinked' /\ GraphsLinked'
    BY <1>0, <2>1, KindsStay
  <2>3. BoxesTyped' /\ Accounted' = Accounted
    BY <2>1, BoxesStayTyped
  <2>4. ClosuresAccounted'
    <3>1. running \in Seq(Closure)
      BY <1>0 DEF ClosuresAccounted
    <3>2. running' \in Seq(Closure) /\ \A i \in DOMAIN running' : i \in DOMAIN running /\ running'[i] = running[i]
      BY <2>1, <3>1, FrontOfSeq
    <3> QED  BY <1>0, <2>1, <2>3, <3>2 DEF ClosuresAccounted, popups
  <2>5. TimersLinked'
    <3>1. \A a \in DOMAIN g_timers : g_timers[a] \in TimerState /\ a \in Addresses
      BY <1>0 DEF TimersLinked, PartialFunction
    <3>2. /\ DOMAIN g_timers' = DOMAIN g_timers
          /\ g_timers' \in [DOMAIN g_timers -> TimerState]
          /\ \A a \in DOMAIN g_timers : g_timers'[a].closure = g_timers[a].closure
      BY <1>5, <3>1 DEF ClosureReturns, TimerState
    <3>3. DOMAIN g_timers \in SUBSET Addresses
      BY <3>1
    <3>4. g_timers' \in PartialFunction(Addresses, TimerState)
      BY <3>2, <3>3 DEF PartialFunction
    <3> QED  BY <1>0, <2>1, <3>2, <3>4 DEF TimersLinked
  <2> QED  BY <1>1, <2>2, <2>3, <2>4, <2>5, InvByKind, PTL
<1>6. CASE UNCHANGED closurevars
  <2>1. UNCHANGED <<boxed, running, popup, timers, actions, popups, graphs>>
    BY <1>6 DEF closurevars, popups
  <2>2. BoxesTyped' /\ Accounted' = Accounted
    BY <2>1, BoxesStayTyped
  <2>3. TimersLinked' /\ ActionsLinked' /\ PopupsLinked' /\ GraphsLinked'
    BY <1>0, <2>1, KindsStay
  <2>4. ClosuresAccounted'
    BY <2>1, <2>2, AccountedStays
  <2> QED  BY <1>1, <2>2, <2>3, <2>4, InvByKind, PTL
<1> QED  BY <1>2, <1>3, <1>4, <1>5, <1>6

LEMMA ClosuresInductive ==
  ASSUME ClosuresInv, [ClosuresNext]_closurevars
  PROVE  ClosuresInv'
  BY TimersStep, ActionsStep, PopupsStep, GraphsStep, OthersStep DEF ClosuresNext

LEMMA ClosuresStart ==
  ASSUME ClosuresInit
  PROVE  ClosuresInv
<1> USE DEF ClosuresInit
<1>1. made = 0 /\ freed = {} /\ given_up = {} /\ 1 .. made = {} /\ Live = {}
  BY DEF Live
<1>2. \A o \in Owners : Held(o) = {}
  BY DEF Held, KeptPair, Kept, Owners
<1>3. OneOwner
  BY <1>1, <1>2 DEF OneOwner
<1>4. BoxesTyped /\ ClosuresAccounted
  BY <1>1, ClosuresAssumption DEF BoxesTyped, ClosuresAccounted
<1>5. TimersLinked /\ ActionsLinked /\ PopupsLinked /\ GraphsLinked
  BY PartialEmpty DEF TimersLinked, ActionsLinked, PopupsLinked, GraphsLinked
<1> QED  BY <1>3, <1>4, <1>5, InvByKind

-----------------------------------------------------------------------------
(* What the invariant says in the words of the properties. *)

LEMMA CallableLive ==
  ASSUME ClosuresInv
  PROVE  CallableClosuresLive
<1> DEFINE Superseded == {e \in Range(popup) : POPUP_CONTEXTS[e.id] # e.closure}
<1>0. OneOwner /\ PopupsLinked /\ ClosuresAccounted
  BY InvByKind
<1>1. ASSUME NEW c \in Callable, c \notin {e.closure : e \in Superseded}
      PROVE  c \notin freed
  <2>1. CASE c \in Live
    BY <2>1 DEF Live
  <2>2. ASSUME NEW i \in DOMAIN popup, popup[i].closure = c
        PROVE  c \notin freed
    <3>1. popup[i] \in Range(popup) /\ popup[i] \notin Superseded
      BY <1>1, <2>2 DEF Range
    <3>5. POPUP_CONTEXTS[popup[i].id] = c
      BY <2>2, <3>1
    <3>6. popup[i].id \in DOMAIN POPUP_CONTEXTS
      BY <1>0 DEF PopupsLinked
    <3>7. DOMAIN POPUP_CONTEXTS \subseteq ActionIds
      BY <1>0 DEF PopupsLinked, PartialFunction
    <3>2. /\ popup[i].id \in DOMAIN POPUP_CONTEXTS /\ popup[i].id \in ActionIds
          /\ POPUP_CONTEXTS[popup[i].id] = c
      BY <3>5, <3>6, <3>7
    <3>3. c \in Kept(POPUP_CONTEXTS, popup[i].id)
      BY <3>2 DEF Kept
    <3>4. /\ <<"popup", popup[i].id>> \in Owners
          /\ Held(<<"popup", popup[i].id>>) = Kept(POPUP_CONTEXTS, popup[i].id)
      BY <3>2, HeldByKind
    <3> QED  BY <1>0, <3>3, <3>4 DEF OneOwner, Live
  <2> QED  BY <2>1, <2>2, CallableAccounted
<1>2. Range(running) \cap freed \subseteq given_up
  BY <1>0 DEF ClosuresAccounted, Accounted, Live, Range
<1> QED  BY <1>1, <1>2 DEF CallableClosuresLive

(* A set all of whose elements are one, and that has one or none. *)
LEMMA CountOne ==
  ASSUME NEW S, NEW e, \A x \in S : x = e
  PROVE  Cardinality(S) = IF e \in S THEN 1 ELSE 0
<1>1. CASE e \in S
  <2>1. S = {e}
    BY <1>1
  <2>2. Cardinality({e}) = 1
    BY FS_Singleton
  <2> QED  BY <1>1, <2>1, <2>2
<1>2. CASE e \notin S
  <2>1. S = {}
    BY <1>2
  <2>2. Cardinality({}) = 0
    BY FS_EmptySet
  <2> QED  BY <1>2, <2>1, <2>2
<1> QED  BY <1>1, <1>2

TimerOwners(c) == {t \in DOMAIN TIMER_CONTEXTS : TIMER_CONTEXTS[t] = c}
ActionOwners(c) == {id \in DOMAIN PLUGIN_CONTEXTS : c \in Closures(PLUGIN_CONTEXTS[id])}
PopupOwners(c) == {id \in DOMAIN POPUP_CONTEXTS : POPUP_CONTEXTS[id] = c}

LEMMA OwnersByKind ==
  ASSUME ClosuresInv, NEW c, c # None
  PROVE  /\ \A t : t \in TimerOwners(c) <=> <<"timer", t>> \in Owners /\ c \in Held(<<"timer", t>>)
         /\ \A x : x \in ActionOwners(c) <=> <<"action", x>> \in Owners /\ c \in Held(<<"action", x>>)
         /\ \A x : x \in PopupOwners(c) <=> <<"popup", x>> \in Owners /\ c \in Held(<<"popup", x>>)
         /\ c \in shims <=> <<"graph", c>> \in Owners /\ c \in Held(<<"graph", c>>)
<1>0. TimersLinked /\ ActionsLinked /\ PopupsLinked /\ GraphsLinked
  BY InvByKind
<1>1. /\ DOMAIN TIMER_CONTEXTS \subseteq Addresses
      /\ DOMAIN PLUGIN_CONTEXTS \subseteq ActionIds
      /\ DOMAIN POPUP_CONTEXTS \subseteq ActionIds
  BY <1>0 DEF TimersLinked, ActionsLinked, PopupsLinked, PartialFunction
<1>2. /\ \A a : <<"timer", a>> \in Owners <=> a \in Addresses
      /\ \A x : <<"action", x>> \in Owners <=> x \in ActionIds
      /\ \A x : <<"popup", x>> \in Owners <=> x \in ActionIds
      /\ <<"graph", c>> \in Owners <=> c \in Closure
  BY DEF Owners
<1>3. \A x : x \in TimerOwners(c) <=> <<"timer", x>> \in Owners /\ c \in Held(<<"timer", x>>)
  <2> TAKE x
  <2>1. CASE x \in Addresses
    <3>1. Held(<<"timer", x>>) = Kept(TIMER_CONTEXTS, x)
      BY <2>1, HeldByKind
    <3> QED  BY <1>2, <2>1, <3>1 DEF TimerOwners, Kept
  <2>2. CASE x \notin Addresses
    BY <1>1, <1>2, <2>2 DEF TimerOwners
  <2> QED  BY <2>1, <2>2
<1>4. \A x : x \in ActionOwners(c) <=> <<"action", x>> \in Owners /\ c \in Held(<<"action", x>>)
  <2> TAKE x
  <2>1. CASE x \in ActionIds
    <3>1. Held(<<"action", x>>) = KeptPair(x) \ {None}
      BY <2>1, HeldByKind
    <3> QED  BY <1>2, <2>1, <3>1 DEF ActionOwners, KeptPair, Kept
  <2>2. CASE x \notin ActionIds
    BY <1>1, <1>2, <2>2 DEF ActionOwners
  <2> QED  BY <2>1, <2>2
<1>5. \A x : x \in PopupOwners(c) <=> <<"popup", x>> \in Owners /\ c \in Held(<<"popup", x>>)
  <2> TAKE x
  <2>1. CASE x \in ActionIds
    <3>1. Held(<<"popup", x>>) = Kept(POPUP_CONTEXTS, x)
      BY <2>1, HeldByKind
    <3> QED  BY <1>2, <2>1, <3>1 DEF PopupOwners, Kept
  <2>2. CASE x \notin ActionIds
    BY <1>1, <1>2, <2>2 DEF PopupOwners
  <2> QED  BY <2>1, <2>2
<1>6. c \in shims <=> <<"graph", c>> \in Owners /\ c \in Held(<<"graph", c>>)
  BY <1>0, <1>2, HeldByKind DEF GraphsLinked
<1> QED  BY <1>3, <1>4, <1>5, <1>6

CountOwners(c) ==
  Cardinality(TimerOwners(c)) + Cardinality(ActionOwners(c)) + Cardinality(PopupOwners(c))
  + (IF c \in shims THEN 1 ELSE 0)

LEMMA OwnersCounted ==
  ASSUME ClosuresInv, NEW c \in 1 .. made
  PROVE  CountOwners(c) = IF c \in freed THEN 0 ELSE 1
<1>0. OneOwner /\ made \in Nat /\ c # None
  BY InvUnfolds DEF None
<1>1. CASE c \in freed
  <2>1. \A o \in Owners : c \notin Held(o)
    BY <1>0, <1>1 DEF OneOwner, Live
  <2>2. TimerOwners(c) = {} /\ ActionOwners(c) = {} /\ PopupOwners(c) = {} /\ c \notin shims
    BY <1>0, <2>1, OwnersByKind
  <2>3. Cardinality({}) = 0
    BY FS_EmptySet
  <2> QED  BY <1>1, <2>2, <2>3 DEF CountOwners
<1>2. CASE c \notin freed
  <2>1. PICK o \in Owners : c \in Held(o)
    BY <1>0, <1>2 DEF OneOwner, Live
  <2>2. \A p \in Owners : c \in Held(p) => p = o
    BY <1>0, <2>1 DEF OneOwner
  <2>3. /\ \A t \in TimerOwners(c) : o = <<"timer", t>>
        /\ \A x \in ActionOwners(c) : o = <<"action", x>>
        /\ \A x \in PopupOwners(c) : o = <<"popup", x>>
        /\ c \in shims => o = <<"graph", c>>
    BY <1>0, <2>2, OwnersByKind
  <2>4. ASSUME NEW a, o = <<"timer", a>>
        PROVE  CountOwners(c) = 1
    <3>1. a \in TimerOwners(c)
      BY <1>0, <2>1, <2>4, OwnersByKind
    <3>2. /\ \A t \in TimerOwners(c) : t = a
          /\ ActionOwners(c) = {} /\ PopupOwners(c) = {} /\ c \notin shims
      BY <2>3, <2>4
    <3>3. Cardinality(TimerOwners(c)) = 1 /\ Cardinality({}) = 0
      BY <3>1, <3>2, CountOne, FS_EmptySet
    <3> QED  BY <3>2, <3>3 DEF CountOwners
  <2>5. ASSUME NEW a, o = <<"action", a>>
        PROVE  CountOwners(c) = 1
    <3>1. a \in ActionOwners(c)
      BY <1>0, <2>1, <2>5, OwnersByKind
    <3>2. /\ \A t \in ActionOwners(c) : t = a
          /\ TimerOwners(c) = {} /\ PopupOwners(c) = {} /\ c \notin shims
      BY <2>3, <2>5
    <3>3. Cardinality(ActionOwners(c)) = 1 /\ Cardinality({}) = 0
      BY <3>1, <3>2, CountOne, FS_EmptySet
    <3> QED  BY <3>2, <3>3 DEF CountOwners
  <2>6. ASSUME NEW a, o = <<"popup", a>>
        PROVE  CountOwners(c) = 1
    <3>1. a \in PopupOwners(c)
      BY <1>0, <2>1, <2>6, OwnersByKind
    <3>2. /\ \A t \in PopupOwners(c) : t = a
          /\ TimerOwners(c) = {} /\ ActionOwners(c) = {} /\ c \notin shims
      BY <2>3, <2>6
    <3>3. Cardinality(PopupOwners(c)) = 1 /\ Cardinality({}) = 0
      BY <3>1, <3>2, CountOne, FS_EmptySet
    <3> QED  BY <3>2, <3>3 DEF CountOwners
  <2>7. ASSUME NEW a \in Closure, o = <<"graph", a>>
        PROVE  CountOwners(c) = 1
    <3>1. a = c
      BY <2>1, <2>7, HeldByKind
    <3>2. c \in shims
      BY <1>0, <2>1, <2>7, <3>1, OwnersByKind
    <3>3. TimerOwners(c) = {} /\ ActionOwners(c) = {} /\ PopupOwners(c) = {}
      BY <2>3, <2>7
    <3>4. Cardinality({}) = 0
      BY FS_EmptySet
    <3> QED  BY <3>2, <3>3, <3>4 DEF CountOwners
  <2> QED  BY <1>2, <2>4, <2>5, <2>6, <2>7, OwnerKinds
<1> QED  BY <1>1, <1>2

LEMMA ClosuresInvSound ==
  ASSUME ClosuresInv
  PROVE  ClosuresSound
<1>1. CallableClosuresLive
  BY CallableLive
<1>2. ClosuresTypeOK
  BY InvUnfolds
<1>3. \A c \in 1 .. made : CountOwners(c) = IF c \in freed THEN 0 ELSE 1
  BY OwnersCounted
<1>4. ClosuresOwnedOnce
  BY <1>2, <1>3 DEF ClosuresOwnedOnce, CountOwners, TimerOwners, ActionOwners, PopupOwners
<1> QED  BY <1>1, <1>4 DEF ClosuresSound

(* Whatever IDA can still call has its box, and a box that is not freed    *)
(* has exactly one owner, after any sequence of registrations, refusals,   *)
(* callbacks that end their own subscription, and destroyed viewers.       *)
THEOREM ClosuresAreSound == ClosuresSpec => []ClosuresSound
<1>1. ClosuresInit => ClosuresInv
  BY ClosuresStart
<1>2. ClosuresInv /\ [ClosuresNext]_closurevars => ClosuresInv'
  BY ClosuresInductive
<1>3. ClosuresInv => ClosuresSound
  BY ClosuresInvSound
<1> QED  BY <1>1, <1>2, <1>3, PTL DEF ClosuresSpec

-----------------------------------------------------------------------------
(* The contexts of subscriptions. *)

Issued(t) == t \in SubToken /\ t[2] <= last_token[t[1]]

(* Whose unsubscribing drops the context of a listener's entry. *)
Drops(key, t) == key = t \/ (key \in DOMAIN routes /\ t \in routes[key])

ContextsOwned ==
  /\ \A t, u \in DOMAIN SUB_CONTEXTS : SUB_CONTEXTS[t] = SUB_CONTEXTS[u] => t = u
  /\ \A t \in DOMAIN SUB_CONTEXTS : /\ SUB_CONTEXTS[t] \in contexts_boxed
                                    /\ t \in returned
                                    /\ t \in DOMAIN subs \cup DOMAIN routes
  /\ \A c \in contexts_boxed : \E t \in DOMAIN SUB_CONTEXTS : SUB_CONTEXTS[t] = c
  /\ \A t \in DOMAIN subs :
       \/ subs[t].context = None
       \/ \E key \in DOMAIN SUB_CONTEXTS : /\ SUB_CONTEXTS[key] = subs[t].context
                                           /\ Drops(key, t)

(* The tokens behind a generic token are its own, and no client has them.  *)
RoutesApart ==
  /\ \A t \in DOMAIN subs : Issued(t) /\ t[1] # "generic"
  /\ \A t \in DOMAIN routes : Issued(t) /\ t[1] = "generic"
  /\ \A t \in returned : Issued(t)
  /\ \A t \in DOMAIN routes : routes[t] \subseteq DOMAIN subs \ returned
  /\ \A t, u \in DOMAIN routes : \A v \in routes[t] : v \in routes[u] => t = u

(* A call that is due is the one its entry asks for, as long as it is there.*)
CallsDue ==
  \A i \in DOMAIN dispatching : \A call \in dispatching[i] :
     /\ Issued(call.token)
     /\ call.token \in DOMAIN subs => call.context = subs[call.token].context

SubscriptionsInv == SubscriptionsTypeOK /\ ContextsOwned /\ RoutesApart /\ CallsDue

LEMMA SubsUnfold ==
  ASSUME SubscriptionsInv
  PROVE  /\ wrapper \in Wrappers
         /\ asked \in 0 .. MaxSubscriptions /\ contexts_boxed \subseteq 1 .. asked
         /\ DOMAIN subs \subseteq SubToken /\ DOMAIN routes \subseteq SubToken
         /\ \A t \in DOMAIN subs : subs[t] \in ListenerEntry
         /\ \A t \in DOMAIN routes : routes[t] \subseteq SubToken
         /\ last_token \in [Hooks -> Nat]
         /\ returned \subseteq SubToken
         /\ DOMAIN SUB_CONTEXTS \subseteq SubToken /\ Range(SUB_CONTEXTS) \subseteq Context
         /\ dispatching \in Seq(SUBSET DueCall)
         /\ ContextsOwned /\ RoutesApart /\ CallsDue
  BY DEF SubscriptionsInv, SubscriptionsTypeOK

(* What every way to subscribe does: under fresh tokens the listeners have *)
(* new entries, all with one context, and the client has one token, that   *)
(* of the only entry or a generic one that stands for all of them.         *)
TokensTaken(o, new) ==
  /\ last_token' \in [Hooks -> Nat]
  /\ \A h \in Hooks : last_token[h] <= last_token'[h]
  /\ o \in SubToken /\ last_token[o[1]] < o[2] /\ o[2] <= last_token'[o[1]]
  /\ \A t \in new : /\ t \in SubToken /\ t[1] # "generic"
                    /\ last_token[t[1]] < t[2] /\ t[2] <= last_token'[t[1]]

EntriesMade(new, context) ==
  /\ DOMAIN subs' = DOMAIN subs \cup new
  /\ \A t \in DOMAIN subs \ new : subs'[t] = subs[t]
  /\ \A t \in new : subs'[t] \in ListenerEntry /\ subs'[t].context = context

RouteMade(o, new) ==
  \/ new = {o} /\ UNCHANGED routes
  \/ /\ o[1] = "generic"
     /\ DOMAIN routes' = DOMAIN routes \cup {o}
     /\ routes'[o] = new
     /\ \A t \in DOMAIN routes \ {o} : routes'[t] = routes[t]

ContextTaken(o, context) ==
  \/ context = None /\ UNCHANGED <<contexts_boxed, SUB_CONTEXTS>>
  \/ /\ context = asked + 1
     /\ contexts_boxed' = contexts_boxed \cup {context}
     /\ SUB_CONTEXTS' = Set(SUB_CONTEXTS, o, context)

Subscribes(o, new, context) ==
  /\ asked < MaxSubscriptions /\ asked' = asked + 1
  /\ TokensTaken(o, new) /\ EntriesMade(new, context)
  /\ RouteMade(o, new) /\ ContextTaken(o, context)
  /\ returned' = returned \cup {o}
  /\ UNCHANGED <<wrapper, dispatching>>

LEMMA SubscribedInv ==
  ASSUME SubscriptionsInv, NEW o, NEW new, NEW context, Subscribes(o, new, context)
  PROVE  SubscriptionsInv'
<1>0. /\ wrapper \in Wrappers
      /\ asked \in 0 .. MaxSubscriptions /\ contexts_boxed \subseteq 1 .. asked
      /\ DOMAIN subs \subseteq SubToken /\ DOMAIN routes \subseteq SubToken
      /\ \A t \in DOMAIN subs : subs[t] \in ListenerEntry
      /\ \A t \in DOMAIN routes : routes[t] \subseteq SubToken
      /\ last_token \in [Hooks -> Nat]
      /\ returned \subseteq SubToken
      /\ DOMAIN SUB_CONTEXTS \subseteq SubToken /\ Range(SUB_CONTEXTS) \subseteq Context
      /\ dispatching \in Seq(SUBSET DueCall)
      /\ ContextsOwned /\ RoutesApart /\ CallsDue
  BY SubsUnfold
<1>1. /\ asked < MaxSubscriptions /\ asked' = asked + 1
      /\ TokensTaken(o, new) /\ EntriesMade(new, context)
      /\ RouteMade(o, new) /\ ContextTaken(o, context)
      /\ returned' = returned \cup {o}
      /\ UNCHANGED <<wrapper, dispatching>>
  BY DEF Subscribes
<1>2. \A t : Issued(t) => /\ t \notin new /\ t # o
                          /\ Issued(t)'
  <2>1. ASSUME NEW t, Issued(t)
        PROVE  t \notin new /\ t # o /\ Issued(t)'
    <3>1. t \in SubToken /\ t[2] <= last_token[t[1]] /\ t[1] \in Hooks /\ t[2] \in Nat
      BY <2>1 DEF Issued, SubToken
    <3>2. last_token[t[1]] \in Nat /\ last_token'[t[1]] \in Nat
          /\ last_token[t[1]] <= last_token'[t[1]]
      BY <1>0, <1>1, <3>1 DEF TokensTaken
    <3>3. ~(last_token[t[1]] < t[2])
      BY <3>1, <3>2
    <3>4. t \notin new /\ t # o
      BY <1>1, <3>3 DEF TokensTaken
    <3>5. t[2] <= last_token'[t[1]]
      BY <3>1, <3>2
    <3> QED  BY <3>1, <3>4, <3>5 DEF Issued
  <2> QED  BY <2>1
<1>3. Issued(o)' /\ (\A t \in new : Issued(t)' /\ t[1] # "generic") /\ o \in SubToken
  BY <1>1 DEF TokensTaken, Issued
<1>4. /\ o \notin DOMAIN subs /\ o \notin DOMAIN routes /\ o \notin returned
      /\ o \notin DOMAIN SUB_CONTEXTS
      /\ new \cap DOMAIN subs = {} /\ new \cap returned = {}
  BY <1>0, <1>2 DEF RoutesApart, ContextsOwned
<1>5. o[1] = "generic" => o \notin new
  BY <1>3
<1>6. RoutesApart'
  <2>1. CASE new = {o} /\ UNCHANGED routes
    <3>1. DOMAIN subs' = DOMAIN subs \cup {o}
      BY <1>1, <2>1 DEF EntriesMade
    <3>2. \A t \in DOMAIN subs' : Issued(t)' /\ t[1] # "generic"
      BY <1>0, <1>2, <1>3, <2>1, <3>1 DEF RoutesApart
    <3>3. \A t \in DOMAIN routes' : Issued(t)' /\ t[1] = "generic"
      BY <1>0, <1>2, <2>1 DEF RoutesApart
    <3>4. \A t \in returned' : Issued(t)'
      BY <1>0, <1>1, <1>2, <1>3 DEF RoutesApart
    <3>5. \A t \in DOMAIN routes' : routes'[t] \subseteq DOMAIN subs' \ returned'
      BY <1>0, <1>1, <1>4, <2>1, <3>1 DEF RoutesApart
    <3>6. \A t, u \in DOMAIN routes' : \A v \in routes'[t] : v \in routes'[u] => t = u
      BY <1>0, <2>1 DEF RoutesApart
    <3> QED  BY <3>2, <3>3, <3>4, <3>5, <3>6 DEF RoutesApart
  <2>2. CASE /\ o[1] = "generic"
             /\ DOMAIN routes' = DOMAIN routes \cup {o}
             /\ routes'[o] = new
             /\ \A t \in DOMAIN routes \ {o} : routes'[t] = routes[t]
    <3>1. DOMAIN subs' = DOMAIN subs \cup new
      BY <1>1 DEF EntriesMade
    <3>2. \A t \in DOMAIN subs' : Issued(t)' /\ t[1] # "generic"
      BY <1>0, <1>2, <1>3, <3>1 DEF RoutesApart
    <3>3. \A t \in DOMAIN routes' : Issued(t)' /\ t[1] = "generic"
      BY <1>0, <1>2, <1>3, <2>2 DEF RoutesApart
    <3>4. \A t \in returned' : Issued(t)'
      BY <1>0, <1>1, <1>2, <1>3 DEF RoutesApart
    <3>5. \A t \in DOMAIN routes' : routes'[t] \subseteq DOMAIN subs' \ returned'
      <4>1. new \subseteq DOMAIN subs' \ returned'
        BY <1>1, <1>4, <1>5, <2>2, <3>1
      <4>2. \A t \in DOMAIN routes : routes[t] \subseteq DOMAIN subs' \ returned'
        BY <1>0, <1>1, <1>4, <3>1 DEF RoutesApart
      <4> QED  BY <1>4, <2>2, <4>1, <4>2
    <3>6. \A t, u \in DOMAIN routes' : \A v \in routes'[t] : v \in routes'[u] => t = u
      <4>1. \A t \in DOMAIN routes : routes[t] \cap new = {}
        BY <1>0, <1>4 DEF RoutesApart
      <4>2. \A t, u \in DOMAIN routes : \A v \in routes[t] : v \in routes[u] => t = u
        BY <1>0 DEF RoutesApart
      <4> QED  BY <1>4, <2>2, <4>1, <4>2
    <3> QED  BY <3>2, <3>3, <3>4, <3>5, <3>6 DEF RoutesApart
  <2> QED  BY <1>1, <2>1, <2>2 DEF RouteMade
<1>7. CallsDue'
  <2>1. ASSUME NEW i \in DOMAIN dispatching, NEW call \in dispatching[i]
        PROVE  /\ Issued(call.token)'
               /\ call.token \in DOMAIN subs' => call.context = subs'[call.token].context
    <3>1. Issued(call.token) /\ (call.token \in DOMAIN subs => call.context = subs[call.token].context)
      BY <1>0 DEF CallsDue
    <3>2. call.token \notin new /\ Issued(call.token)'
      BY <1>2, <3>1
    <3> QED  BY <1>1, <3>1, <3>2 DEF EntriesMade
  <2> QED  BY <1>1, <2>1 DEF CallsDue
<1>8. /\ context \in 0 .. asked'
      /\ contexts_boxed' \subseteq 1 .. asked'
      /\ asked + 1 \notin contexts_boxed
  <2>1. asked \in Nat /\ asked' = asked + 1 /\ 1 .. asked \subseteq 1 .. asked'
    BY <1>0, <1>1, SubscriptionsAssumption
  <2>2. asked + 1 \notin contexts_boxed /\ asked + 1 \in 1 .. asked'
    BY <1>0, <2>1
  <2>3. context = None \/ context = asked + 1
    BY <1>1 DEF ContextTaken
  <2>4. contexts_boxed' = contexts_boxed \/ contexts_boxed' = contexts_boxed \cup {asked + 1}
    BY <1>1 DEF ContextTaken
  <2>5. context \in 0 .. asked'
    BY <2>1, <2>2, <2>3 DEF None
  <2>6. contexts_boxed' \subseteq 1 .. asked'
    BY <1>0, <2>1, <2>2, <2>4
  <2> QED  BY <2>2, <2>5, <2>6
<1>9. ContextsOwned'
  <2>1. \A key, t : Drops(key, t) /\ t \in DOMAIN subs => Drops(key, t)'
    BY <1>1, <1>4 DEF Drops, RouteMade
  <2>2. \A t \in new : Drops(o, t)'
    BY <1>1 DEF Drops, RouteMade
  <2>3. o \in DOMAIN subs' \cup DOMAIN routes'
    BY <1>1 DEF RouteMade, EntriesMade
  <2>4. DOMAIN subs \subseteq DOMAIN subs' /\ DOMAIN routes \subseteq DOMAIN routes'
    BY <1>1 DEF RouteMade, EntriesMade
  <2>5. \A t \in DOMAIN subs : subs'[t].context = subs[t].context
    BY <1>1, <1>4 DEF EntriesMade
  <2>6. CASE context = None /\ UNCHANGED <<contexts_boxed, SUB_CONTEXTS>>
    <3>1. \A t \in DOMAIN subs' :
            \/ subs'[t].context = None
            \/ \E key \in DOMAIN SUB_CONTEXTS : /\ SUB_CONTEXTS[key] = subs'[t].context
                                                /\ Drops(key, t)'
      BY <1>0, <1>1, <2>1, <2>5, <2>6 DEF ContextsOwned, EntriesMade
    <3> QED  BY <1>0, <1>1, <2>4, <2>6, <3>1 DEF ContextsOwned
  <2>7. CASE /\ context = asked + 1
             /\ contexts_boxed' = contexts_boxed \cup {context}
             /\ SUB_CONTEXTS' = Set(SUB_CONTEXTS, o, context)
    <3>1. /\ DOMAIN SUB_CONTEXTS' = DOMAIN SUB_CONTEXTS \cup {o}
          /\ SUB_CONTEXTS'[o] = context
          /\ \A t \in DOMAIN SUB_CONTEXTS : SUB_CONTEXTS'[t] = SUB_CONTEXTS[t]
      BY <1>4, <2>7 DEF Set
    <3>2. \A t \in DOMAIN SUB_CONTEXTS : SUB_CONTEXTS[t] \in contexts_boxed /\ SUB_CONTEXTS[t] # context
      BY <1>0, <1>8, <2>7 DEF ContextsOwned
    <3>3. \A t, u \in DOMAIN SUB_CONTEXTS' : SUB_CONTEXTS'[t] = SUB_CONTEXTS'[u] => t = u
      BY <1>0, <3>1, <3>2 DEF ContextsOwned
    <3>4. \A t \in DOMAIN SUB_CONTEXTS' : /\ SUB_CONTEXTS'[t] \in contexts_boxed'
                                          /\ t \in returned'
                                          /\ t \in DOMAIN subs' \cup DOMAIN routes'
      BY <1>0, <1>1, <2>3, <2>4, <2>7, <3>1 DEF ContextsOwned
    <3>5. \A c \in contexts_boxed' : \E t \in DOMAIN SUB_CONTEXTS' : SUB_CONTEXTS'[t] = c
      BY <1>0, <2>7, <3>1 DEF ContextsOwned
    <3>6. \A t \in DOMAIN subs' :
            \/ subs'[t].context = None
            \/ \E key \in DOMAIN SUB_CONTEXTS' : /\ SUB_CONTEXTS'[key] = subs'[t].context
                                                 /\ Drops(key, t)'
      <4>1. ASSUME NEW t \in new
            PROVE  SUB_CONTEXTS'[o] = subs'[t].context /\ Drops(o, t)'
        BY <1>1, <2>2, <3>1 DEF EntriesMade
      <4>2. ASSUME NEW t \in DOMAIN subs, subs[t].context # None
            PROVE  \E key \in DOMAIN SUB_CONTEXTS' : /\ SUB_CONTEXTS'[key] = subs'[t].context
                                                     /\ Drops(key, t)'
        <5>1. PICK key \in DOMAIN SUB_CONTEXTS : SUB_CONTEXTS[key] = subs[t].context /\ Drops(key, t)
          BY <1>0, <4>2 DEF ContextsOwned
        <5> QED  BY <2>1, <2>5, <3>1, <5>1
      <4>3. DOMAIN subs' = DOMAIN subs \cup new
        BY <1>1 DEF EntriesMade
      <4> QED  BY <2>5, <3>1, <4>1, <4>2, <4>3
    <3> QED  BY <3>3, <3>4, <3>5, <3>6 DEF ContextsOwned
  <2> QED  BY <1>1, <2>6, <2>7 DEF ContextTaken
<1>10. SubscriptionsTypeOK'
  <2>1. asked' \in 0 .. MaxSubscriptions
    BY <1>0, <1>1, SubscriptionsAssumption
  <2>2. /\ DOMAIN subs' \subseteq SubToken
        /\ \A t \in DOMAIN subs' : subs'[t] \in ListenerEntry
    BY <1>0, <1>1, <1>4 DEF EntriesMade, TokensTaken
  <2>3. /\ DOMAIN routes' \subseteq SubToken
        /\ \A t \in DOMAIN routes' : routes'[t] \subseteq SubToken
    BY <1>0, <1>1, <1>3, <1>4 DEF RouteMade, TokensTaken
  <2>4. last_token' \in [Hooks -> Nat] /\ returned' \subseteq SubToken
    BY <1>0, <1>1, <1>3 DEF TokensTaken
  <2>5. DOMAIN SUB_CONTEXTS' \subseteq SubToken /\ Range(SUB_CONTEXTS') \subseteq Context
    <3>1. \A t \in DOMAIN SUB_CONTEXTS : SUB_CONTEXTS[t] \in Context
      BY <1>0 DEF Range
    <3>2. asked + 1 \in Context
      BY <1>0, <1>1, SubscriptionsAssumption DEF Context
    <3>3. DOMAIN SUB_CONTEXTS' \subseteq SubToken
      BY <1>0, <1>1, <1>3 DEF ContextTaken, Set
    <3>4. \A t \in DOMAIN SUB_CONTEXTS' : SUB_CONTEXTS'[t] \in Context
      BY <1>1, <3>1, <3>2 DEF ContextTaken, Set
    <3> QED  BY <3>3, <3>4 DEF Range
  <2> QED
    BY <1>0, <1>1, <1>8, <2>1, <2>2, <2>3, <2>4, <2>5 DEF SubscriptionsTypeOK
<1> QED  BY <1>6, <1>7, <1>9, <1>10 DEF SubscriptionsInv

LEMMA WrapperHooks ==
  ASSUME NEW w \in Wrappers
  PROVE  w.hook \in {"idb", "dbg", "ui", "view"} /\ w.code \in Codes
<1>1. w.code \in Codes
  BY DEF Codes
<1>2. w.hook \in {"idb", "dbg", "ui", "view"}
  BY DEF Wrappers, On, idax_event_on, idax_debugger_on, idax_ui_on, idax_ui_on_for_widget,
         idax_ui_on_view, idax_ui_on_popup_ready, idax_ui_on_rendering_info,
         on_segment_added, on_segment_deleted, on_function_added, on_function_deleted,
         on_renamed, on_byte_patched, on_comment_changed,
         on_process_started, on_process_exited, on_process_suspended, on_breakpoint_hit,
         on_trace, on_exception, on_thread_started, on_thread_exited, on_library_loaded,
         on_library_unloaded, on_breakpoint_changed,
         on_database_closed, on_database_inited, on_ready_to_run, on_screen_ea_changed,
         on_current_widget_changed, on_widget_visible, on_widget_invisible,
         on_widget_closing, on_widget_visible_for_widget, on_widget_invisible_for_widget,
         on_widget_closing_for_widget, on_cursor_changed, on_view_activated,
         on_view_deactivated, on_view_created, on_view_closed, on_popup_ready,
         on_rendering_info
<1> QED  BY <1>1, <1>2

LEMMA HookedSubscribes ==
  ASSUME SubscriptionsInv, NEW hook \in {"idb", "dbg", "ui", "view"},
         NEW entry \in ListenerEntry, Hooked(hook, entry),
         ContextTaken(<<hook, last_token[hook] + 1>>, entry.context)
  PROVE  SubscriptionsInv'
<1> DEFINE o == <<hook, last_token[hook] + 1>>
<1>0. last_token \in [Hooks -> Nat] /\ hook \in Hooks /\ hook # "generic"
  BY SubsUnfold DEF Hooks
<1>1. /\ o[1] = hook /\ o[2] = last_token[hook] + 1 /\ o \in SubToken
      /\ last_token[hook] \in Nat
  BY <1>0 DEF SubToken
<1>2. TokensTaken(o, {o})
  <2>1. last_token' = [last_token EXCEPT ![hook] = @ + 1]
    BY DEF Hooked
  <2> HIDE DEF o
  <2>2. last_token' \in [Hooks -> Nat] /\ last_token'[hook] = last_token[hook] + 1
    BY <1>0, <1>1, <2>1
  <2>3. \A h \in Hooks : last_token[h] <= last_token'[h]
    <3>1. \A h \in Hooks : last_token[h] \in Nat
      BY <1>0
    <3> QED  BY <1>0, <1>1, <2>1, <3>1
  <2> QED  BY <1>0, <1>1, <2>2, <2>3 DEF TokensTaken
<1>3. EntriesMade({o}, entry.context)
  <2>1. subs' = Set(subs, o, entry)
    BY DEF Hooked
  <2> HIDE DEF o
  <2> QED  BY <2>1 DEF EntriesMade, Set
<1>4. Subscribes(o, {o}, entry.context)
  <2>1. /\ asked < MaxSubscriptions /\ asked' = asked + 1
        /\ returned' = returned \cup {o}
        /\ UNCHANGED <<wrapper, routes, dispatching>>
    BY DEF Hooked
  <2>2. ContextTaken(o, entry.context)
    OBVIOUS
  <2> HIDE DEF o
  <2> QED  BY <1>2, <1>3, <2>1, <2>2 DEF Subscribes, RouteMade
<1> HIDE DEF o
<1> QED  BY <1>4, SubscribedInv

LEMMA TypedStep ==
  ASSUME SubscriptionsInv, SubscribeTyped
  PROVE  SubscriptionsInv'
<1> DEFINE hook == wrapper.hook
           entry == [code |-> wrapper.code, filtered |-> FALSE, context |-> asked + 1]
<1>1. /\ Hooked(hook, entry) /\ SaveContext(<<hook, last_token[hook] + 1>>, asked + 1)
  BY DEF SubscribeTyped
<1>2. wrapper.hook \in {"idb", "dbg", "ui", "view"} /\ wrapper.code \in Codes
  BY SubsUnfold, WrapperHooks
<1>3. asked + 1 \in Context
  BY <1>1, SubsUnfold, SubscriptionsAssumption DEF Hooked, Context
<1>4. entry \in ListenerEntry /\ entry.context = asked + 1
  BY <1>2, <1>3 DEF ListenerEntry
<1>5. ContextTaken(<<hook, last_token[hook] + 1>>, entry.context)
  BY <1>1, <1>4 DEF SaveContext, ContextTaken
<1> HIDE DEF entry
<1> QED  BY <1>1, <1>2, <1>4, <1>5, HookedSubscribes

LEMMA GenericEventStep ==
  ASSUME SubscriptionsInv,
         SubscribeRawEvent \/ \E filtered \in BOOLEAN : SubscribeGenericEvent(filtered)
  PROVE  SubscriptionsInv'
<1>1. ASSUME NEW filtered \in BOOLEAN, NEW context,
             idax_event_on_event(context, filtered),
             context \in Context \cup {None},
             ContextTaken(<<"idb", last_token["idb"] + 1>>, context)
      PROVE  SubscriptionsInv'
  <2> DEFINE entry == [code |-> "generic", filtered |-> filtered, context |-> context]
  <2>1. Hooked("idb", entry)
    BY <1>1 DEF idax_event_on_event
  <2>2. entry \in ListenerEntry /\ entry.context = context
    BY <1>1 DEF ListenerEntry, Codes
  <2> HIDE DEF entry
  <2> QED  BY <1>1, <2>1, <2>2, HookedSubscribes
<1>2. CASE SubscribeRawEvent
  <2>1. idax_event_on_event(None, FALSE) /\ UNCHANGED <<contexts_boxed, SUB_CONTEXTS>>
    BY <1>2 DEF SubscribeRawEvent
  <2>2. ContextTaken(<<"idb", last_token["idb"] + 1>>, None)
    BY <2>1 DEF ContextTaken
  <2> QED  BY <1>1, <2>1, <2>2
<1>3. ASSUME NEW filtered \in BOOLEAN, SubscribeGenericEvent(filtered)
      PROVE  SubscriptionsInv'
  <2>1. /\ idax_event_on_event(asked + 1, filtered)
        /\ SaveContext(<<"idb", last_token["idb"] + 1>>, asked + 1)
    BY <1>3 DEF SubscribeGenericEvent
  <2>2. ContextTaken(<<"idb", last_token["idb"] + 1>>, asked + 1)
    BY <2>1 DEF ContextTaken, SaveContext
  <2>3. asked + 1 \in Context
    BY <2>1, SubsUnfold, SubscriptionsAssumption DEF idax_event_on_event, Hooked, Context
  <2> QED  BY <1>1, <2>1, <2>2, <2>3
<1> QED  BY <1>2, <1>3

(* The codes of a generic subscription in the order of their tokens. *)
LEMMA RoutedSubscribes ==
  ASSUME SubscriptionsInv, NEW filtered \in BOOLEAN, NEW context \in Context \cup {None},
         Routed(context, filtered),
         ContextTaken(<<"generic", last_token["generic"] + 1>>, context)
  PROVE  SubscriptionsInv'
<1> DEFINE ui == SetToSeq(UiCodes)
           view == SetToSeq(ViewCodes)
           o == <<"generic", last_token["generic"] + 1>>
           tokens(hook, codes) == {<<hook, last_token[hook] + i>> : i \in DOMAIN codes}
           inner == tokens("ui", ui) \cup tokens("view", view)
           code(t) == LET i == t[2] - last_token[t[1]]
                      IN  IF t[1] = "ui" THEN ui[i] ELSE view[i]
           entry(t) == [code |-> code(t), filtered |-> filtered, context |-> context]
<1>0. last_token \in [Hooks -> Nat] /\ {"ui", "view", "generic"} \subseteq Hooks
  BY SubsUnfold DEF Hooks
<1>1. /\ Len(ui) \in Nat /\ ui \in [1 .. Len(ui) -> UiCodes]
      /\ Len(view) \in Nat /\ view \in [1 .. Len(view) -> ViewCodes]
  BY SetAsSeq, SubscriptionsAssumption
<1>2. /\ asked < MaxSubscriptions /\ asked' = asked + 1
      /\ subs' = [t \in DOMAIN subs \cup inner |-> IF t \in inner THEN entry(t) ELSE subs[t]]
      /\ routes' = Set(routes, o, inner)
      /\ last_token' = [last_token EXCEPT !["ui"] = @ + Len(ui), !["view"] = @ + Len(view),
                                          !["generic"] = @ + 1]
      /\ returned' = returned \cup {o}
      /\ UNCHANGED <<wrapper, dispatching>>
  BY DEF Routed
<1>3. \A t \in inner :
         \/ \E i \in 1 .. Len(ui) : t = <<"ui", last_token["ui"] + i>>
         \/ \E i \in 1 .. Len(view) : t = <<"view", last_token["view"] + i>>
  BY <1>1
<1> DEFINE nu == Len(ui)
           nv == Len(view)
<1>4. nu \in Nat /\ nv \in Nat
  BY <1>1
<1>5. /\ last_token["ui"] \in Nat /\ last_token["view"] \in Nat /\ last_token["generic"] \in Nat
      /\ \A h \in Hooks : last_token[h] \in Nat
  BY <1>0
<1>6. ASSUME NEW t \in inner
      PROVE  entry(t) \in ListenerEntry /\ entry(t).context = context
  <2>1. ASSUME NEW i \in 1 .. Len(ui), t = <<"ui", last_token["ui"] + i>>
        PROVE  code(t) \in UiCodes
    <3>1. t[1] = "ui" /\ t[2] - last_token[t[1]] = i
      BY <1>5, <2>1
    <3> HIDE DEF ui, view
    <3> QED  BY <1>1, <3>1
  <2>2. ASSUME NEW i \in 1 .. Len(view), t = <<"view", last_token["view"] + i>>
        PROVE  code(t) \in ViewCodes
    <3>1. t[1] = "view" /\ t[2] - last_token[t[1]] = i
      BY <1>5, <2>2
    <3> HIDE DEF ui, view
    <3> QED  BY <1>1, <3>1
  <2>3. code(t) \in Codes
    BY <1>3, <2>1, <2>2 DEF Codes
  <2> HIDE DEF code
  <2> QED  BY <2>3 DEF ListenerEntry
<1>7. TokensTaken(o, inner)
  <2> HIDE DEF nu, nv
  <2>1. last_token' = [last_token EXCEPT !["ui"] = @ + nu, !["view"] = @ + nv,
                                         !["generic"] = @ + 1]
    BY <1>2 DEF nu, nv
  <2>2. /\ last_token' \in [Hooks -> Nat]
        /\ last_token'["ui"] = last_token["ui"] + nu
        /\ last_token'["view"] = last_token["view"] + nv
        /\ last_token'["generic"] = last_token["generic"] + 1
        /\ \A h \in Hooks \ {"ui", "view", "generic"} : last_token'[h] = last_token[h]
    BY <1>0, <1>4, <1>5, <2>1
  <2>3. \A h \in Hooks : last_token[h] <= last_token'[h]
    <3>1. last_token["ui"] <= last_token'["ui"]
      BY <1>4, <1>5, <2>2
    <3>2. last_token["view"] <= last_token'["view"]
      BY <1>4, <1>5, <2>2
    <3>3. last_token["generic"] <= last_token'["generic"]
      BY <1>5, <2>2
    <3>4. \A h \in Hooks \ {"ui", "view", "generic"} : last_token[h] <= last_token'[h]
      BY <1>5, <2>2
    <3> QED  BY <3>1, <3>2, <3>3, <3>4
  <2>4. o \in SubToken /\ last_token[o[1]] < o[2] /\ o[2] <= last_token'[o[1]]
    BY <1>0, <1>5, <2>2 DEF SubToken
  <2>5. ASSUME NEW t \in inner
        PROVE  /\ t \in SubToken /\ t[1] # "generic"
               /\ last_token[t[1]] < t[2] /\ t[2] <= last_token'[t[1]]
    <3>1. ASSUME NEW i \in 1 .. nu, t = <<"ui", last_token["ui"] + i>>
          PROVE  /\ t \in SubToken /\ t[1] # "generic"
                 /\ last_token[t[1]] < t[2] /\ t[2] <= last_token'[t[1]]
      BY <1>0, <1>4, <1>5, <2>2, <3>1 DEF SubToken
    <3>2. ASSUME NEW i \in 1 .. nv, t = <<"view", last_token["view"] + i>>
          PROVE  /\ t \in SubToken /\ t[1] # "generic"
                 /\ last_token[t[1]] < t[2] /\ t[2] <= last_token'[t[1]]
      BY <1>0, <1>4, <1>5, <2>2, <3>2 DEF SubToken
    <3> QED  BY <1>3, <3>1, <3>2 DEF nu, nv
  <2> HIDE DEF o, inner
  <2> QED  BY <2>2, <2>3, <2>4, <2>5 DEF TokensTaken
<1>8. EntriesMade(inner, context)
  <2> HIDE DEF inner, entry
  <2> QED  BY <1>2, <1>6 DEF EntriesMade
<1>9. RouteMade(o, inner)
  <2>1. o[1] = "generic"
    OBVIOUS
  <2> HIDE DEF inner, o
  <2> QED  BY <1>2, <2>1 DEF RouteMade, Set
<1>10. Subscribes(o, inner, context)
  <2>1. ContextTaken(o, context)
    OBVIOUS
  <2> HIDE DEF inner, o
  <2> QED  BY <1>2, <1>7, <1>8, <1>9, <2>1 DEF Subscribes
<1> HIDE DEF inner, o
<1> QED  BY <1>10, SubscribedInv

LEMMA GenericUiStep ==
  ASSUME SubscriptionsInv,
         SubscribeRawUi \/ \E filtered \in BOOLEAN : SubscribeGenericUi(filtered)
  PROVE  SubscriptionsInv'
<1>1. CASE SubscribeRawUi
  <2>1. Routed(None, FALSE) /\ UNCHANGED <<contexts_boxed, SUB_CONTEXTS>>
    BY <1>1 DEF SubscribeRawUi
  <2>2. ContextTaken(<<"generic", last_token["generic"] + 1>>, None)
    BY <2>1 DEF ContextTaken
  <2> QED  BY <2>1, <2>2, RoutedSubscribes
<1>2. ASSUME NEW filtered \in BOOLEAN, SubscribeGenericUi(filtered)
      PROVE  SubscriptionsInv'
  <2>1. /\ Routed(asked + 1, filtered)
        /\ SaveContext(<<"generic", last_token["generic"] + 1>>, asked + 1)
    BY <1>2 DEF SubscribeGenericUi, idax_ui_on_event
  <2>2. ContextTaken(<<"generic", last_token["generic"] + 1>>, asked + 1)
    BY <2>1 DEF ContextTaken, SaveContext
  <2>3. asked + 1 \in Context
    BY <2>1, SubsUnfold, SubscriptionsAssumption DEF Routed, Context
  <2> QED  BY <2>1, <2>2, <2>3, RoutedSubscribes
<1> QED  BY <1>1, <1>2

(* A step that subscribes and unsubscribes nothing. *)
LEMMA SubscriptionsStay ==
  ASSUME SubscriptionsInv, asked' \in 0 .. MaxSubscriptions, asked <= asked',
         UNCHANGED <<wrapper, contexts_boxed, subscribed, SUB_CONTEXTS>>,
         dispatching' \in Seq(SUBSET DueCall), CallsDue'
  PROVE  SubscriptionsInv'
<1>1. /\ UNCHANGED <<wrapper, contexts_boxed, subs, routes, last_token, returned, SUB_CONTEXTS>>
  BY DEF subscribed
<1>2. ContextsOwned' /\ RoutesApart'
  BY <1>1, SubsUnfold DEF ContextsOwned, RoutesApart, Drops, Issued
<1>3. contexts_boxed' \subseteq 1 .. asked'
  BY <1>1, SubsUnfold, SubscriptionsAssumption
<1>4. SubscriptionsTypeOK'
  BY <1>1, <1>3, SubsUnfold DEF SubscriptionsTypeOK
<1> QED  BY <1>2, <1>4 DEF SubscriptionsInv

LEMMA RefusedStep ==
  ASSUME SubscriptionsInv, SubscribeRefused
  PROVE  SubscriptionsInv'
<1>1. /\ asked < MaxSubscriptions /\ asked' = asked + 1
      /\ UNCHANGED <<wrapper, contexts_boxed, subscribed, SUB_CONTEXTS, dispatching>>
  BY DEF SubscribeRefused
<1>2. asked' \in 0 .. MaxSubscriptions /\ asked <= asked'
  BY <1>1, SubsUnfold, SubscriptionsAssumption
<1>3. CallsDue'
  BY <1>1, SubsUnfold DEF CallsDue, Issued, subscribed
<1> QED  BY <1>1, <1>2, <1>3, SubsUnfold, SubscriptionsStay

LEMMA UnsubscribeStep ==
  ASSUME SubscriptionsInv, NEW token \in returned, unsubscribe(token)
  PROVE  SubscriptionsInv'
<1>0. /\ wrapper \in Wrappers
      /\ asked \in 0 .. MaxSubscriptions /\ contexts_boxed \subseteq 1 .. asked
      /\ DOMAIN subs \subseteq SubToken /\ DOMAIN routes \subseteq SubToken
      /\ \A t \in DOMAIN subs : subs[t] \in ListenerEntry
      /\ \A t \in DOMAIN routes : routes[t] \subseteq SubToken
      /\ last_token \in [Hooks -> Nat]
      /\ returned \subseteq SubToken
      /\ DOMAIN SUB_CONTEXTS \subseteq SubToken /\ Range(SUB_CONTEXTS) \subseteq Context
      /\ dispatching \in Seq(SUBSET DueCall)
      /\ ContextsOwned /\ RoutesApart /\ CallsDue
  BY SubsUnfold
<1>1. UNCHANGED <<wrapper, asked, last_token, returned, dispatching>>
  BY DEF unsubscribe
<1>2. CASE token \notin DOMAIN subs \cup DOMAIN routes
  <2>1. UNCHANGED <<subs, routes, SUB_CONTEXTS, contexts_boxed>>
    BY <1>2 DEF unsubscribe
  <2>2. asked' \in 0 .. MaxSubscriptions /\ asked <= asked'
    BY <1>0, <1>1, SubscriptionsAssumption
  <2>3. CallsDue'
    BY <1>0, <1>1, <2>1 DEF CallsDue, Issued
  <2> QED  BY <1>0, <1>1, <2>1, <2>2, <2>3, SubscriptionsStay DEF subscribed
<1>3. CASE token \in DOMAIN subs \cup DOMAIN routes
  <2> DEFINE gone == IF token[1] = "generic" THEN routes[token] ELSE {token}
  <2>1. Unhooked(token) /\ DropSubscription(token)
    BY <1>3 DEF unsubscribe
  <2>2. /\ DOMAIN subs' = DOMAIN subs \ gone
        /\ \A t \in DOMAIN subs' : subs'[t] = subs[t]
    BY <2>1 DEF Unhooked, unsubscribe_route, Stand, Restrict
  <2>3. /\ DOMAIN routes' = DOMAIN routes \ {token}
        /\ \A t \in DOMAIN routes' : routes'[t] = routes[t]
    <3>1. CASE token[1] = "generic"
      BY <2>1, <3>1 DEF Unhooked, unsubscribe_route, Without, Restrict
    <3>2. CASE token[1] # "generic"
      BY <1>0, <2>1, <3>2 DEF Unhooked, RoutesApart
    <3> QED  BY <3>1, <3>2
  <2>4. /\ DOMAIN SUB_CONTEXTS' = DOMAIN SUB_CONTEXTS \ {token}
        /\ \A t \in DOMAIN SUB_CONTEXTS' : SUB_CONTEXTS'[t] = SUB_CONTEXTS[t]
        /\ contexts_boxed' = contexts_boxed \ Kept(SUB_CONTEXTS, token)
    BY <2>1 DEF DropSubscription, Without, Restrict
  <2>5. \A t \in returned : t \in gone => t = token
    <3>1. CASE token[1] = "generic"
      <4>1. token \in DOMAIN routes
        BY <1>0, <1>3, <3>1 DEF RoutesApart
      <4> QED  BY <1>0, <3>1, <4>1 DEF RoutesApart
    <3>2. CASE token[1] # "generic"
      BY <3>2
    <3> QED  BY <3>1, <3>2
  <2>6. \A t \in DOMAIN subs : Drops(token, t) => t \in gone
    <3>1. \A t \in DOMAIN subs : t[1] # "generic"
      BY <1>0 DEF RoutesApart
    <3>2. \A t \in DOMAIN routes : t[1] = "generic"
      BY <1>0 DEF RoutesApart
    <3> QED  BY <3>1, <3>2 DEF Drops
  <2>7. \A t \in DOMAIN routes' : routes[t] \cap gone = {}
    <3>1. CASE token[1] = "generic"
      <4>1. token \in DOMAIN routes
        BY <1>0, <1>3, <3>1 DEF RoutesApart
      <4>2. \A t, u \in DOMAIN routes : \A v \in routes[t] : v \in routes[u] => t = u
        BY <1>0 DEF RoutesApart
      <4> QED  BY <2>3, <3>1, <4>1, <4>2
    <3>2. CASE token[1] # "generic"
      <4>1. \A t \in DOMAIN routes : token \notin routes[t]
        BY <1>0 DEF RoutesApart
      <4> QED  BY <2>3, <3>2, <4>1
    <3> QED  BY <3>1, <3>2
  <2> HIDE DEF gone
  <2>8. \A t : Issued(t)' <=> Issued(t)
    BY <1>1 DEF Issued
  <2>9. RoutesApart'
    <3>1. \A t \in DOMAIN routes' : routes'[t] \subseteq DOMAIN subs' \ returned'
      BY <1>0, <1>1, <2>2, <2>3, <2>7 DEF RoutesApart
    <3>2. \A t, u \in DOMAIN routes' : \A v \in routes'[t] : v \in routes'[u] => t = u
      BY <1>0, <2>3 DEF RoutesApart
    <3> QED  BY <1>0, <1>1, <2>2, <2>3, <2>8, <3>1, <3>2 DEF RoutesApart
  <2>10. CallsDue'
    BY <1>0, <1>1, <2>2, <2>8 DEF CallsDue
  <2>11. ContextsOwned'
    <3>1. \A t, u \in DOMAIN SUB_CONTEXTS' : SUB_CONTEXTS'[t] = SUB_CONTEXTS'[u] => t = u
      BY <1>0, <2>4 DEF ContextsOwned
    <3>2. ASSUME NEW t \in DOMAIN SUB_CONTEXTS'
          PROVE  /\ SUB_CONTEXTS'[t] \in contexts_boxed'
                 /\ t \in returned' /\ t \in DOMAIN subs' \cup DOMAIN routes'
      <4>1. /\ t # token /\ t \in DOMAIN SUB_CONTEXTS /\ SUB_CONTEXTS'[t] = SUB_CONTEXTS[t]
        BY <2>4
      <4>2. /\ SUB_CONTEXTS[t] \in contexts_boxed /\ t \in returned
            /\ t \in DOMAIN subs \cup DOMAIN routes
        BY <1>0, <4>1 DEF ContextsOwned
      <4>3. SUB_CONTEXTS[t] \notin Kept(SUB_CONTEXTS, token)
        BY <1>0, <4>1 DEF ContextsOwned, Kept
      <4>4. t \notin gone
        BY <2>5, <4>1, <4>2
      <4> QED  BY <1>1, <2>2, <2>3, <2>4, <4>1, <4>2, <4>3, <4>4
    <3>3. ASSUME NEW c \in contexts_boxed'
          PROVE  \E t \in DOMAIN SUB_CONTEXTS' : SUB_CONTEXTS'[t] = c
      <4>1. c \in contexts_boxed /\ c \notin Kept(SUB_CONTEXTS, token)
        BY <2>4
      <4>2. PICK t \in DOMAIN SUB_CONTEXTS : SUB_CONTEXTS[t] = c
        BY <1>0, <4>1 DEF ContextsOwned
      <4>3. t # token
        BY <4>1, <4>2 DEF Kept
      <4> QED  BY <2>4, <4>2, <4>3
    <3>4. ASSUME NEW t \in DOMAIN subs', subs'[t].context # None
          PROVE  \E key \in DOMAIN SUB_CONTEXTS' : /\ SUB_CONTEXTS'[key] = subs'[t].context
                                                   /\ Drops(key, t)'
      <4>1. t \in DOMAIN subs /\ t \notin gone /\ subs'[t] = subs[t]
        BY <2>2
      <4>2. PICK key \in DOMAIN SUB_CONTEXTS : SUB_CONTEXTS[key] = subs[t].context /\ Drops(key, t)
        BY <1>0, <3>4, <4>1 DEF ContextsOwned
      <4>3. key # token
        BY <2>6, <4>1, <4>2
      <4>4. Drops(key, t)'
        BY <2>3, <4>2, <4>3 DEF Drops
      <4> QED  BY <2>4, <4>1, <4>2, <4>3, <4>4
    <3> QED  BY <3>1, <3>2, <3>3, <3>4 DEF ContextsOwned
  <2>12. SubscriptionsTypeOK'
    <3>1. Range(SUB_CONTEXTS') \subseteq Context
      BY <1>0, <2>4 DEF Range
    <3>2. \A t \in DOMAIN subs' : subs'[t] \in ListenerEntry
      BY <1>0, <2>2
    <3>3. \A t \in DOMAIN routes' : routes'[t] \subseteq SubToken
      BY <1>0, <2>3
    <3> QED  BY <1>0, <1>1, <2>2, <2>3, <2>4, <3>1, <3>2, <3>3 DEF SubscriptionsTypeOK
  <2> QED  BY <2>9, <2>10, <2>11, <2>12 DEF SubscriptionsInv
<1> QED  BY <1>2, <1>3

-----------------------------------------------------------------------------
(* Dispatching. *)

DueNow(calls) ==
  \A call \in calls :
     /\ call \in DueCall /\ Issued(call.token)
     /\ call.token \in DOMAIN subs => call.context = subs[call.token].context

LEMMA StartedDue ==
  ASSUME SubscriptionsInv, NEW t \in DOMAIN subs
  PROVE  DueNow({Start(t)})
<1>1. subs[t] \in ListenerEntry /\ Issued(t) /\ t \in SubToken
  BY SubsUnfold DEF RoutesApart
<1>2. /\ Start(t).token = t /\ Start(t).context = subs[t].context
      /\ Start(t) \in DueCall
  BY <1>1 DEF Start, DueCall, ListenerEntry
<1> QED  BY <1>1, <1>2 DEF DueNow

LEMMA MatchedDue ==
  ASSUME SubscriptionsInv, NEW code, NEW after
  PROVE  DueNow(Walked(code, after)) /\ DueNow(Matched(code))
<1>1. \A call \in Walked(code, after) : \E t \in DOMAIN subs : call = Start(t)
  BY DEF Walked
<1>2. \A call \in Matched(code) : \E t \in DOMAIN subs : call = Start(t)
  BY DEF Walked, Matched
<1>3. \A t \in DOMAIN subs : DueNow({Start(t)})
  BY StartedDue
<1> QED  BY <1>1, <1>2, <1>3 DEF DueNow

LEMMA CallsByDispatch ==
  ASSUME SubscriptionsInv
  PROVE  \A i \in DOMAIN dispatching : DueNow(dispatching[i])
<1>1. dispatching \in Seq(SUBSET DueCall) /\ CallsDue
  BY SubsUnfold
<1>2. \A i \in DOMAIN dispatching : dispatching[i] \subseteq DueCall
  BY <1>1
<1> QED  BY <1>1, <1>2 DEF DueNow, CallsDue

LEMMA DispatchInv ==
  ASSUME SubscriptionsInv,
         UNCHANGED <<wrapper, asked, contexts_boxed, subscribed, SUB_CONTEXTS>>,
         dispatching' \in Seq(SUBSET DueCall),
         \A i \in DOMAIN dispatching' : DueNow(dispatching'[i])
  PROVE  SubscriptionsInv'
<1>1. CallsDue'
  BY DEF CallsDue, DueNow, Issued, subscribed
<1>2. asked' \in 0 .. MaxSubscriptions /\ asked <= asked'
  BY SubsUnfold, SubscriptionsAssumption
<1> QED  BY <1>1, <1>2, SubscriptionsStay

LEMMA FireStep ==
  ASSUME SubscriptionsInv, NEW code, FireEvent(code)
  PROVE  SubscriptionsInv'
<1>1. /\ dispatching' = Append(dispatching, Matched(code))
      /\ UNCHANGED <<wrapper, asked, contexts_boxed, subscribed, SUB_CONTEXTS>>
  BY DEF FireEvent
<1>2. dispatching \in Seq(SUBSET DueCall) /\ \A i \in DOMAIN dispatching : DueNow(dispatching[i])
  BY SubsUnfold, CallsByDispatch
<1>3. DueNow(Matched(code)) /\ Matched(code) \in SUBSET DueCall
  <2>1. DueNow(Matched(code))
    BY MatchedDue
  <2> QED  BY <2>1 DEF DueNow
<1>4. /\ dispatching' \in Seq(SUBSET DueCall)
      /\ \A i \in DOMAIN dispatching' : DueNow(dispatching'[i])
  BY <1>1, <1>2, <1>3
<1> QED  BY <1>1, <1>4, DispatchInv

LEMMA CallStep ==
  ASSUME SubscriptionsInv, NEW call, EventAccepted(call) \/ TrampolineReturns(call)
  PROVE  SubscriptionsInv'
<1>0. /\ dispatching \in Seq(SUBSET DueCall) /\ dispatching # << >>
      /\ call \in Last(dispatching)
      /\ \A i \in DOMAIN dispatching : DueNow(dispatching[i])
      /\ UNCHANGED <<wrapper, asked, contexts_boxed, subscribed, SUB_CONTEXTS>>
  BY SubsUnfold, CallsByDispatch DEF EventAccepted, TrampolineReturns, Called
<1>1. Last(dispatching) = dispatching[Len(dispatching)] /\ Len(dispatching) \in DOMAIN dispatching
  BY <1>0, EmptySeq DEF Last
<1>2. DueNow(Last(dispatching))
  BY <1>0, <1>1
<1>3. /\ Front(dispatching) \in Seq(SUBSET DueCall)
      /\ \A i \in DOMAIN Front(dispatching) : DueNow(Front(dispatching)[i])
  <2>1. /\ Front(dispatching) \in Seq(SUBSET DueCall)
        /\ Len(Front(dispatching)) = Len(dispatching) - 1
        /\ \A i \in 1 .. Len(dispatching) - 1 : Front(dispatching)[i] = dispatching[i]
    BY <1>0, FrontOfSeq
  <2> QED  BY <1>0, <2>1
<1>4. ASSUME NEW rest, DueNow(rest), dispatching' = Append(Front(dispatching), rest)
      PROVE  SubscriptionsInv'
  <2>1. rest \in SUBSET DueCall
    BY <1>4 DEF DueNow
  <2>2. /\ dispatching' \in Seq(SUBSET DueCall)
        /\ \A i \in DOMAIN dispatching' : DueNow(dispatching'[i])
    BY <1>3, <1>4, <2>1
  <2> QED  BY <1>0, <2>2, DispatchInv
<1>5. CASE EventAccepted(call)
  <2> DEFINE next == [call EXCEPT !.in_filter = FALSE]
             rest == (Last(dispatching) \ {call}) \cup {next}
  <2>1. dispatching' = Append(Front(dispatching), rest)
    BY <1>5 DEF EventAccepted
  <2>2. call \in DueCall
    BY <1>0, <1>2 DEF DueNow
  <2>3. next \in DueCall /\ next.token = call.token /\ next.context = call.context
    BY <2>2 DEF DueCall
  <2> HIDE DEF next
  <2>4. DueNow(rest)
    BY <1>0, <1>2, <2>3 DEF DueNow
  <2> HIDE DEF rest
  <2> QED  BY <1>4, <2>1, <2>4
<1>6. CASE TrampolineReturns(call)
  <2> DEFINE rest == IF wrapper.hook = "idb" THEN Walked(wrapper.code, {call.token})
                     ELSE Last(dispatching) \ {call}
  <2>1. dispatching' = IF rest = {} THEN Front(dispatching)
                       ELSE Append(Front(dispatching), rest)
    BY <1>6 DEF TrampolineReturns
  <2>2. DueNow(rest)
    BY <1>2, MatchedDue DEF DueNow
  <2> HIDE DEF rest
  <2>3. CASE dispatching' = Front(dispatching)
    BY <1>0, <1>3, <2>3, DispatchInv
  <2> QED  BY <1>4, <2>1, <2>2, <2>3
<1> QED  BY <1>5, <1>6

-----------------------------------------------------------------------------
LEMMA SubscriptionsInductive ==
  ASSUME SubscriptionsInv, [SubscriptionsNext]_subvars
  PROVE  SubscriptionsInv'
<1>1. CASE UNCHANGED subvars
  <2>1. /\ UNCHANGED <<wrapper, asked, contexts_boxed, subscribed, SUB_CONTEXTS>>
        /\ dispatching' = dispatching
    BY <1>1 DEF subvars
  <2> QED  BY <2>1, SubsUnfold, CallsByDispatch, DispatchInv
<1>2. CASE SubscriptionsNext
  BY <1>2, TypedStep, RefusedStep, GenericEventStep, GenericUiStep, UnsubscribeStep,
     FireStep, CallStep DEF SubscriptionsNext
<1> QED  BY <1>1, <1>2

LEMMA SubscriptionsStart ==
  ASSUME SubscriptionsInit
  PROVE  SubscriptionsInv
<1> USE DEF SubscriptionsInit
<1>1. /\ DOMAIN subs = {} /\ DOMAIN routes = {} /\ DOMAIN SUB_CONTEXTS = {}
      /\ DOMAIN dispatching = {}
  OBVIOUS
<1>2. SubscriptionsTypeOK
  <2>1. Range(SUB_CONTEXTS) = {}
    BY <1>1 DEF Range
  <2>2. last_token \in [Hooks -> Nat]
    OBVIOUS
  <2>3. dispatching \in Seq(SUBSET DueCall)
    OBVIOUS
  <2> QED  BY <1>1, <2>1, <2>2, <2>3, SubscriptionsAssumption DEF SubscriptionsTypeOK
<1>3. ContextsOwned /\ RoutesApart /\ CallsDue
  BY <1>1 DEF ContextsOwned, RoutesApart, CallsDue
<1> QED  BY <1>2, <1>3 DEF SubscriptionsInv

LEMMA SubscriptionsInvSound ==
  ASSUME SubscriptionsInv
  PROVE  SubscriptionsSound
<1>0. SubscriptionsTypeOK /\ ContextsOwned /\ RoutesApart /\ CallsDue
  BY DEF SubscriptionsInv
<1>1. ASSUME NEW c \in contexts_boxed
      PROVE  Cardinality({t \in DOMAIN SUB_CONTEXTS : SUB_CONTEXTS[t] = c}) = 1
  <2>1. PICK t \in DOMAIN SUB_CONTEXTS : SUB_CONTEXTS[t] = c
    BY <1>0 DEF ContextsOwned
  <2>2. {u \in DOMAIN SUB_CONTEXTS : SUB_CONTEXTS[u] = c} = {t}
    BY <1>0, <2>1 DEF ContextsOwned
  <2>3. Cardinality({t}) = 1
    BY FS_Singleton
  <2> QED  BY <2>2, <2>3
<1>2. Range(SUB_CONTEXTS) \subseteq contexts_boxed
  BY <1>0 DEF ContextsOwned, Range
<1>3. \A t \in DOMAIN subs : subs[t].context \in contexts_boxed \cup {None}
  BY <1>0 DEF ContextsOwned
<1>4. DOMAIN SUB_CONTEXTS \subseteq returned \cap (DOMAIN subs \cup DOMAIN routes)
  BY <1>0 DEF ContextsOwned
<1>5. \A t \in DOMAIN routes : routes[t] \subseteq DOMAIN subs
  BY <1>0 DEF RoutesApart
<1>6. \A i \in DOMAIN dispatching : \A call \in dispatching[i] :
         call.context \notin contexts_boxed \cup {None} => call.token \notin DOMAIN subs
  BY <1>0, <1>3 DEF CallsDue
<1> QED  BY <1>0, <1>1, <1>2, <1>3, <1>4, <1>5, <1>6 DEF SubscriptionsSound

(* Every context of a subscription has one owner, the table entry under    *)
(* the token that its client holds, and is there as long as any entry of a *)
(* listener can call it; of the calls that a dispatch under way copied,    *)
(* only those whose entry is gone point at a context that was dropped.     *)
THEOREM SubscriptionsAreSound == SubscriptionsSpec => []SubscriptionsSound
<1>1. SubscriptionsInit => SubscriptionsInv
  BY SubscriptionsStart
<1>2. SubscriptionsInv /\ [SubscriptionsNext]_subvars => SubscriptionsInv'
  BY SubscriptionsInductive
<1>3. SubscriptionsInv => SubscriptionsSound
  BY SubscriptionsInvSound
<1> QED  BY <1>1, <1>2, <1>3, PTL DEF SubscriptionsSpec

(* No closure that Rust left with the library is lost, whether a timer,    *)
(* an action, a popup, a viewer or a subscription calls it.                *)
THEOREM NothingLost == ClosuresSpec /\ SubscriptionsSpec => []NoClosureLost
<1>1. ClosuresSound /\ SubscriptionsSound => NoClosureLost
  BY DEF NoClosureLost
<1> QED  BY <1>1, ClosuresAreSound, SubscriptionsAreSound, PTL
=============================================================================
