-------------------------- MODULE Sessions_proofs --------------------------
(* Proofs about Sessions, for any number of requests, codes and sessions. *)
EXTENDS Sessions, FiniteSetTheorems, TLAPS

SpentAreUsed == \A c \in Codes : c \in spent => otp[c] = "used"

AnswersAreCurrent ==
  \A w \in Requests : at[w] \in {"checked", "counted"} => code[w] \notin spent \/ w \in overtaken

KnownIsCurrent ==
  \A w \in Requests : at[w] \in {"unset", "changing"} => known[w] = password \/ w \in overtaken

RefreshesAreLive ==
  \A w \in Requests : at[w] = "live" => session[sess[w]] = "valid" \/ w \in overtaken

ActorsAreAdmitted ==
  \A w \in Requests : at[w] \in {"authenticated", "changing"} =>
    token[w] \notin revoked \/ w \in overtaken

LEMMA TypesStay ==
  ASSUME TypeOK, [Next]_vars PROVE TypeOK'
<1> USE SessionsAssumption, NoPasswordAssumption DEF TypeOK, Stages, Codes, SessionIds, Tokens, Purposes, codes, access, locals, history
<1>0. CASE UNCHANGED vars
  BY <1>0 DEF vars
<1>1. CASE Forgot
  BY <1>1 DEF Forgot, CreateOTP
<1>2. ASSUME NEW w \in Requests, NEW p \in Purposes, ReadCode(w, p) PROVE TypeOK'
  BY <1>2 DEF ReadCode, Open, Newest, Goto
<1>3. ASSUME NEW w \in Requests, NEW p \in Purposes, RetireCodes(w, p) PROVE TypeOK'
  BY <1>3 DEF RetireCodes, Open, Goto, Marks, Answering, At
<1>4. ASSUME NEW w \in Requests, CountAttempt(w) PROVE TypeOK'
  <2>1. code[w] \in Codes /\ attempts' \in [Codes -> Nat]
    BY <1>4 DEF CountAttempt
  <2>2. CASE Goto(w, "counted") /\ UNCHANGED <<locals, overtaken>>
    BY <1>4, <2>1, <2>2 DEF CountAttempt, Goto
  <2>3. CASE Ends(w, {})
    BY <1>4, <2>1, <2>3 DEF CountAttempt, Ends, Goto
  <2> QED BY <1>4, <2>2, <2>3 DEF CountAttempt
<1>5. ASSUME NEW w \in Requests, MarkVerified(w) PROVE TypeOK'
  BY <1>5 DEF MarkVerified, Goto, Marks, Answering, At
<1>6. ASSUME NEW w \in Requests, MakeCode(w) PROVE TypeOK'
  BY <1>6 DEF MakeCode, CreateOTP, Ends, Goto
<1>7. ASSUME NEW w \in Requests, VerifyEmail(w) PROVE TypeOK'
  BY <1>7 DEF VerifyEmail, Ends, Goto
<1>8. ASSUME NEW w \in Requests, Authenticate(w) PROVE TypeOK'
  BY <1>8 DEF Authenticate, Goto
<1>9. ASSUME NEW w \in Requests, LookForNoPassword(w) PROVE TypeOK'
  BY <1>9 DEF LookForNoPassword, Goto
<1>10. ASSUME NEW w \in Requests, CheckCurrent(w) PROVE TypeOK'
  BY <1>10 DEF CheckCurrent, Goto
<1>11. ASSUME NEW w \in Requests, NEW new \in Passwords, SetPassword(w, new) PROVE TypeOK'
  BY <1>11 DEF SetPassword, Ends, Goto, Replacing, At
<1>12. ASSUME NEW w \in Requests, NEW new \in Passwords, ReplacePassword(w, new) PROVE TypeOK'
  BY <1>12 DEF ReplacePassword, Goto, Marks, Replacing, At
<1>13. ASSUME NEW w \in Requests, AfterReplacing(w) PROVE TypeOK'
  BY <1>13 DEF AfterReplacing, InvalidateAll, Ends, Goto, Refreshing, At
<1>14. ASSUME NEW w \in Requests, ReadAccount(w) PROVE TypeOK'
  BY <1>14 DEF ReadAccount, Goto
<1>15. ASSUME NEW w \in Requests, OpenSession(w) PROVE TypeOK'
  BY <1>15 DEF OpenSession, IssueToken, Ends, Goto
<1>16. ASSUME NEW w \in Requests, ReadSession(w) PROVE TypeOK'
  BY <1>16 DEF ReadSession, Goto
<1>17. ASSUME NEW w \in Requests, Refresh(w) PROVE TypeOK'
  BY <1>17 DEF Refresh, IssueToken, Ends, Goto
<1>18. ASSUME NEW w \in Requests, Revoke(w) PROVE TypeOK'
  <2>1. token[w] \in 1 .. issued /\ revoked' \subseteq 1 .. issued
    BY <1>18 DEF Revoke
  <2>2. Acting(token[w]) \subseteq Requests
    BY DEF Acting, At
  <2>3. CASE Goto(w, "leaving") /\ UNCHANGED locals /\ Marks(Acting(token[w]) \ {w})
    BY <1>18, <2>1, <2>2, <2>3 DEF Revoke, Goto, Marks
  <2>4. CASE Ends(w, Acting(token[w]))
    BY <1>18, <2>1, <2>2, <2>4 DEF Revoke, Ends, Goto
  <2> QED BY <1>18, <2>3, <2>4 DEF Revoke
<1>19. ASSUME NEW w \in Requests, Leave(w) PROVE TypeOK'
  BY <1>19 DEF Leave, Made, Ends, Goto, Refreshing, At
<1>20. ASSUME NEW w \in Requests, LogoutAll(w) PROVE TypeOK'
  BY <1>20 DEF LogoutAll, InvalidateAll, Ends, Goto, Refreshing, At
<1>21. ASSUME NEW w \in Requests, Fails(w) PROVE TypeOK'
  BY <1>21 DEF Fails, Ends, Goto
<1> QED BY <1>0, <1>1, <1>2, <1>3, <1>4, <1>5, <1>6, <1>7, <1>8, <1>9, <1>10, <1>11, <1>12, <1>13, <1>14, <1>15, <1>16, <1>17, <1>18, <1>19, <1>20, <1>21 DEF Next

LEMMA SpentStay ==
  ASSUME TypeOK, SpentAreUsed, [Next]_vars PROVE SpentAreUsed'
<1> USE SessionsAssumption, NoPasswordAssumption DEF TypeOK, SpentAreUsed, Codes, codes, access, locals, history
<1>0. CASE UNCHANGED vars
  BY <1>0 DEF vars
<1>1. CASE Forgot
  BY <1>1 DEF Forgot, CreateOTP
<1>2. ASSUME NEW w \in Requests, NEW p \in Purposes, ReadCode(w, p) PROVE SpentAreUsed'
  BY <1>2 DEF ReadCode, Open, Newest, Goto
<1>3. ASSUME NEW w \in Requests, NEW p \in Purposes, RetireCodes(w, p) PROVE SpentAreUsed'
  BY <1>3 DEF RetireCodes, Open, Goto, Marks, Answering, At
<1>4. ASSUME NEW w \in Requests, CountAttempt(w) PROVE SpentAreUsed'
  BY <1>4 DEF CountAttempt, Goto, Ends
<1>5. ASSUME NEW w \in Requests, MarkVerified(w) PROVE SpentAreUsed'
  BY <1>5 DEF MarkVerified, Goto, Marks, Answering, At
<1>6. ASSUME NEW w \in Requests, MakeCode(w) PROVE SpentAreUsed'
  BY <1>6 DEF MakeCode, CreateOTP, Ends, Goto
<1>7. ASSUME NEW w \in Requests, VerifyEmail(w) PROVE SpentAreUsed'
  BY <1>7 DEF VerifyEmail, Ends, Goto
<1>8. ASSUME NEW w \in Requests, Authenticate(w) PROVE SpentAreUsed'
  BY <1>8 DEF Authenticate, Goto
<1>9. ASSUME NEW w \in Requests, LookForNoPassword(w) PROVE SpentAreUsed'
  BY <1>9 DEF LookForNoPassword, Goto
<1>10. ASSUME NEW w \in Requests, CheckCurrent(w) PROVE SpentAreUsed'
  BY <1>10 DEF CheckCurrent, Goto
<1>11. ASSUME NEW w \in Requests, NEW new \in Passwords, SetPassword(w, new) PROVE SpentAreUsed'
  BY <1>11 DEF SetPassword, Ends, Goto, Replacing, At
<1>12. ASSUME NEW w \in Requests, NEW new \in Passwords, ReplacePassword(w, new) PROVE SpentAreUsed'
  BY <1>12 DEF ReplacePassword, Goto, Marks, Replacing, At
<1>13. ASSUME NEW w \in Requests, AfterReplacing(w) PROVE SpentAreUsed'
  BY <1>13 DEF AfterReplacing, InvalidateAll, Ends, Goto, Refreshing, At
<1>14. ASSUME NEW w \in Requests, ReadAccount(w) PROVE SpentAreUsed'
  BY <1>14 DEF ReadAccount, Goto
<1>15. ASSUME NEW w \in Requests, OpenSession(w) PROVE SpentAreUsed'
  BY <1>15 DEF OpenSession, IssueToken, Ends, Goto
<1>16. ASSUME NEW w \in Requests, ReadSession(w) PROVE SpentAreUsed'
  BY <1>16 DEF ReadSession, Goto
<1>17. ASSUME NEW w \in Requests, Refresh(w) PROVE SpentAreUsed'
  BY <1>17 DEF Refresh, IssueToken, Ends, Goto
<1>18. ASSUME NEW w \in Requests, Revoke(w) PROVE SpentAreUsed'
  BY <1>18 DEF Revoke, Ends, Goto, Marks, Acting, At
<1>19. ASSUME NEW w \in Requests, Leave(w) PROVE SpentAreUsed'
  BY <1>19 DEF Leave, Made, Ends, Goto, Refreshing, At
<1>20. ASSUME NEW w \in Requests, LogoutAll(w) PROVE SpentAreUsed'
  BY <1>20 DEF LogoutAll, InvalidateAll, Ends, Goto, Refreshing, At
<1>21. ASSUME NEW w \in Requests, Fails(w) PROVE SpentAreUsed'
  BY <1>21 DEF Fails, Ends, Goto
<1> QED BY <1>0, <1>1, <1>2, <1>3, <1>4, <1>5, <1>6, <1>7, <1>8, <1>9, <1>10, <1>11, <1>12, <1>13, <1>14, <1>15, <1>16, <1>17, <1>18, <1>19, <1>20, <1>21 DEF Next

LEMMA AnswersStay ==
  ASSUME TypeOK, SpentAreUsed, AnswersAreCurrent, [Next]_vars PROVE AnswersAreCurrent'
<1> USE SessionsAssumption, NoPasswordAssumption DEF TypeOK, SpentAreUsed, AnswersAreCurrent, Codes, Stages, codes, access, locals, history
<1>0. CASE UNCHANGED vars
  BY <1>0 DEF vars
<1>1. CASE Forgot
  BY <1>1 DEF Forgot, CreateOTP
<1>2. ASSUME NEW w \in Requests, NEW p \in Purposes, ReadCode(w, p) PROVE AnswersAreCurrent'
  BY <1>2 DEF ReadCode, Open, Newest, Goto
<1>3. ASSUME NEW w \in Requests, NEW p \in Purposes, RetireCodes(w, p) PROVE AnswersAreCurrent'
  BY <1>3 DEF RetireCodes, Open, Goto, Marks, Answering, At
<1>4. ASSUME NEW w \in Requests, CountAttempt(w) PROVE AnswersAreCurrent'
  BY <1>4 DEF CountAttempt, Goto, Ends
<1>5. ASSUME NEW w \in Requests, MarkVerified(w) PROVE AnswersAreCurrent'
  BY <1>5 DEF MarkVerified, Goto, Marks, Answering, At
<1>6. ASSUME NEW w \in Requests, MakeCode(w) PROVE AnswersAreCurrent'
  BY <1>6 DEF MakeCode, CreateOTP, Ends, Goto
<1>7. ASSUME NEW w \in Requests, VerifyEmail(w) PROVE AnswersAreCurrent'
  BY <1>7 DEF VerifyEmail, Ends, Goto
<1>8. ASSUME NEW w \in Requests, Authenticate(w) PROVE AnswersAreCurrent'
  BY <1>8 DEF Authenticate, Goto
<1>9. ASSUME NEW w \in Requests, LookForNoPassword(w) PROVE AnswersAreCurrent'
  BY <1>9 DEF LookForNoPassword, Goto
<1>10. ASSUME NEW w \in Requests, CheckCurrent(w) PROVE AnswersAreCurrent'
  BY <1>10 DEF CheckCurrent, Goto
<1>11. ASSUME NEW w \in Requests, NEW new \in Passwords, SetPassword(w, new) PROVE AnswersAreCurrent'
  BY <1>11 DEF SetPassword, Ends, Goto, Replacing, At
<1>12. ASSUME NEW w \in Requests, NEW new \in Passwords, ReplacePassword(w, new) PROVE AnswersAreCurrent'
  BY <1>12 DEF ReplacePassword, Goto, Marks, Replacing, At
<1>13. ASSUME NEW w \in Requests, AfterReplacing(w) PROVE AnswersAreCurrent'
  BY <1>13 DEF AfterReplacing, InvalidateAll, Ends, Goto, Refreshing, At
<1>14. ASSUME NEW w \in Requests, ReadAccount(w) PROVE AnswersAreCurrent'
  BY <1>14 DEF ReadAccount, Goto
<1>15. ASSUME NEW w \in Requests, OpenSession(w) PROVE AnswersAreCurrent'
  BY <1>15 DEF OpenSession, IssueToken, Ends, Goto
<1>16. ASSUME NEW w \in Requests, ReadSession(w) PROVE AnswersAreCurrent'
  BY <1>16 DEF ReadSession, Goto
<1>17. ASSUME NEW w \in Requests, Refresh(w) PROVE AnswersAreCurrent'
  BY <1>17 DEF Refresh, IssueToken, Ends, Goto
<1>18. ASSUME NEW w \in Requests, Revoke(w) PROVE AnswersAreCurrent'
  BY <1>18 DEF Revoke, Ends, Goto, Marks, Acting, At
<1>19. ASSUME NEW w \in Requests, Leave(w) PROVE AnswersAreCurrent'
  BY <1>19 DEF Leave, Made, Ends, Goto, Refreshing, At
<1>20. ASSUME NEW w \in Requests, LogoutAll(w) PROVE AnswersAreCurrent'
  BY <1>20 DEF LogoutAll, InvalidateAll, Ends, Goto, Refreshing, At
<1>21. ASSUME NEW w \in Requests, Fails(w) PROVE AnswersAreCurrent'
  BY <1>21 DEF Fails, Ends, Goto
<1> QED BY <1>0, <1>1, <1>2, <1>3, <1>4, <1>5, <1>6, <1>7, <1>8, <1>9, <1>10, <1>11, <1>12, <1>13, <1>14, <1>15, <1>16, <1>17, <1>18, <1>19, <1>20, <1>21 DEF Next

LEMMA KnownStay ==
  ASSUME TypeOK, KnownIsCurrent, [Next]_vars PROVE KnownIsCurrent'
<1> USE SessionsAssumption, NoPasswordAssumption DEF TypeOK, KnownIsCurrent, Stages, codes, access, locals, history
<1>0. CASE UNCHANGED vars
  BY <1>0 DEF vars
<1>1. CASE Forgot
  BY <1>1 DEF Forgot, CreateOTP
<1>2. ASSUME NEW w \in Requests, NEW p \in Purposes, ReadCode(w, p) PROVE KnownIsCurrent'
  BY <1>2 DEF ReadCode, Open, Newest, Goto
<1>3. ASSUME NEW w \in Requests, NEW p \in Purposes, RetireCodes(w, p) PROVE KnownIsCurrent'
  BY <1>3 DEF RetireCodes, Open, Goto, Marks, Answering, At
<1>4. ASSUME NEW w \in Requests, CountAttempt(w) PROVE KnownIsCurrent'
  BY <1>4 DEF CountAttempt, Goto, Ends
<1>5. ASSUME NEW w \in Requests, MarkVerified(w) PROVE KnownIsCurrent'
  BY <1>5 DEF MarkVerified, Goto, Marks, Answering, At
<1>6. ASSUME NEW w \in Requests, MakeCode(w) PROVE KnownIsCurrent'
  BY <1>6 DEF MakeCode, CreateOTP, Ends, Goto
<1>7. ASSUME NEW w \in Requests, VerifyEmail(w) PROVE KnownIsCurrent'
  BY <1>7 DEF VerifyEmail, Ends, Goto
<1>8. ASSUME NEW w \in Requests, Authenticate(w) PROVE KnownIsCurrent'
  BY <1>8 DEF Authenticate, Goto
<1>9. ASSUME NEW w \in Requests, LookForNoPassword(w) PROVE KnownIsCurrent'
  BY <1>9 DEF LookForNoPassword, Goto
<1>10. ASSUME NEW w \in Requests, CheckCurrent(w) PROVE KnownIsCurrent'
  BY <1>10 DEF CheckCurrent, Goto
<1>11. ASSUME NEW w \in Requests, NEW new \in Passwords, SetPassword(w, new) PROVE KnownIsCurrent'
  BY <1>11 DEF SetPassword, Ends, Goto, Replacing, At
<1>12. ASSUME NEW w \in Requests, NEW new \in Passwords, ReplacePassword(w, new) PROVE KnownIsCurrent'
  BY <1>12 DEF ReplacePassword, Goto, Marks, Replacing, At
<1>13. ASSUME NEW w \in Requests, AfterReplacing(w) PROVE KnownIsCurrent'
  BY <1>13 DEF AfterReplacing, InvalidateAll, Ends, Goto, Refreshing, At
<1>14. ASSUME NEW w \in Requests, ReadAccount(w) PROVE KnownIsCurrent'
  BY <1>14 DEF ReadAccount, Goto
<1>15. ASSUME NEW w \in Requests, OpenSession(w) PROVE KnownIsCurrent'
  BY <1>15 DEF OpenSession, IssueToken, Ends, Goto
<1>16. ASSUME NEW w \in Requests, ReadSession(w) PROVE KnownIsCurrent'
  BY <1>16 DEF ReadSession, Goto
<1>17. ASSUME NEW w \in Requests, Refresh(w) PROVE KnownIsCurrent'
  BY <1>17 DEF Refresh, IssueToken, Ends, Goto
<1>18. ASSUME NEW w \in Requests, Revoke(w) PROVE KnownIsCurrent'
  BY <1>18 DEF Revoke, Ends, Goto, Marks, Acting, At
<1>19. ASSUME NEW w \in Requests, Leave(w) PROVE KnownIsCurrent'
  BY <1>19 DEF Leave, Made, Ends, Goto, Refreshing, At
<1>20. ASSUME NEW w \in Requests, LogoutAll(w) PROVE KnownIsCurrent'
  BY <1>20 DEF LogoutAll, InvalidateAll, Ends, Goto, Refreshing, At
<1>21. ASSUME NEW w \in Requests, Fails(w) PROVE KnownIsCurrent'
  BY <1>21 DEF Fails, Ends, Goto
<1> QED BY <1>0, <1>1, <1>2, <1>3, <1>4, <1>5, <1>6, <1>7, <1>8, <1>9, <1>10, <1>11, <1>12, <1>13, <1>14, <1>15, <1>16, <1>17, <1>18, <1>19, <1>20, <1>21 DEF Next

LEMMA RefreshesStay ==
  ASSUME TypeOK, RefreshesAreLive, [Next]_vars PROVE RefreshesAreLive'
<1> USE SessionsAssumption, NoPasswordAssumption DEF TypeOK, RefreshesAreLive, Stages, SessionIds, codes, access, locals, history
<1>0. CASE UNCHANGED vars
  BY <1>0 DEF vars
<1>1. CASE Forgot
  BY <1>1 DEF Forgot, CreateOTP
<1>2. ASSUME NEW w \in Requests, NEW p \in Purposes, ReadCode(w, p) PROVE RefreshesAreLive'
  BY <1>2 DEF ReadCode, Open, Newest, Goto
<1>3. ASSUME NEW w \in Requests, NEW p \in Purposes, RetireCodes(w, p) PROVE RefreshesAreLive'
  BY <1>3 DEF RetireCodes, Open, Goto, Marks, Answering, At
<1>4. ASSUME NEW w \in Requests, CountAttempt(w) PROVE RefreshesAreLive'
  BY <1>4 DEF CountAttempt, Goto, Ends
<1>5. ASSUME NEW w \in Requests, MarkVerified(w) PROVE RefreshesAreLive'
  BY <1>5 DEF MarkVerified, Goto, Marks, Answering, At
<1>6. ASSUME NEW w \in Requests, MakeCode(w) PROVE RefreshesAreLive'
  BY <1>6 DEF MakeCode, CreateOTP, Ends, Goto
<1>7. ASSUME NEW w \in Requests, VerifyEmail(w) PROVE RefreshesAreLive'
  BY <1>7 DEF VerifyEmail, Ends, Goto
<1>8. ASSUME NEW w \in Requests, Authenticate(w) PROVE RefreshesAreLive'
  BY <1>8 DEF Authenticate, Goto
<1>9. ASSUME NEW w \in Requests, LookForNoPassword(w) PROVE RefreshesAreLive'
  BY <1>9 DEF LookForNoPassword, Goto
<1>10. ASSUME NEW w \in Requests, CheckCurrent(w) PROVE RefreshesAreLive'
  BY <1>10 DEF CheckCurrent, Goto
<1>11. ASSUME NEW w \in Requests, NEW new \in Passwords, SetPassword(w, new) PROVE RefreshesAreLive'
  BY <1>11 DEF SetPassword, Ends, Goto, Replacing, At
<1>12. ASSUME NEW w \in Requests, NEW new \in Passwords, ReplacePassword(w, new) PROVE RefreshesAreLive'
  BY <1>12 DEF ReplacePassword, Goto, Marks, Replacing, At
<1>13. ASSUME NEW w \in Requests, AfterReplacing(w) PROVE RefreshesAreLive'
  BY <1>13 DEF AfterReplacing, InvalidateAll, Ends, Goto, Refreshing, At
<1>14. ASSUME NEW w \in Requests, ReadAccount(w) PROVE RefreshesAreLive'
  BY <1>14 DEF ReadAccount, Goto
<1>15. ASSUME NEW w \in Requests, OpenSession(w) PROVE RefreshesAreLive'
  BY <1>15 DEF OpenSession, IssueToken, Ends, Goto
<1>16. ASSUME NEW w \in Requests, ReadSession(w) PROVE RefreshesAreLive'
  BY <1>16 DEF ReadSession, Goto
<1>17. ASSUME NEW w \in Requests, Refresh(w) PROVE RefreshesAreLive'
  BY <1>17 DEF Refresh, IssueToken, Ends, Goto
<1>18. ASSUME NEW w \in Requests, Revoke(w) PROVE RefreshesAreLive'
  BY <1>18 DEF Revoke, Ends, Goto, Marks, Acting, At
<1>19. ASSUME NEW w \in Requests, Leave(w) PROVE RefreshesAreLive'
  BY <1>19 DEF Leave, Made, Ends, Goto, Refreshing, At
<1>20. ASSUME NEW w \in Requests, LogoutAll(w) PROVE RefreshesAreLive'
  BY <1>20 DEF LogoutAll, InvalidateAll, Ends, Goto, Refreshing, At
<1>21. ASSUME NEW w \in Requests, Fails(w) PROVE RefreshesAreLive'
  BY <1>21 DEF Fails, Ends, Goto
<1> QED BY <1>0, <1>1, <1>2, <1>3, <1>4, <1>5, <1>6, <1>7, <1>8, <1>9, <1>10, <1>11, <1>12, <1>13, <1>14, <1>15, <1>16, <1>17, <1>18, <1>19, <1>20, <1>21 DEF Next

LEMMA ActorsStay ==
  ASSUME TypeOK, ActorsAreAdmitted, [Next]_vars PROVE ActorsAreAdmitted'
<1> USE SessionsAssumption, NoPasswordAssumption DEF TypeOK, ActorsAreAdmitted, Stages, codes, access, locals, history
<1>0. CASE UNCHANGED vars
  BY <1>0 DEF vars
<1>1. CASE Forgot
  BY <1>1 DEF Forgot, CreateOTP
<1>2. ASSUME NEW w \in Requests, NEW p \in Purposes, ReadCode(w, p) PROVE ActorsAreAdmitted'
  BY <1>2 DEF ReadCode, Open, Newest, Goto
<1>3. ASSUME NEW w \in Requests, NEW p \in Purposes, RetireCodes(w, p) PROVE ActorsAreAdmitted'
  BY <1>3 DEF RetireCodes, Open, Goto, Marks, Answering, At
<1>4. ASSUME NEW w \in Requests, CountAttempt(w) PROVE ActorsAreAdmitted'
  BY <1>4 DEF CountAttempt, Goto, Ends
<1>5. ASSUME NEW w \in Requests, MarkVerified(w) PROVE ActorsAreAdmitted'
  BY <1>5 DEF MarkVerified, Goto, Marks, Answering, At
<1>6. ASSUME NEW w \in Requests, MakeCode(w) PROVE ActorsAreAdmitted'
  BY <1>6 DEF MakeCode, CreateOTP, Ends, Goto
<1>7. ASSUME NEW w \in Requests, VerifyEmail(w) PROVE ActorsAreAdmitted'
  BY <1>7 DEF VerifyEmail, Ends, Goto
<1>8. ASSUME NEW w \in Requests, Authenticate(w) PROVE ActorsAreAdmitted'
  BY <1>8 DEF Authenticate, Goto
<1>9. ASSUME NEW w \in Requests, LookForNoPassword(w) PROVE ActorsAreAdmitted'
  BY <1>9 DEF LookForNoPassword, Goto
<1>10. ASSUME NEW w \in Requests, CheckCurrent(w) PROVE ActorsAreAdmitted'
  BY <1>10 DEF CheckCurrent, Goto
<1>11. ASSUME NEW w \in Requests, NEW new \in Passwords, SetPassword(w, new) PROVE ActorsAreAdmitted'
  BY <1>11 DEF SetPassword, Ends, Goto, Replacing, At
<1>12. ASSUME NEW w \in Requests, NEW new \in Passwords, ReplacePassword(w, new) PROVE ActorsAreAdmitted'
  BY <1>12 DEF ReplacePassword, Goto, Marks, Replacing, At
<1>13. ASSUME NEW w \in Requests, AfterReplacing(w) PROVE ActorsAreAdmitted'
  BY <1>13 DEF AfterReplacing, InvalidateAll, Ends, Goto, Refreshing, At
<1>14. ASSUME NEW w \in Requests, ReadAccount(w) PROVE ActorsAreAdmitted'
  BY <1>14 DEF ReadAccount, Goto
<1>15. ASSUME NEW w \in Requests, OpenSession(w) PROVE ActorsAreAdmitted'
  BY <1>15 DEF OpenSession, IssueToken, Ends, Goto
<1>16. ASSUME NEW w \in Requests, ReadSession(w) PROVE ActorsAreAdmitted'
  BY <1>16 DEF ReadSession, Goto
<1>17. ASSUME NEW w \in Requests, Refresh(w) PROVE ActorsAreAdmitted'
  BY <1>17 DEF Refresh, IssueToken, Ends, Goto
<1>18. ASSUME NEW w \in Requests, Revoke(w) PROVE ActorsAreAdmitted'
  BY <1>18 DEF Revoke, Ends, Goto, Marks, Acting, At
<1>19. ASSUME NEW w \in Requests, Leave(w) PROVE ActorsAreAdmitted'
  BY <1>19 DEF Leave, Made, Ends, Goto, Refreshing, At
<1>20. ASSUME NEW w \in Requests, LogoutAll(w) PROVE ActorsAreAdmitted'
  BY <1>20 DEF LogoutAll, InvalidateAll, Ends, Goto, Refreshing, At
<1>21. ASSUME NEW w \in Requests, Fails(w) PROVE ActorsAreAdmitted'
  BY <1>21 DEF Fails, Ends, Goto
<1> QED BY <1>0, <1>1, <1>2, <1>3, <1>4, <1>5, <1>6, <1>7, <1>8, <1>9, <1>10, <1>11, <1>12, <1>13, <1>14, <1>15, <1>16, <1>17, <1>18, <1>19, <1>20, <1>21 DEF Next

LEMMA FollowStay ==
  ASSUME TypeOK, SessionsFollowThePassword, [Next]_vars PROVE SessionsFollowThePassword'
<1> USE SessionsAssumption, NoPasswordAssumption DEF TypeOK, SessionsFollowThePassword, Stages, SessionIds, codes, access, locals, history
<1>0. CASE UNCHANGED vars
  BY <1>0 DEF vars
<1>1. CASE Forgot
  BY <1>1 DEF Forgot, CreateOTP
<1>2. ASSUME NEW w \in Requests, NEW p \in Purposes, ReadCode(w, p) PROVE SessionsFollowThePassword'
  BY <1>2 DEF ReadCode, Open, Newest, Goto
<1>3. ASSUME NEW w \in Requests, NEW p \in Purposes, RetireCodes(w, p) PROVE SessionsFollowThePassword'
  BY <1>3 DEF RetireCodes, Open, Goto, Marks, Answering, At
<1>4. ASSUME NEW w \in Requests, CountAttempt(w) PROVE SessionsFollowThePassword'
  BY <1>4 DEF CountAttempt, Goto, Ends
<1>5. ASSUME NEW w \in Requests, MarkVerified(w) PROVE SessionsFollowThePassword'
  BY <1>5 DEF MarkVerified, Goto, Marks, Answering, At
<1>6. ASSUME NEW w \in Requests, MakeCode(w) PROVE SessionsFollowThePassword'
  BY <1>6 DEF MakeCode, CreateOTP, Ends, Goto
<1>7. ASSUME NEW w \in Requests, VerifyEmail(w) PROVE SessionsFollowThePassword'
  BY <1>7 DEF VerifyEmail, Ends, Goto
<1>8. ASSUME NEW w \in Requests, Authenticate(w) PROVE SessionsFollowThePassword'
  BY <1>8 DEF Authenticate, Goto
<1>9. ASSUME NEW w \in Requests, LookForNoPassword(w) PROVE SessionsFollowThePassword'
  BY <1>9 DEF LookForNoPassword, Goto
<1>10. ASSUME NEW w \in Requests, CheckCurrent(w) PROVE SessionsFollowThePassword'
  BY <1>10 DEF CheckCurrent, Goto
<1>11. ASSUME NEW w \in Requests, NEW new \in Passwords, SetPassword(w, new) PROVE SessionsFollowThePassword'
  BY <1>11 DEF SetPassword, Ends, Goto, Replacing, At
<1>12. ASSUME NEW w \in Requests, NEW new \in Passwords, ReplacePassword(w, new) PROVE SessionsFollowThePassword'
  BY <1>12 DEF ReplacePassword, Goto, Marks, Replacing, At
<1>13. ASSUME NEW w \in Requests, AfterReplacing(w) PROVE SessionsFollowThePassword'
  BY <1>13 DEF AfterReplacing, InvalidateAll, Ends, Goto, Refreshing, At
<1>14. ASSUME NEW w \in Requests, ReadAccount(w) PROVE SessionsFollowThePassword'
  BY <1>14 DEF ReadAccount, Goto
<1>15. ASSUME NEW w \in Requests, OpenSession(w) PROVE SessionsFollowThePassword'
  BY <1>15 DEF OpenSession, IssueToken, Ends, Goto
<1>16. ASSUME NEW w \in Requests, ReadSession(w) PROVE SessionsFollowThePassword'
  BY <1>16 DEF ReadSession, Goto
<1>17. ASSUME NEW w \in Requests, Refresh(w) PROVE SessionsFollowThePassword'
  BY <1>17 DEF Refresh, IssueToken, Ends, Goto
<1>18. ASSUME NEW w \in Requests, Revoke(w) PROVE SessionsFollowThePassword'
  BY <1>18 DEF Revoke, Ends, Goto, Marks, Acting, At
<1>19. ASSUME NEW w \in Requests, Leave(w) PROVE SessionsFollowThePassword'
  BY <1>19 DEF Leave, Made, Ends, Goto, Refreshing, At
<1>20. ASSUME NEW w \in Requests, LogoutAll(w) PROVE SessionsFollowThePassword'
  BY <1>20 DEF LogoutAll, InvalidateAll, Ends, Goto, Refreshing, At
<1>21. ASSUME NEW w \in Requests, Fails(w) PROVE SessionsFollowThePassword'
  BY <1>21 DEF Fails, Ends, Goto
<1> QED BY <1>0, <1>1, <1>2, <1>3, <1>4, <1>5, <1>6, <1>7, <1>8, <1>9, <1>10, <1>11, <1>12, <1>13, <1>14, <1>15, <1>16, <1>17, <1>18, <1>19, <1>20, <1>21 DEF Next

(* The requests that have read the count of a code and not yet added to it. *)
Pending(c) == {w \in Requests : at[w] = "checked" /\ code[w] = c}

GuessesAreCounted ==
  \A c \in Codes : attempts[c] + Cardinality(Pending(c)) <= MaxAttempts + Cardinality(Requests) - 1

LEMMA PendingIsFinite ==
  ASSUME NEW c
  PROVE  /\ IsFiniteSet(Pending(c)) /\ IsFiniteSet(Requests)
         /\ Cardinality(Pending(c)) \in Nat /\ Cardinality(Requests) \in Nat
         /\ Cardinality(Pending(c)) <= Cardinality(Requests)
<1>1. Pending(c) \subseteq Requests
  BY DEF Pending
<1>2. IsFiniteSet(Requests)
  BY SessionsAssumption
<1>3. IsFiniteSet(Pending(c)) /\ Cardinality(Pending(c)) <= Cardinality(Requests)
  BY <1>1, <1>2, FS_Subset
<1> QED BY <1>2, <1>3, FS_CardinalityType

(* A step that adds to no code, and puts no request to its pending ones.    *)
LEMMA NobodyReads ==
  ASSUME TypeOK, TypeOK', GuessesAreCounted, attempts' = attempts,
         \A w \in Requests : at'[w] = "checked" => at[w] = "checked" /\ code'[w] = code[w]
  PROVE  GuessesAreCounted'
<1> SUFFICES ASSUME NEW c \in Codes
             PROVE  attempts'[c] + Cardinality(Pending(c)') <= MaxAttempts + Cardinality(Requests) - 1
  BY DEF GuessesAreCounted
<1>1. Pending(c)' \subseteq Pending(c)
  BY DEF Pending
<1>2. IsFiniteSet(Pending(c)) /\ Cardinality(Pending(c)) \in Nat
  BY PendingIsFinite
<1>3. IsFiniteSet(Pending(c)') /\ Cardinality(Pending(c)') <= Cardinality(Pending(c))
  BY <1>1, <1>2, FS_Subset
<1>4. Cardinality(Pending(c)') \in Nat
  BY <1>3, FS_CardinalityType
<1>5. attempts[c] + Cardinality(Pending(c)) <= MaxAttempts + Cardinality(Requests) - 1
  BY DEF GuessesAreCounted
<1> QED BY <1>2, <1>3, <1>4, <1>5, PendingIsFinite, SessionsAssumption DEF TypeOK

LEMMA ReadCounts ==
  ASSUME TypeOK, TypeOK', GuessesAreCounted,
         NEW w \in Requests, NEW p \in Purposes, ReadCode(w, p)
  PROVE  GuessesAreCounted'
<1> SUFFICES ASSUME NEW c \in Codes
             PROVE  attempts'[c] + Cardinality(Pending(c)') <= MaxAttempts + Cardinality(Requests) - 1
  BY DEF GuessesAreCounted
<1> USE SessionsAssumption
<1>1. Cardinality(Requests) \in Nat /\ attempts[c] \in Nat /\ attempts' = attempts
  BY PendingIsFinite DEF TypeOK, ReadCode, codes
<1>2. PICK d \in Codes : attempts[d] < MaxAttempts /\ code' = [code EXCEPT ![w] = d]
  BY DEF ReadCode
<1>3. Pending(c)' \subseteq Requests
  BY DEF Pending
<1>4. Cardinality(Pending(c)') \in Nat /\ Cardinality(Pending(c)') <= Cardinality(Requests)
  BY <1>3, FS_Subset, FS_CardinalityType
<1>5. CASE c = d
  BY <1>1, <1>2, <1>4, <1>5
<1>6. CASE c # d
  <2>1. Pending(c)' \subseteq Pending(c)
    BY <1>2, <1>6 DEF Pending, ReadCode, Goto, TypeOK
  <2>2. IsFiniteSet(Pending(c)) /\ Cardinality(Pending(c)) \in Nat
    BY PendingIsFinite
  <2>3. Cardinality(Pending(c)') <= Cardinality(Pending(c))
    BY <2>1, <2>2, FS_Subset
  <2>4. attempts[c] + Cardinality(Pending(c)) <= MaxAttempts + Cardinality(Requests) - 1
    BY DEF GuessesAreCounted
  <2> QED BY <1>1, <1>4, <2>2, <2>3, <2>4
<1> QED BY <1>5, <1>6

LEMMA CountCounts ==
  ASSUME TypeOK, TypeOK', GuessesAreCounted, NEW w \in Requests, CountAttempt(w)
  PROVE  GuessesAreCounted'
<1> SUFFICES ASSUME NEW c \in Codes
             PROVE  attempts'[c] + Cardinality(Pending(c)') <= MaxAttempts + Cardinality(Requests) - 1
  BY DEF GuessesAreCounted
<1> USE SessionsAssumption
<1>1. Cardinality(Requests) \in Nat /\ attempts[c] \in Nat /\ attempts \in [Codes -> Nat]
  BY PendingIsFinite DEF TypeOK
<1>2. attempts[c] + Cardinality(Pending(c)) <= MaxAttempts + Cardinality(Requests) - 1
  BY DEF GuessesAreCounted
<1>3. IsFiniteSet(Pending(c)) /\ Cardinality(Pending(c)) \in Nat
  BY PendingIsFinite
<1>4. at[w] = "checked" /\ at'[w] # "checked" /\ \A v \in Requests \ {w} : at'[v] = at[v] /\ code'[v] = code[v]
  BY DEF CountAttempt, Goto, Ends, locals, TypeOK
<1>5. Pending(c)' = Pending(c) \ {w}
  BY <1>4 DEF Pending
<1>6. CASE code[w] = c
  <2>1. w \in Pending(c)
    BY <1>4, <1>6 DEF Pending
  <2>2. Cardinality(Pending(c)') = Cardinality(Pending(c)) - 1
    BY <1>3, <1>5, <2>1, FS_RemoveElement
  <2>3. attempts'[c] = attempts[c] + 1
    BY <1>1, <1>6 DEF CountAttempt
  <2> QED BY <1>1, <1>2, <1>3, <2>2, <2>3
<1>7. CASE code[w] # c
  <2>1. Pending(c)' = Pending(c)
    BY <1>5, <1>7 DEF Pending
  <2>2. attempts'[c] = attempts[c]
    BY <1>1, <1>7 DEF CountAttempt
  <2> QED BY <1>2, <2>1, <2>2
<1> QED BY <1>6, <1>7

LEMMA GuessesStay ==
  ASSUME TypeOK, TypeOK', GuessesAreCounted, [Next]_vars PROVE GuessesAreCounted'
<1>1. CASE \E w \in Requests : CountAttempt(w)
  BY <1>1, CountCounts
<1>2. CASE \E w \in Requests, p \in Purposes : ReadCode(w, p)
  BY <1>2, ReadCounts
<1>3. CASE ~ \E w \in Requests : CountAttempt(w) \/ \E p \in Purposes : ReadCode(w, p)
  <2>1. attempts' = attempts /\ \A w \in Requests :
          at'[w] = "checked" => at[w] = "checked" /\ code'[w] = code[w]
    <3> USE DEF TypeOK, codes, access, locals, history
    <3>0. CASE UNCHANGED vars
      BY <3>0 DEF vars
    <3>1. CASE Forgot
      BY <3>1 DEF Forgot, CreateOTP
    <3>2. ASSUME NEW w \in Requests, NEW p \in Purposes, RetireCodes(w, p)
         PROVE  attempts' = attempts /\ \A v \in Requests :
                  at'[v] = "checked" => at[v] = "checked" /\ code'[v] = code[v]
      BY <3>2 DEF RetireCodes, Open, Goto, Marks, Answering, At
    <3>3. ASSUME NEW w \in Requests, MarkVerified(w)
         PROVE  attempts' = attempts /\ \A v \in Requests :
                  at'[v] = "checked" => at[v] = "checked" /\ code'[v] = code[v]
      BY <3>3 DEF MarkVerified, Goto, Marks, Answering, At
    <3>4. ASSUME NEW w \in Requests, MakeCode(w)
         PROVE  attempts' = attempts /\ \A v \in Requests :
                  at'[v] = "checked" => at[v] = "checked" /\ code'[v] = code[v]
      BY <3>4 DEF MakeCode, CreateOTP, Ends, Goto
    <3>5. ASSUME NEW w \in Requests, VerifyEmail(w)
         PROVE  attempts' = attempts /\ \A v \in Requests :
                  at'[v] = "checked" => at[v] = "checked" /\ code'[v] = code[v]
      BY <3>5 DEF VerifyEmail, Ends, Goto
    <3>6. ASSUME NEW w \in Requests, Authenticate(w)
         PROVE  attempts' = attempts /\ \A v \in Requests :
                  at'[v] = "checked" => at[v] = "checked" /\ code'[v] = code[v]
      BY <3>6 DEF Authenticate, Goto
    <3>7. ASSUME NEW w \in Requests, LookForNoPassword(w)
         PROVE  attempts' = attempts /\ \A v \in Requests :
                  at'[v] = "checked" => at[v] = "checked" /\ code'[v] = code[v]
      BY <3>7 DEF LookForNoPassword, Goto
    <3>8. ASSUME NEW w \in Requests, CheckCurrent(w)
         PROVE  attempts' = attempts /\ \A v \in Requests :
                  at'[v] = "checked" => at[v] = "checked" /\ code'[v] = code[v]
      BY <3>8 DEF CheckCurrent, Goto
    <3>9. ASSUME NEW w \in Requests, NEW new \in Passwords, SetPassword(w, new)
         PROVE  attempts' = attempts /\ \A v \in Requests :
                  at'[v] = "checked" => at[v] = "checked" /\ code'[v] = code[v]
      BY <3>9 DEF SetPassword, Ends, Goto, Replacing, At
    <3>10. ASSUME NEW w \in Requests, NEW new \in Passwords, ReplacePassword(w, new)
         PROVE  attempts' = attempts /\ \A v \in Requests :
                  at'[v] = "checked" => at[v] = "checked" /\ code'[v] = code[v]
      BY <3>10 DEF ReplacePassword, Goto, Marks, Replacing, At
    <3>11. ASSUME NEW w \in Requests, AfterReplacing(w)
         PROVE  attempts' = attempts /\ \A v \in Requests :
                  at'[v] = "checked" => at[v] = "checked" /\ code'[v] = code[v]
      BY <3>11 DEF AfterReplacing, InvalidateAll, Ends, Goto, Refreshing, At
    <3>12. ASSUME NEW w \in Requests, ReadAccount(w)
         PROVE  attempts' = attempts /\ \A v \in Requests :
                  at'[v] = "checked" => at[v] = "checked" /\ code'[v] = code[v]
      BY <3>12 DEF ReadAccount, Goto
    <3>13. ASSUME NEW w \in Requests, OpenSession(w)
         PROVE  attempts' = attempts /\ \A v \in Requests :
                  at'[v] = "checked" => at[v] = "checked" /\ code'[v] = code[v]
      BY <3>13 DEF OpenSession, IssueToken, Ends, Goto
    <3>14. ASSUME NEW w \in Requests, ReadSession(w)
         PROVE  attempts' = attempts /\ \A v \in Requests :
                  at'[v] = "checked" => at[v] = "checked" /\ code'[v] = code[v]
      BY <3>14 DEF ReadSession, Goto
    <3>15. ASSUME NEW w \in Requests, Refresh(w)
         PROVE  attempts' = attempts /\ \A v \in Requests :
                  at'[v] = "checked" => at[v] = "checked" /\ code'[v] = code[v]
      BY <3>15 DEF Refresh, IssueToken, Ends, Goto
    <3>16. ASSUME NEW w \in Requests, Revoke(w)
         PROVE  attempts' = attempts /\ \A v \in Requests :
                  at'[v] = "checked" => at[v] = "checked" /\ code'[v] = code[v]
      BY <3>16 DEF Revoke, Ends, Goto, Marks, Acting, At
    <3>17. ASSUME NEW w \in Requests, Leave(w)
         PROVE  attempts' = attempts /\ \A v \in Requests :
                  at'[v] = "checked" => at[v] = "checked" /\ code'[v] = code[v]
      BY <3>17 DEF Leave, Made, Ends, Goto, Refreshing, At
    <3>18. ASSUME NEW w \in Requests, LogoutAll(w)
         PROVE  attempts' = attempts /\ \A v \in Requests :
                  at'[v] = "checked" => at[v] = "checked" /\ code'[v] = code[v]
      BY <3>18 DEF LogoutAll, InvalidateAll, Ends, Goto, Refreshing, At
    <3>19. ASSUME NEW w \in Requests, Fails(w)
         PROVE  attempts' = attempts /\ \A v \in Requests :
                  at'[v] = "checked" => at[v] = "checked" /\ code'[v] = code[v]
      BY <3>19 DEF Fails, Ends, Goto
    <3> QED BY <1>3, <3>0, <3>1, <3>2, <3>3, <3>4, <3>5, <3>6, <3>7, <3>8, <3>9, <3>10, <3>11, <3>12, <3>13, <3>14, <3>15, <3>16, <3>17, <3>18, <3>19 DEF Next
  <2> QED BY <2>1, NobodyReads
<1> QED BY <1>1, <1>2, <1>3

-----------------------------------------------------------------------------
IInv ==
  /\ TypeOK
  /\ SpentAreUsed /\ AnswersAreCurrent /\ KnownIsCurrent /\ RefreshesAreLive /\ ActorsAreAdmitted
  /\ SessionsFollowThePassword /\ GuessesAreCounted

LEMMA InitIInv == Init => IInv
<1> SUFFICES ASSUME Init PROVE IInv
  OBVIOUS
<1>1. TypeOK
  <2>1. otp \in [Codes -> {"none", "open", "used"}] /\ issued \in 0 .. MaxTokens
    BY SessionsAssumption DEF Init
  <2>2. /\ code \in [Requests -> Codes \cup {0}] /\ sess \in [Requests -> SessionIds \cup {0}]
        /\ token \in [Requests -> Tokens \cup {0}] /\ what \in [Requests -> Purposes]
        /\ purpose \in [Codes -> Purposes] /\ attempts \in [Codes -> Nat]
    BY DEF Init, Purposes
  <2>3. /\ session \in [SessionIds -> {"none", "valid", "invalid"}]
        /\ at \in [Requests -> Stages] /\ \A w \in Requests : at[w] = "idle"
        /\ known \in [Requests -> Passwords \cup {NoPassword}]
        /\ under \in [SessionIds -> Passwords \cup {NoPassword}]
    BY DEF Init, Stages
  <2> QED BY <2>1, <2>2, <2>3 DEF Init, TypeOK
<1>2. GuessesAreCounted
  <2> SUFFICES ASSUME NEW c \in Codes
               PROVE  attempts[c] + Cardinality(Pending(c)) <= MaxAttempts + Cardinality(Requests) - 1
    BY DEF GuessesAreCounted
  <2>1. attempts[c] = 0
    BY DEF Init
  <2>2. Cardinality(Pending(c)) \in Nat /\ Cardinality(Requests) \in Nat
        /\ Cardinality(Pending(c)) <= Cardinality(Requests)
    BY PendingIsFinite
  <2> QED BY <2>1, <2>2, SessionsAssumption
<1>3. SpentAreUsed /\ AnswersAreCurrent /\ KnownIsCurrent /\ RefreshesAreLive /\ ActorsAreAdmitted
  BY DEF Init, SpentAreUsed, AnswersAreCurrent, KnownIsCurrent, RefreshesAreLive, ActorsAreAdmitted
<1>4. SessionsFollowThePassword
  BY DEF Init, SessionsFollowThePassword
<1> QED BY <1>1, <1>2, <1>3, <1>4 DEF IInv

LEMMA NextIInv == IInv /\ [Next]_vars => IInv'
<1> SUFFICES ASSUME IInv, [Next]_vars PROVE IInv'
  OBVIOUS
<1>1. TypeOK'
  BY TypesStay DEF IInv
<1>2. SpentAreUsed' /\ AnswersAreCurrent'
  BY SpentStay, AnswersStay DEF IInv
<1>3. KnownIsCurrent' /\ RefreshesAreLive' /\ ActorsAreAdmitted'
  BY KnownStay, RefreshesStay, ActorsStay DEF IInv
<1>4. SessionsFollowThePassword' /\ GuessesAreCounted'
  BY <1>1, FollowStay, GuessesStay DEF IInv
<1> QED BY <1>1, <1>2, <1>3, <1>4 DEF IInv

THEOREM SpecIInv == Spec => []IInv
BY InitIInv, NextIInv, PTL DEF Spec

(* Type correctness of the account and of every request.                    *)
THEOREM SessionTypes == Spec => []TypeOK
<1>1. IInv => TypeOK
  BY DEF IInv
<1> QED BY <1>1, SpecIInv, PTL

(* The attempts at one code exceed the limit by less than the number of     *)
(* requests that are handled at one time.                                   *)
THEOREM GuessesStayBounded == Spec => []GuessesAreBounded
<1>1. IInv => GuessesAreBounded
  <2> SUFFICES ASSUME IInv, NEW c \in Codes
               PROVE  attempts[c] <= MaxAttempts + Cardinality(Requests) - 1
    BY DEF GuessesAreBounded
  <2>1. attempts[c] + Cardinality(Pending(c)) <= MaxAttempts + Cardinality(Requests) - 1
    BY DEF IInv, GuessesAreCounted
  <2>2. Cardinality(Pending(c)) \in Nat /\ Cardinality(Requests) \in Nat
    BY PendingIsFinite
  <2>3. attempts[c] \in Nat
    BY DEF IInv, TypeOK
  <2> QED BY <2>1, <2>2, <2>3, SessionsAssumption
<1> QED BY <1>1, SpecIInv, PTL

(* A session outlives a change of the password only with a login that had   *)
(* read the old one, or a change that stopped halfway.                      *)
THEOREM SessionsEndWithThePassword == Spec => []SessionsFollowThePassword
<1>1. IInv => SessionsFollowThePassword
  BY DEF IInv
<1> QED BY <1>1, SpecIInv, PTL

(* What failed guesses and replaced passwords may still open is bounded.    *)
THEOREM LimitsStay == Spec => []LimitsHold
BY GuessesStayBounded, SessionsEndWithThePassword, PTL DEF LimitsHold

(* A code is accepted once, and not after it was retired, but for a request *)
(* that had read it before.                                                 *)
THEOREM CodesStayAnswered == Spec => CodesAreAnsweredOnce
<1>1. IInv /\ [Next]_vars => [AnsweredOnce]_vars
  BY DEF IInv, AnswersAreCurrent, AnsweredOnce
<1> QED BY <1>1, SpecIInv, PTL DEF Spec, CodesAreAnsweredOnce

(* A password is replaced without a code only by a request that knew it, or *)
(* that another one's write had overtaken.                                  *)
THEOREM PasswordsAreKnown == Spec => PasswordReplacedKnowingly
<1>1. IInv /\ [Next]_vars => [ReplacedKnowingly]_vars
  BY DEF IInv, KnownIsCurrent, ReplacedKnowingly
<1> QED BY <1>1, SpecIInv, PTL DEF Spec, PasswordReplacedKnowingly

(* What has ended gives no token and changes nothing, but in a request that *)
(* was past its check.                                                      *)
THEOREM EndedStaysEnded == Spec => NothingFromTheEnded
<1>1. IInv /\ [Next]_vars => [EndedIsInert]_vars
  BY DEF IInv, RefreshesAreLive, ActorsAreAdmitted, EndedIsInert
<1> QED BY <1>1, SpecIInv, PTL DEF Spec, NothingFromTheEnded

(* What no longer counts has an effect only through a request that had read *)
(* it while it did.                                                         *)
THEOREM StaleNeverCounts == Spec => NothingStaleCounts
BY CodesStayAnswered, PasswordsAreKnown, EndedStaysEnded, PTL
   DEF NothingStaleCounts, CodesAreAnsweredOnce, PasswordReplacedKnowingly, NothingFromTheEnded
=============================================================================
