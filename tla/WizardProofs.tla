----------------------------- MODULE WizardProofs -----------------------------
(***************************************************************************)
(* What SetupWizard and WizardStack promise, for any answers: the walk     *)
(* asks what it should, no credential is lost, and the files fit together. *)
(***************************************************************************)
EXTENDS SetupWizard, WizardStack, DataLemmas

(* The answers of a setup, each with its question.                          *)
Fields ==
    {"public_base_url", "enable_mcp", "mcp_auth_enabled", "admin_enabled",
     "deploy_authentik", "smtp_host", "smtp_auth", "audit_log",
     "audit_storage", "audit_log_path", "redis_persistence",
     "redis_data_path"}

(* The wizard has fifteen questions; most decide on what is answered.       *)
LEMMA QuestionsAre ==
    /\ DOMAIN Questions = 1..15 /\ Len(Questions) = 15
    /\ ToSet(Questions) = Fields \cup OpenQuestions
    /\ Fields \cap OpenQuestions = {}
    /\ DOMAIN Answers = Fields
<1>1. DOMAIN Questions = 1..15 /\ Len(Questions) = 15
  BY DEF Questions
<1>2. \A n \in 1..15 : Questions[n] \in Fields \cup OpenQuestions
  BY DEF Questions, Fields, OpenQuestions
<1>3. /\ Questions[1] = "public_base_url" /\ Questions[2] = "enable_mcp"
      /\ Questions[3] = "mcp_auth_enabled" /\ Questions[4] = "admin_enabled"
      /\ Questions[5] = "deploy_authentik" /\ Questions[6] = "authentik_accounts"
      /\ Questions[7] = "mcp_auth_issuer" /\ Questions[8] = "smtp_host"
      /\ Questions[9] = "smtp_auth" /\ Questions[10] = "smtp_password"
      /\ Questions[11] = "audit_log" /\ Questions[12] = "audit_storage"
      /\ Questions[13] = "audit_log_path" /\ Questions[14] = "redis_persistence"
      /\ Questions[15] = "redis_data_path"
  BY DEF Questions
<1>4. ASSUME NEW q \in Fields \cup OpenQuestions PROVE \E n \in 1..15 : Questions[n] = q
  BY <1>3 DEF Fields, OpenQuestions
<1>5. ToSet(Questions) = Fields \cup OpenQuestions
  BY <1>1, <1>2, <1>4 DEF ToSet
<1>6. Fields \cap OpenQuestions = {}
  BY DEF Fields, OpenQuestions
<1> QED
  BY <1>1, <1>5, <1>6, WizardAssumption

(* The answer to a later question has another name.                         *)
LEMMA LaterQuestions ==
    /\ \A n \in 3..15 : Questions[n] # "enable_mcp"
    /\ \A n \in 4..15 : Questions[n] # "mcp_auth_enabled"
    /\ \A n \in 5..15 : Questions[n] # "admin_enabled"
    /\ \A n \in 6..15 : Questions[n] # "deploy_authentik"
    /\ \A n \in 9..15 : Questions[n] # "smtp_host"
    /\ \A n \in 10..15 : Questions[n] # "smtp_auth"
    /\ \A n \in 12..15 : Questions[n] # "audit_log"
    /\ \A n \in 13..15 : Questions[n] # "audit_storage"
    /\ \A n \in 15..15 : Questions[n] # "redis_persistence"
BY DEF Questions

(* An answer is one of those its question offers.                           *)
LEMMA SetupsAre ==
    ASSUME NEW s \in Setups
    PROVE  /\ DOMAIN s = Fields
           /\ \A q \in Fields : s[q] \in Answers[q]
           /\ s.deploy_authentik \in BOOLEAN
<1>1. DOMAIN s = Fields
  BY DEF Setups, Fields
<1>2. \A q \in Fields : s[q] \in Answers[q]
  BY DEF Setups, Fields
<1> QED
  BY <1>1, <1>2, WizardAssumption DEF Fields

(* Changing one answer leaves the others as they are.                       *)
LEMMA SetupChanged ==
    ASSUME NEW s \in Setups, NEW q \in Fields, NEW a \in Answers[q]
    PROVE  [s EXCEPT ![q] = a] \in Setups
<1> DEFINE t == [s EXCEPT ![q] = a]
<1>1. DOMAIN t = Fields
  BY SetupsAre
<1>2. \A p \in Fields : t[p] \in Answers[p]
  BY SetupsAre
<1>3. t = [p \in Fields |-> t[p]]
  BY SetupsAre
<1> HIDE DEF t
<1>4. t = [public_base_url   |-> t.public_base_url,
           enable_mcp        |-> t.enable_mcp,
           mcp_auth_enabled  |-> t.mcp_auth_enabled,
           admin_enabled     |-> t.admin_enabled,
           deploy_authentik  |-> t.deploy_authentik,
           smtp_host         |-> t.smtp_host,
           smtp_auth         |-> t.smtp_auth,
           audit_log         |-> t.audit_log,
           audit_storage     |-> t.audit_storage,
           audit_log_path    |-> t.audit_log_path,
           redis_persistence |-> t.redis_persistence,
           redis_data_path   |-> t.redis_data_path]
  BY <1>1, <1>3 DEF Fields
<1> QED
  BY <1>2, <1>4 DEF Setups, Fields, t

(* What ask and _offer_authentik make of the answers.                       *)
LEMMA TakenIs ==
    ASSUME NEW s \in Setups, NEW q \in Fields \cup OpenQuestions, NEW t \in Taken(q, s)
    PROVE  /\ t \in Setups /\ Offer(s, t) \in Setups
           /\ \A p \in Fields : p # q => t[p] = s[p]
           /\ \A p \in Fields : p # q /\ p # "deploy_authentik" => Offer(s, t)[p] = s[p]
           /\ (SignInWanted(t) <=> SignInWanted(s)) =>
                 Offer(s, t).deploy_authentik = t.deploy_authentik
<1>1. t \in Setups /\ \A p \in Fields : p # q => t[p] = s[p]
  <2>1. CASE q \in OpenQuestions
    BY <2>1 DEF Taken
  <2>2. CASE q \notin OpenQuestions
    <3>1. PICK a \in Answers[q] : t = [s EXCEPT ![q] = a]
      BY <2>2 DEF Taken
    <3>2. t \in Setups
      BY <2>2, <3>1, SetupChanged
    <3> QED
      BY <3>1, <3>2, SetupsAre
  <2> QED
    BY <2>1, <2>2
<1> DEFINE offered == t.deploy_authentik \/ (SignInWanted(t) /\ ~SignInWanted(s))
<1>2. Offer(s, t) = [t EXCEPT !.deploy_authentik = offered]
  BY DEF Offer
<1>3. "deploy_authentik" \in Fields /\ offered \in Answers["deploy_authentik"]
  BY WizardAssumption DEF Fields
<1>4. DOMAIN t = Fields /\ t.deploy_authentik \in BOOLEAN
  BY <1>1, SetupsAre
<1>5. (SignInWanted(t) <=> SignInWanted(s)) => offered = t.deploy_authentik
  BY <1>4, Zenon
<1> HIDE DEF offered
<1>6. Offer(s, t) \in Setups
  BY <1>1, <1>2, <1>3, SetupChanged
<1>7. /\ Offer(s, t).deploy_authentik = offered
      /\ \A p \in Fields : p # "deploy_authentik" => Offer(s, t)[p] = t[p]
  BY <1>2, <1>3, <1>4
<1> QED
  BY <1>1, <1>5, <1>6, <1>7


(* What each question depends on.                                           *)
LEMMA RelevanceIs ==
    ASSUME NEW s
    PROVE  /\ Relevant(Questions[1], s) /\ Relevant(Questions[2], s)
           /\ Relevant(Questions[3], s) <=> s.enable_mcp
           /\ Relevant(Questions[4], s)
           /\ Relevant(Questions[5], s) <=> WantsAProvider(s)
           /\ Relevant(Questions[6], s) <=> UsesAuthentik(s)
           /\ Relevant(Questions[7], s) <=> SignsIn(s) /\ ~UsesAuthentik(s)
           /\ Relevant(Questions[8], s) <=> UsesAuthentik(s)
           /\ Relevant(Questions[9], s) <=> UsesAuthentik(s) /\ s.smtp_host
           /\ Relevant(Questions[10], s) <=> UsesAuthentik(s) /\ s.smtp_host /\ s.smtp_auth
           /\ Relevant(Questions[11], s)
           /\ Relevant(Questions[12], s) <=> s.audit_log
           /\ Relevant(Questions[13], s) <=> s.audit_log /\ s.audit_storage = "filesystem"
           /\ Relevant(Questions[14], s)
           /\ Relevant(Questions[15], s) <=> s.redis_persistence = "filesystem"
<1> USE DEF ProviderAnswers, MailAnswers, TokenAnswers
<1>1. Relevant("public_base_url", s) /\ Relevant("enable_mcp", s)
      /\ Relevant("admin_enabled", s) /\ Relevant("audit_log", s)
      /\ Relevant("redis_persistence", s)
  BY DEF Relevant
<1>2. Relevant("mcp_auth_enabled", s) <=> s.enable_mcp
  BY DEF Relevant
<1>3. Relevant("deploy_authentik", s) <=> WantsAProvider(s)
  BY DEF Relevant
<1>4. Relevant("authentik_accounts", s) <=> UsesAuthentik(s)
  BY DEF Relevant
<1>5. Relevant("mcp_auth_issuer", s) <=> SignsIn(s) /\ ~UsesAuthentik(s)
  BY DEF Relevant
<1>6. Relevant("smtp_host", s) <=> UsesAuthentik(s)
  BY DEF Relevant, MailRelevant
<1>7. Relevant("smtp_auth", s) <=> UsesAuthentik(s) /\ s.smtp_host
  BY DEF Relevant, MailRelevant
<1>8. Relevant("smtp_password", s) <=> UsesAuthentik(s) /\ s.smtp_host /\ s.smtp_auth
  BY DEF Relevant, MailRelevant
<1>9. Relevant("audit_storage", s) <=> s.audit_log
  BY DEF Relevant
<1>10. Relevant("audit_log_path", s) <=> s.audit_log /\ s.audit_storage = "filesystem"
  BY DEF Relevant
<1>11. Relevant("redis_data_path", s) <=> s.redis_persistence = "filesystem"
  BY DEF Relevant
<1> QED
  BY <1>1, <1>2, <1>3, <1>4, <1>5, <1>6, <1>7, <1>8, <1>9, <1>10, <1>11 DEF Questions

(* No answer makes an earlier question, or its own, relevant or pointless.  *)
LEMMA EarlierQuestionsStand ==
    ASSUME NEW s \in Setups, NEW j \in 1..15, NEW t \in Taken(Questions[j], s),
           NEW i \in 1..j
    PROVE  Relevant(Questions[i], Offer(s, t)) <=> Relevant(Questions[i], s)
<1> DEFINE u == Offer(s, t)
<1>1. Questions[j] \in Fields \cup OpenQuestions
  BY QuestionsAre DEF ToSet
<1>2. /\ \A p \in Fields : p # Questions[j] => t[p] = s[p]
      /\ \A p \in Fields : p # Questions[j] /\ p # "deploy_authentik" => u[p] = s[p]
      /\ (SignInWanted(t) <=> SignInWanted(s)) => u.deploy_authentik = t.deploy_authentik
  BY <1>1, TakenIs
<1> HIDE DEF u
<1> USE DEF Fields
<1>3. j \in 3..15 => u.enable_mcp = s.enable_mcp /\ t.enable_mcp = s.enable_mcp
  BY <1>2, LaterQuestions
<1>4. j \in 4..15 => u.mcp_auth_enabled = s.mcp_auth_enabled
                       /\ t.mcp_auth_enabled = s.mcp_auth_enabled
  BY <1>2, LaterQuestions
<1>5. j \in 5..15 => u.admin_enabled = s.admin_enabled /\ t.admin_enabled = s.admin_enabled
  BY <1>2, LaterQuestions
<1>6. j \in 6..15 => u.deploy_authentik = s.deploy_authentik
  <2> SUFFICES ASSUME j \in 6..15 PROVE u.deploy_authentik = s.deploy_authentik
    OBVIOUS
  <2>1. j \in 3..15 /\ j \in 4..15 /\ j \in 5..15
    OBVIOUS
  <2>2. SignInWanted(t) <=> SignInWanted(s)
    BY <1>3, <1>4, <1>5, <2>1 DEF SignInWanted, SignsIn
  <2>3. t.deploy_authentik = s.deploy_authentik
    BY <1>2, LaterQuestions
  <2> QED
    BY <1>2, <2>2, <2>3
<1>7. j \in 9..15 => u.smtp_host = s.smtp_host
  BY <1>2, LaterQuestions
<1>8. j \in 10..15 => u.smtp_auth = s.smtp_auth
  BY <1>2, LaterQuestions
<1>9. j \in 12..15 => u.audit_log = s.audit_log
  BY <1>2, LaterQuestions
<1>10. j \in 13..15 => u.audit_storage = s.audit_storage
  BY <1>2, LaterQuestions
<1>11. j \in 15..15 => u.redis_persistence = s.redis_persistence
  BY <1>2, LaterQuestions
<1>12. j \in 5..15 => (WantsAProvider(u) <=> WantsAProvider(s))
  BY <1>3, <1>5 DEF WantsAProvider
<1>13. j \in 6..15 => /\ UsesAuthentik(u) <=> UsesAuthentik(s)
                      /\ SignsIn(u) <=> SignsIn(s)
  BY <1>3, <1>4, <1>6, <1>12 DEF UsesAuthentik, SignsIn
<1> QED
  <2>1. CASE i \in {1, 2, 4, 11, 14}
    BY <2>1, RelevanceIs DEF u
  <2>2. CASE i = 3
    BY <1>3, <2>2, RelevanceIs DEF u
  <2>3. CASE i = 5
    BY <1>12, <2>3, RelevanceIs DEF u
  <2>4. CASE i \in {6, 7, 8}
    BY <1>13, <2>4, RelevanceIs DEF u
  <2>5. CASE i = 9
    BY <1>7, <1>13, <2>5, RelevanceIs DEF u
  <2>6. CASE i = 10
    BY <1>7, <1>8, <1>13, <2>6, RelevanceIs DEF u
  <2>7. CASE i = 12
    BY <1>9, <2>7, RelevanceIs DEF u
  <2>8. CASE i = 13
    BY <1>9, <1>10, <2>8, RelevanceIs DEF u
  <2>9. CASE i = 15
    BY <1>11, <2>9, RelevanceIs DEF u
  <2> QED
    BY <2>1, <2>2, <2>3, <2>4, <2>5, <2>6, <2>7, <2>8, <2>9


(* The questions of a run are the first of all questions.                   *)
LEMMA WalkIs ==
    ASSUME NEW m, NEW s
    PROVE  /\ Len(WalkOf(m, s)) \in 0..15 /\ DOMAIN WalkOf(m, s) = 1..Len(WalkOf(m, s))
           /\ \A n \in 1..Len(WalkOf(m, s)) : WalkOf(m, s)[n] = Questions[n]
<1>1. /\ Len(QuickQuestions) = 10 /\ DOMAIN QuickQuestions = 1..10
      /\ \A n \in 1..10 : QuickQuestions[n] = Questions[n]
  <2>0. \A n \in 1..10 : Questions[n] \in Fields \cup OpenQuestions
    BY QuestionsAre DEF ToSet
  <2>1. /\ QuickQuestions \in Seq(Fields \cup OpenQuestions)
        /\ Len(QuickQuestions) = IF 1 <= 10 THEN 10 - 1 + 1 ELSE 0
        /\ \A n \in 1..10 - 1 + 1 : QuickQuestions[n] = Questions[1 + n - 1]
    BY <2>0, SubSeqProperties DEF QuickQuestions
  <2>2. \A n \in 1..10 : n \in 1..10 - 1 + 1 /\ 1 + n - 1 = n
    OBVIOUS
  <2>3. Len(QuickQuestions) = 10 /\ DOMAIN QuickQuestions = 1..10
    BY <2>1, LenProperties
  <2> QED
    BY <2>1, <2>2, <2>3
<1>2. DOMAIN Questions = 1..15 /\ Len(Questions) = 15
  BY QuestionsAre
<1>3. WalkOf(m, s) = Questions \/ WalkOf(m, s) = QuickQuestions
  BY DEF WalkOf
<1>4. CASE WalkOf(m, s) = Questions
  <2>1. Len(WalkOf(m, s)) = 15
    BY <1>2, <1>4, Zenon
  <2>2. DOMAIN WalkOf(m, s) = 1..15
    BY <1>2, <1>4, Zenon
  <2>3. \A n : WalkOf(m, s)[n] = Questions[n]
    BY <1>4, Zenon
  <2> HIDE DEF WalkOf
  <2> QED
    BY <2>1, <2>2, <2>3
<1>5. CASE WalkOf(m, s) = QuickQuestions
  <2>1. 10 \in 0..15 /\ \A n \in 1..Len(QuickQuestions) : n \in 1..10
    BY <1>1
  <2> HIDE DEF WalkOf
  <2> QED
    BY <1>1, <1>5, <2>1
<1> QED
  BY <1>3, <1>4, <1>5


(* The defaults are answers.                                                *)
LEMMA NoSetupIsOne == NoSetup \in Setups
<1> DEFINE some == [q \in Fields |-> CHOOSE a \in Answers[q] : TRUE]
           one == [public_base_url   |-> some["public_base_url"],
                   enable_mcp        |-> some["enable_mcp"],
                   mcp_auth_enabled  |-> some["mcp_auth_enabled"],
                   admin_enabled     |-> some["admin_enabled"],
                   deploy_authentik  |-> some["deploy_authentik"],
                   smtp_host         |-> some["smtp_host"],
                   smtp_auth         |-> some["smtp_auth"],
                   audit_log         |-> some["audit_log"],
                   audit_storage     |-> some["audit_storage"],
                   audit_log_path    |-> some["audit_log_path"],
                   redis_persistence |-> some["redis_persistence"],
                   redis_data_path   |-> some["redis_data_path"]]
<1>1. \A q \in Fields : some[q] \in Answers[q]
  <2>1. \A q \in Fields : Answers[q] # {}
    BY QuestionsAre, WizardAssumption
  <2> QED
    BY <2>1
<1> HIDE DEF some
<1>2. one \in Setups
  BY <1>1 DEF Setups, Fields
<1> QED
  BY <1>2 DEF NoSetup

-----------------------------------------------------------------------------
(* The walk: of the questions before its position those were answered that  *)
(* are relevant now, in their order.                                        *)
AnsweredSoFar ==
    /\ answered \in Seq(1..15)
    /\ \A i \in 1..Len(answered) : answered[i] < position
    /\ \A i, j \in 1..Len(answered) : i < j => answered[i] < answered[j]
    /\ \A n \in 1..position - 1 : Among(n, answered) <=> Relevant(Questions[n], setup)

WalkInv ==
    IF wizardStep \in {"asking", "walked"}
    THEN /\ walk = WalkOf(mode, setup)
         /\ position \in 1..Len(walk) + 1
         /\ wizardStep = "walked" => position = Len(walk) + 1
         /\ AnsweredSoFar
    ELSE walk = <<>> /\ position = 1 /\ answered = <<>>

(* Every number in use was generated.                                       *)
NumbersInv ==
    /\ wizardStep \in {"idle", "asking", "walked", "rested", "review", "backup",
                      "compose", "env", "credentials", "notebook", "done"}
    /\ mode \in {"quick", "full"}
    /\ setup \in Setups
    /\ {redirect, notebook} \subseteq {NoUrl} \cup Answers.public_base_url
    /\ generated \in 0..MaxPasswords
    /\ {password, env} \subseteq 0..generated
    /\ deployed \cup backups \subseteq 1..generated

(* What a run has derived fits its answers, and before .env is truncated    *)
(* what it holds is in a backup.                                            *)
Written == {"notebook", "done"}
Confirmed == {"backup", "compose", "env", "credentials"} \cup Written
Derived == {"review"} \cup Confirmed

FilesInv ==
    /\ deployed \subseteq {env} \cup backups
    /\ wizardStep \in {"compose", "env"} => env \in backups \cup {0}
    /\ wizardStep = "credentials" => env = 0
    /\ wizardStep \in Derived => (UsesAuthentik(setup) <=> password # 0)
    /\ wizardStep \in Confirmed => ~StorageConflict(setup)
    /\ wizardStep \in Written => env = IF UsesAuthentik(setup) THEN password ELSE 0

WizardInv == WalkInv /\ NumbersInv /\ FilesInv

(* Completed answers are answers, and there is a password iff the bundled   *)
(* provider is used (setup-wizard.py, _finalise).                           *)
LEMMA FinaliseFits ==
    ASSUME NumbersInv, NEW s \in Setups, Finalise(s)
    PROVE  /\ setup' \in Setups
           /\ redirect' \in {NoUrl} \cup Answers.public_base_url
           /\ generated' \in 0..MaxPasswords /\ generated <= generated'
           /\ password' \in 0..generated'
           /\ UsesAuthentik(setup') <=> password' # 0
<1>1. /\ redirect \in {NoUrl} \cup Answers.public_base_url
      /\ generated \in 0..MaxPasswords /\ password \in 0..generated
      /\ MaxPasswords \in Nat
  BY WizardAssumption DEF NumbersInv
<1>2. s.public_base_url \in Answers.public_base_url
  BY SetupsAre DEF Fields
<1>3. CASE UsesAuthentik(s)
  <2>1. /\ setup' = s
        /\ redirect' = IF redirect = NoUrl THEN s.public_base_url ELSE redirect
    BY <1>3 DEF Finalise
  <2>2. CASE password = 0
    <3>1. generated < MaxPasswords /\ generated' = generated + 1 /\ password' = generated + 1
      BY <1>3, <2>2 DEF Finalise
    <3>2. /\ generated' \in 0..MaxPasswords /\ generated <= generated'
          /\ password' \in 0..generated' /\ password' # 0
      BY <1>1, <3>1
    <3> QED
      BY <1>1, <1>2, <1>3, <2>1, <3>2
  <2>3. CASE password # 0
    <3>1. generated' = generated /\ password' = password
      BY <1>3, <2>3 DEF Finalise
    <3>2. generated <= generated
      BY <1>1
    <3> QED
      BY <1>1, <1>2, <1>3, <2>1, <2>3, <3>1, <3>2
  <2> QED
    BY <2>2, <2>3
<1>4. CASE ~UsesAuthentik(s)
  <2>1. /\ setup' = [s EXCEPT !.smtp_host = FALSE] /\ password' = 0
        /\ redirect' = redirect /\ generated' = generated
    BY <1>4 DEF Finalise
  <2>2. "smtp_host" \in Fields /\ FALSE \in Answers["smtp_host"]
    BY WizardAssumption DEF Fields
  <2>3. setup' \in Setups
    BY <2>1, <2>2, SetupChanged
  <2>4. /\ setup'.deploy_authentik = s.deploy_authentik
        /\ setup'.enable_mcp = s.enable_mcp /\ setup'.admin_enabled = s.admin_enabled
    BY <2>1, SetupsAre DEF Fields
  <2>5. ~UsesAuthentik(setup')
    BY <1>4, <2>4 DEF UsesAuthentik, WantsAProvider
  <2>6. generated <= generated /\ 0 \in 0..generated
    BY <1>1
  <2> QED
    BY <1>1, <2>1, <2>3, <2>5, <2>6
<1> QED
  BY <1>3, <1>4


-----------------------------------------------------------------------------
(* The steps of the walk.                                                   *)
LEMMA Positions ==
    /\ \A l \in 0..15 : \A p \in 1..l + 1 :
          p <= l => p \in 1..15 /\ p \in 1..l /\ p + 1 \in 1..l + 1
    /\ \A p, r \in 1..15 : \A n \in 1..r - 1 :
          r < p => n \in 1..p - 1 /\ n # r /\ n < r
OBVIOUS

(* What is before the position was asked.                                   *)
LEMMA Below ==
    \A l \in 0..15 : \A p \in 1..l + 1 : \A n \in 1..15 : n < p => n \in 1..l
OBVIOUS

(* The position is at most one past the last question.                      *)
LEMMA NoFurther == \A l \in 0..15 : \A p \in 1..l + 1 : p \in 1..15 + 1
OBVIOUS

(* While a question is asked the walk is the one of the current answers.    *)
LEMMA AtARelevantQuestion ==
    ASSUME WalkInv, AtQuestion
    PROVE  /\ wizardStep = "asking" /\ walk = WalkOf(mode, setup)
           /\ position \in 1..15 /\ position + 1 \in 1..Len(walk) + 1
           /\ Len(walk) \in 0..15
           /\ walk[position] = Questions[position]
           /\ AnsweredSoFar
<1>1. /\ wizardStep = "asking" /\ walk = WalkOf(mode, setup) /\ position <= Len(walk)
      /\ position \in 1..Len(walk) + 1 /\ AnsweredSoFar
  BY DEF WalkInv, AtQuestion
<1>2. Len(walk) \in 0..15 /\ \A n \in 1..Len(walk) : walk[n] = Questions[n]
  BY <1>1, WalkIs
<1>3. position \in 1..15 /\ position \in 1..Len(walk) /\ position + 1 \in 1..Len(walk) + 1
  <2>1. Len(walk) \in 0..15
    BY <1>2
  <2>2. position \in 1..Len(walk) + 1 /\ position <= Len(walk)
    BY <1>1
  <2> QED
    BY <2>1, <2>2, Positions
<1> QED
  BY <1>1, <1>2, <1>3

(* Skipping a question that is not relevant leaves none unanswered.         *)
LEMMA PassOverKeeps ==
    ASSUME WalkInv, PassOver
    PROVE  WalkInv'
<1>1. /\ wizardStep = "asking" /\ walk = WalkOf(mode, setup)
      /\ position \in 1..15 /\ position + 1 \in 1..Len(walk) + 1
      /\ walk[position] = Questions[position] /\ AnsweredSoFar
  BY AtARelevantQuestion DEF PassOver
<1>2. /\ ~Relevant(walk[position], setup) /\ position' = position + 1
      /\ wizardStep' = wizardStep /\ mode' = mode /\ walk' = walk
      /\ answered' = answered /\ setup' = setup
  BY DEF PassOver, answersVars
<1>3. /\ answered \in Seq(1..15)
      /\ \A i \in 1..Len(answered) : answered[i] < position
      /\ \A i, j \in 1..Len(answered) : i < j => answered[i] < answered[j]
      /\ \A n \in 1..position - 1 : Among(n, answered) <=> Relevant(Questions[n], setup)
  BY <1>1 DEF AnsweredSoFar
<1>4. \A i \in 1..Len(answered) : answered[i] \in 1..15
  BY <1>3, ElementOfSeq
<1>5. ASSUME NEW i \in 1..Len(answered) PROVE answered[i] < position + 1
  <2> DEFINE n == answered[i]
             p == position
  <2>1. n \in 1..15 /\ p \in 1..15 /\ n < p
    BY <1>1, <1>3, <1>4
  <2> HIDE DEF n, p
  <2>2. n < p + 1
    BY <2>1
  <2> QED
    BY <2>2 DEF n, p
<1>6. ~Among(position, answered)
  BY <1>1, <1>3, <1>4 DEF Among
<1>7. ASSUME NEW n \in 1..(position + 1) - 1
      PROVE  Among(n, answered) <=> Relevant(Questions[n], setup)
  <2>1. CASE n = position
    BY <1>1, <1>2, <1>6, <2>1
  <2>2. CASE n # position
    <3>1. n \in 1..position - 1
      BY <1>1, <2>2
    <3> QED
      BY <1>3, <3>1
  <2> QED
    BY <2>1, <2>2
<1>8. AnsweredSoFar'
  BY <1>2, <1>3, <1>5, <1>7 DEF AnsweredSoFar
<1> QED
  BY <1>1, <1>2, <1>8 DEF WalkInv

(* An answer decides on no question before it, but through what it forgets  *)
(* (setup-wizard.py, the walk).                                             *)
LEMMA AnswerKeeps ==
    ASSUME WalkInv, setup \in Setups, Answer
    PROVE  WalkInv' /\ setup' \in Setups
<1>1. /\ wizardStep = "asking" /\ walk = WalkOf(mode, setup)
      /\ position \in 1..15 /\ position + 1 \in 1..Len(walk) + 1
      /\ walk[position] = Questions[position] /\ AnsweredSoFar
  BY AtARelevantQuestion DEF Answer
<1>2. /\ Relevant(walk[position], setup) /\ position' = position + 1
      /\ wizardStep' = wizardStep /\ mode' = mode /\ walk' = walk
      /\ answered' = Append(answered, position)
  BY DEF Answer
<1>3. PICK t \in Taken(walk[position], setup) : setup' = Offer(setup, t)
  BY DEF Answer
<1>4. t \in Taken(Questions[position], setup)
  BY <1>1, <1>3
<1>5. \A n \in 1..position : Relevant(Questions[n], setup') <=> Relevant(Questions[n], setup)
  <2> SUFFICES ASSUME NEW n \in 1..position
               PROVE  Relevant(Questions[n], Offer(setup, t)) <=> Relevant(Questions[n], setup)
    BY <1>3
  <2> QED
    BY <1>1, <1>4, EarlierQuestionsStand
<1>6. setup' \in Setups
  <2>1. Questions[position] \in Fields \cup OpenQuestions
    BY <1>1, QuestionsAre DEF ToSet
  <2> QED
    BY <1>3, <1>4, <2>1, TakenIs
<1>7. /\ answered \in Seq(1..15)
      /\ \A i \in 1..Len(answered) : answered[i] < position
      /\ \A i, j \in 1..Len(answered) : i < j => answered[i] < answered[j]
      /\ \A n \in 1..position - 1 : Among(n, answered) <=> Relevant(Questions[n], setup)
  BY <1>1 DEF AnsweredSoFar
<1>8. /\ answered' \in Seq(1..15) /\ Len(answered') = Len(answered) + 1
      /\ \A i \in 1..Len(answered) : answered'[i] = answered[i]
      /\ answered'[Len(answered) + 1] = position
      /\ Len(answered) \in Nat
  BY <1>1, <1>2, <1>7, AppendProperties, LenProperties
<1>9. \A i \in 1..Len(answered) : answered[i] \in 1..15
  BY <1>7, ElementOfSeq
<1>10. ASSUME NEW i \in 1..Len(answered')
       PROVE  i \in 1..Len(answered) \/ (i = Len(answered) + 1 /\ answered'[i] = position)
  BY <1>8, <1>10
<1>11. \A i \in 1..Len(answered') : answered'[i] < position'
  <2> SUFFICES ASSUME NEW i \in 1..Len(answered') PROVE answered'[i] < position'
    OBVIOUS
  <2>1. position \in 1..15 /\ position' = position + 1
    BY <1>1, <1>2
  <2>2. CASE i \in 1..Len(answered)
    <3>1. answered'[i] \in 1..15 /\ answered'[i] < position
      BY <1>7, <1>8, <1>9, <2>2
    <3> QED
      BY <2>1, <3>1
  <2>3. CASE i \notin 1..Len(answered)
    <3>1. answered'[i] = position
      BY <1>10, <2>3
    <3> QED
      BY <2>1, <3>1
  <2> QED
    BY <2>2, <2>3
<1>12. ASSUME NEW i \in 1..Len(answered'), NEW j \in 1..Len(answered'), i < j
       PROVE  answered'[i] < answered'[j]
  <2>1. i \in 1..Len(answered)
    BY <1>8, <1>12
  <2> QED
    BY <1>7, <1>8, <1>10, <1>12, <2>1
<1>13. \A n : Among(n, answered') <=> Among(n, answered) \/ n = position
  <2> SUFFICES ASSUME NEW n PROVE Among(n, answered') <=> Among(n, answered) \/ n = position
    OBVIOUS
  <2>1. Among(n, answered') => Among(n, answered) \/ n = position
    BY <1>8, <1>10 DEF Among
  <2>2. ASSUME Among(n, answered) PROVE Among(n, answered')
    <3>1. PICK i \in 1..Len(answered) : answered[i] = n
      BY <2>2 DEF Among
    <3>2. i \in 1..Len(answered') /\ answered'[i] = n
      BY <1>8, <3>1
    <3> QED
      BY <3>2 DEF Among
  <2>3. ASSUME n = position PROVE Among(n, answered')
    <3>1. Len(answered) + 1 \in 1..Len(answered')
      BY <1>8
    <3> QED
      BY <1>8, <2>3, <3>1 DEF Among
  <2> QED
    BY <2>1, <2>2, <2>3
<1>14. ASSUME NEW n \in 1..position' - 1
       PROVE  Among(n, answered') <=> Relevant(Questions[n], setup')
  <2>1. n \in 1..position
    BY <1>1, <1>2
  <2>2. CASE n = position
    BY <1>1, <1>2, <1>5, <1>13, <2>1, <2>2
  <2>3. CASE n # position
    <3>1. n \in 1..position - 1
      BY <1>1, <2>1, <2>3
    <3> QED
      BY <1>5, <1>7, <1>13, <2>1, <2>3, <3>1
  <2> QED
    BY <2>2, <2>3
<1>15. AnsweredSoFar'
  BY <1>8, <1>11, <1>12, <1>14 DEF AnsweredSoFar
<1>16. walk' = WalkOf(mode', setup')
  BY <1>1, <1>2 DEF WalkOf
<1>17. WalkInv'
  BY <1>1, <1>2, <1>15, <1>16 DEF WalkInv
<1> QED
  BY <1>6, <1>17

(* Going back leaves every question before the position answered.           *)
LEMMA GoBackKeeps ==
    ASSUME WalkInv, GoBack
    PROVE  WalkInv'
<1>1. /\ wizardStep = "asking" /\ walk = WalkOf(mode, setup)
      /\ position \in 1..15 /\ position + 1 \in 1..Len(walk) + 1
      /\ Len(walk) \in 0..15 /\ AnsweredSoFar
  BY AtARelevantQuestion DEF GoBack
<1>2. /\ answered # <<>> /\ position' = answered[Len(answered)]
      /\ answered' = SubSeq(answered, 1, Len(answered) - 1)
      /\ wizardStep' = wizardStep /\ mode' = mode /\ walk' = walk /\ setup' = setup
  BY DEF GoBack, answersVars, Last, Front
<1>3. /\ answered \in Seq(1..15)
      /\ \A i \in 1..Len(answered) : answered[i] < position
      /\ \A i, j \in 1..Len(answered) : i < j => answered[i] < answered[j]
      /\ \A n \in 1..position - 1 : Among(n, answered) <=> Relevant(Questions[n], setup)
  BY <1>1 DEF AnsweredSoFar
<1>4. /\ \A i \in 1..Len(answered) : answered[i] \in 1..15
      /\ Len(answered) \in Nat \ {0} /\ Len(answered) \in 1..Len(answered)
  <2>1. Len(answered) \in Nat /\ Len(answered) # 0
    BY <1>2, <1>3, EmptySeq, LenProperties
  <2> QED
    BY <1>3, <2>1, ElementOfSeq
<1> DEFINE last == Len(answered)
<1>5. position' \in 1..15 /\ position' < position
  BY <1>2, <1>3, <1>4
<1>6. /\ answered' \in Seq(1..15) /\ Len(answered') = last - 1
      /\ \A i \in 1..last - 1 : answered'[i] = answered[i]
  <2>1. \A i \in 1..last - 1 : answered[i] \in 1..15
    BY <1>4
  <2>2. /\ answered' \in Seq(1..15)
        /\ Len(answered') = IF 1 <= last - 1 THEN (last - 1) - 1 + 1 ELSE 0
        /\ \A i \in 1..(last - 1) - 1 + 1 : answered'[i] = answered[1 + i - 1]
    BY <1>2, <1>4, <2>1, SubSeqProperties
  <2> HIDE DEF last
  <2>3. last \in Nat \ {0}
    BY <1>4 DEF last
  <2>4. \A i \in 1..last - 1 : i \in 1..(last - 1) - 1 + 1 /\ 1 + i - 1 = i
    BY <2>3
  <2> QED
    BY <2>2, <2>3, <2>4
<1> HIDE DEF last
<1>7. /\ last \in Nat \ {0} /\ position' = answered[last] /\ Len(answered) = last
      /\ \A i \in 1..last - 1 : i \in 1..Len(answered)
  BY <1>2, <1>4 DEF last
<1>8. \A i \in 1..Len(answered') : answered'[i] < position'
  <2> SUFFICES ASSUME NEW i \in 1..last - 1 PROVE answered'[i] < position'
    BY <1>6
  <2>1. i < last /\ i \in 1..last /\ last \in 1..last
    BY <1>7
  <2> QED
    BY <1>3, <1>6, <1>7, <2>1
<1>9. \A i, j \in 1..Len(answered') : i < j => answered'[i] < answered'[j]
  BY <1>3, <1>6, <1>7
<1>10. ASSUME NEW n \in 1..position' - 1
       PROVE  Among(n, answered') <=> Relevant(Questions[n], setup')
  <2>1. n \in 1..position - 1 /\ n # position' /\ n < position'
    <3>1. position \in 1..15 /\ position' \in 1..15 /\ position' < position
      BY <1>1, <1>5
    <3> QED
      BY <1>10, <3>1, Positions
  <2>2. Among(n, answered) <=> Relevant(Questions[n], setup)
    BY <1>3, <2>1
  <2>3. ASSUME Among(n, answered) PROVE Among(n, answered')
    <3>1. PICK i \in 1..last : answered[i] = n
      BY <1>7, <2>3 DEF Among
    <3>2. i # last
      BY <1>7, <2>1, <3>1
    <3>3. i \in 1..last - 1
      BY <1>7, <3>2
    <3> QED
      BY <1>6, <3>1, <3>3 DEF Among
  <2>4. ASSUME Among(n, answered') PROVE Among(n, answered)
    <3>1. PICK i \in 1..last - 1 : answered'[i] = n
      BY <1>6, <2>4 DEF Among
    <3> QED
      BY <1>6, <1>7, <3>1 DEF Among
  <2> QED
    BY <1>2, <2>2, <2>3, <2>4
<1>11. AnsweredSoFar'
  BY <1>6, <1>8, <1>9, <1>10 DEF AnsweredSoFar
<1>12. position' \in 1..Len(walk') + 1
  <2> DEFINE p == position
             q == position'
             l == Len(walk)
  <2>1. p \in 1..15 /\ q \in 1..15 /\ q < p /\ l \in 0..15 /\ p + 1 \in 1..l + 1
    BY <1>1, <1>5
  <2> HIDE DEF p, q, l
  <2>2. q \in 1..l + 1
    BY <2>1
  <2> QED
    BY <1>2, <2>2 DEF q, l
<1> QED
  BY <1>1, <1>2, <1>11, <1>12 DEF WalkInv


-----------------------------------------------------------------------------
(* A step that moves only the files, or only what the run does next.        *)
LEMMA WizardStartsFit == WizardInit => WizardInv
<1> SUFFICES ASSUME WizardInit PROVE WizardInv
  OBVIOUS
<1>1. WalkInv
  BY DEF WizardInit, WalkInv
<1>2. NumbersInv
  BY NoSetupIsOne, WizardAssumption DEF WizardInit, NumbersInv
<1>3. FilesInv
  BY DEF WizardInit, FilesInv, Derived, Confirmed, Written
<1> QED
  BY <1>1, <1>2, <1>3 DEF WizardInv

(* The steps of the walk keep the wizard's invariant.                       *)
LEMMA AskingFits ==
    ASSUME WizardInv, StartRun \/ PassOver \/ Answer \/ GoBack \/ TakeTheRest \/ EndWalk
    PROVE  WizardInv'
<1>1. WalkInv /\ NumbersInv /\ FilesInv /\ setup \in Setups
  BY DEF WizardInv, NumbersInv
<1>2. /\ generated' = generated /\ env' = env /\ notebook' = notebook
      /\ backups' = backups /\ deployed' = deployed
      /\ redirect' \in {redirect, notebook} /\ password' \in {password, env}
      /\ wizardStep' \in {"asking", "walked", "rested"} /\ mode' \in {"quick", "full"}
  <2>1. CASE StartRun
    BY <2>1 DEF StartRun, filesVars
  <2>2. CASE PassOver
    BY <1>1, <2>2 DEF PassOver, AtQuestion, NumbersInv, filesVars, answersVars
  <2>3. CASE Answer
    BY <1>1, <2>3 DEF Answer, AtQuestion, NumbersInv, filesVars
  <2>4. CASE GoBack
    BY <1>1, <2>4 DEF GoBack, AtQuestion, NumbersInv, filesVars, answersVars
  <2>5. CASE TakeTheRest
    BY <1>1, <2>5 DEF TakeTheRest, Forget, NumbersInv, filesVars, answersVars
  <2>6. CASE EndWalk
    BY <1>1, <2>6 DEF EndWalk, NumbersInv, filesVars, answersVars
  <2> QED
    BY <2>1, <2>2, <2>3, <2>4, <2>5, <2>6
<1>3. WalkInv' /\ setup' \in Setups
  <2>1. CASE StartRun
    <3>1. /\ wizardStep' = "asking" /\ walk' = WalkOf(mode', setup') /\ position' = 1
          /\ answered' = <<>> /\ setup' \in Setups
      BY <2>1 DEF StartRun
    <3>2. Len(walk') \in 0..15
      BY <3>1, WalkIs
    <3>3. AnsweredSoFar'
      BY <3>1, EmptySeq DEF AnsweredSoFar
    <3>4. position' \in 1..Len(walk') + 1
      BY <3>1, <3>2
    <3> QED
      BY <3>1, <3>3, <3>4 DEF WalkInv
  <2>2. CASE PassOver
    BY <1>1, <2>2, PassOverKeeps DEF PassOver, answersVars
  <2>3. CASE Answer
    BY <1>1, <2>3, AnswerKeeps
  <2>4. CASE GoBack
    BY <1>1, <2>4, GoBackKeeps DEF GoBack, answersVars
  <2>5. CASE TakeTheRest
    BY <1>1, <2>5 DEF TakeTheRest, Forget, WalkInv, answersVars
  <2>6. CASE EndWalk
    <3>1. /\ wizardStep = "asking" /\ position > Len(walk) /\ wizardStep' = "walked"
          /\ mode' = mode /\ walk' = walk /\ position' = position /\ answered' = answered
          /\ setup' = setup
      BY <2>6 DEF EndWalk, answersVars
    <3>2. /\ walk = WalkOf(mode, setup) /\ position \in 1..Len(walk) + 1 /\ AnsweredSoFar
      BY <1>1, <3>1 DEF WalkInv
    <3>3. Len(walk) \in 0..15
      BY <3>2, WalkIs
    <3>4. position = Len(walk) + 1
      BY <3>1, <3>2, <3>3
    <3>5. AnsweredSoFar'
      BY <3>1, <3>2 DEF AnsweredSoFar
    <3> QED
      BY <1>1, <3>1, <3>2, <3>4, <3>5 DEF WalkInv
  <2> QED
    BY <2>1, <2>2, <2>3, <2>4, <2>5, <2>6
<1>4. NumbersInv'
  BY <1>1, <1>2, <1>3 DEF NumbersInv
<1>5. FilesInv'
  BY <1>1, <1>2 DEF FilesInv, Derived, Confirmed, Written
<1> QED
  BY <1>3, <1>4, <1>5 DEF WizardInv

(* So do deriving answers and changing one at the summary.                  *)
LEMMA DerivingFits ==
    ASSUME WizardInv, Derive \/ ChangeAnswer
    PROVE  WizardInv'
<1>1. WalkInv /\ NumbersInv /\ FilesInv /\ setup \in Setups
  BY DEF WizardInv, NumbersInv
<1>2. /\ env' = env /\ notebook' = notebook /\ backups' = backups /\ deployed' = deployed
      /\ wizardStep' = "review"
  BY DEF Derive, ChangeAnswer, filesVars
<1>3. \E s \in Setups : Finalise(s)
  <2>1. CASE Derive
    BY <1>1, <2>1 DEF Derive
  <2>2. CASE ChangeAnswer
    <3>1. PICK n \in DOMAIN Questions :
             \E t \in Taken(Questions[n], setup) : Finalise(Offer(setup, t))
      BY <2>2 DEF ChangeAnswer
    <3>2. PICK t \in Taken(Questions[n], setup) : Finalise(Offer(setup, t))
      BY <3>1
    <3>3. Questions[n] \in Fields \cup OpenQuestions
      BY QuestionsAre DEF ToSet
    <3>4. Offer(setup, t) \in Setups
      BY <1>1, <3>2, <3>3, TakenIs
    <3> QED
      BY <3>2, <3>4
  <2> QED
    BY <2>1, <2>2
<1>4. PICK s \in Setups : Finalise(s)
  BY <1>3
<1>5. /\ setup' \in Setups
      /\ redirect' \in {NoUrl} \cup Answers.public_base_url
      /\ generated' \in 0..MaxPasswords /\ generated <= generated'
      /\ password' \in 0..generated'
      /\ UsesAuthentik(setup') <=> password' # 0
  BY <1>1, <1>4, FinaliseFits
<1>6. /\ mode' \in {"quick", "full"} /\ walk' = <<>> /\ position' = 1 /\ answered' = <<>>
  <2>1. CASE Derive
    BY <2>1 DEF Derive, Forget
  <2>2. CASE ChangeAnswer
    BY <1>1, <2>2 DEF ChangeAnswer, WalkInv, NumbersInv
  <2> QED
    BY <2>1, <2>2
<1>7. WalkInv'
  BY <1>2, <1>6 DEF WalkInv
<1>8. NumbersInv'
  <2>1. /\ generated \in 0..MaxPasswords /\ MaxPasswords \in Nat /\ env \in 0..generated
        /\ deployed \cup backups \subseteq 1..generated
        /\ notebook \in {NoUrl} \cup Answers.public_base_url
    BY <1>1, WizardAssumption DEF NumbersInv
  <2>2. 0..generated \subseteq 0..generated' /\ 1..generated \subseteq 1..generated'
    BY <1>5, <2>1
  <2>3. {password', env'} \subseteq 0..generated'
    BY <1>2, <1>5, <2>1, <2>2
  <2>4. deployed' \cup backups' \subseteq 1..generated'
    BY <1>2, <2>1, <2>2
  <2> QED
    BY <1>2, <1>5, <1>6, <2>1, <2>3, <2>4 DEF NumbersInv
<1>9. FilesInv'
  BY <1>1, <1>2, <1>5 DEF FilesInv, Derived, Confirmed, Written
<1> QED
  BY <1>7, <1>8, <1>9 DEF WizardInv

(* So does writing the files, one after the other.                          *)
LEMMA WritingFits ==
    ASSUME WizardInv,
           Confirm \/ Backup \/ WriteCompose \/ TruncateEnv \/ WriteEnv \/ WriteNotebook
    PROVE  WizardInv'
<1>1. WalkInv /\ NumbersInv /\ FilesInv
  BY DEF WizardInv
<1>2. /\ mode' = mode /\ walk' = walk /\ position' = position /\ answered' = answered
      /\ setup' = setup /\ password' = password /\ redirect' = redirect
      /\ generated' = generated
      /\ wizardStep \in Derived /\ wizardStep' \in Confirmed
  BY DEF Confirm, Backup, WriteCompose, TruncateEnv, WriteEnv, WriteNotebook, Writes,
         answersVars, Derived, Confirmed, Written
<1>3. /\ env \in 0..generated /\ env' \in {env, 0, password} /\ password \in 0..generated
      /\ generated \in Nat
      /\ notebook' \in {notebook, redirect}
      /\ backups' \subseteq (backups \cup {env}) \ {0} \/ backups' = backups
      /\ deployed' \subseteq (deployed \cup {env'}) \ {0} \/ deployed' = deployed
  <2>1. env \in 0..generated /\ password \in 0..generated /\ generated \in Nat
    BY <1>1, WizardAssumption DEF NumbersInv
  <2>2. CASE Confirm
    BY <2>1, <2>2 DEF Confirm, filesVars
  <2>3. CASE Backup
    BY <2>1, <2>3 DEF Backup
  <2>4. CASE WriteCompose
    BY <2>1, <2>4 DEF WriteCompose, filesVars
  <2>5. CASE TruncateEnv
    BY <2>1, <2>5 DEF TruncateEnv
  <2>6. CASE WriteEnv
    BY <2>1, <2>6 DEF WriteEnv
  <2>7. CASE WriteNotebook
    BY <2>1, <2>7 DEF WriteNotebook
  <2> QED
    BY <2>2, <2>3, <2>4, <2>5, <2>6, <2>7
<1>4. WalkInv'
  BY <1>1, <1>2 DEF WalkInv, Derived, Confirmed, Written
<1>5. NumbersInv'
  <2>1. deployed \cup backups \subseteq 1..generated
    BY <1>1 DEF NumbersInv
  <2>2. env' \in 0..generated /\ \A n \in 0..generated : n # 0 => n \in 1..generated
    BY <1>3
  <2>3. backups' \subseteq 1..generated
    BY <1>3, <2>1, <2>2
  <2>4. deployed' \subseteq 1..generated
    BY <1>3, <2>1, <2>2
  <2> QED
    BY <1>1, <1>2, <1>3, <2>2, <2>3, <2>4 DEF NumbersInv, Derived, Confirmed, Written
<1>6. FilesInv'
  <2> USE DEF Derived, Confirmed, Written
  <2>1. CASE Confirm
    BY <1>1, <2>1 DEF Confirm, FilesInv, answersVars, filesVars
  <2>2. CASE Backup
    <3>1. /\ wizardStep = "backup" /\ wizardStep' = "compose"
          /\ backups' = (backups \cup {env}) \ {0} /\ env' = env /\ deployed' = deployed
      BY <2>2 DEF Backup, Writes
    <3>2. deployed \subseteq {env} \cup backups /\ ~StorageConflict(setup)
          /\ (UsesAuthentik(setup) <=> password # 0)
      BY <1>1, <3>1 DEF FilesInv
    <3>3. 0 \notin deployed
      BY <1>1 DEF NumbersInv
    <3>4. deployed' \subseteq {env'} \cup backups' /\ env' \in backups' \cup {0}
      BY <3>1, <3>2, <3>3
    <3> QED
      BY <1>2, <3>1, <3>2, <3>4 DEF FilesInv
  <2>3. CASE WriteCompose
    BY <1>1, <1>2, <2>3 DEF WriteCompose, Writes, FilesInv, filesVars
  <2>4. CASE TruncateEnv
    BY <1>1, <1>2, <2>4 DEF TruncateEnv, Writes, FilesInv
  <2>5. CASE WriteEnv
    BY <1>1, <1>2, <2>5 DEF WriteEnv, Writes, FilesInv
  <2>6. CASE WriteNotebook
    BY <1>1, <1>2, <2>6 DEF WriteNotebook, Writes, FilesInv
  <2> QED
    BY <2>1, <2>2, <2>3, <2>4, <2>5, <2>6
<1> QED
  BY <1>4, <1>5, <1>6 DEF WizardInv

(* So does the end of a run, finished or interrupted.                       *)
LEMMA EndingFits ==
    ASSUME WizardInv, EndRun
    PROVE  WizardInv'
<1>1. WalkInv /\ NumbersInv /\ FilesInv
  BY DEF WizardInv
<1>2. /\ wizardStep' = "idle" /\ mode' = "quick" /\ walk' = <<>> /\ position' = 1
      /\ answered' = <<>> /\ setup' = NoSetup /\ password' = 0 /\ redirect' = NoUrl
      /\ generated' = generated /\ env' = env /\ notebook' = notebook
      /\ backups' = backups /\ deployed' = deployed
  BY DEF EndRun, Forget, filesVars
<1>3. 0 \in 0..generated
  BY <1>1, WizardAssumption DEF NumbersInv
<1>4. WalkInv'
  BY <1>2 DEF WalkInv
<1>5. NumbersInv'
  BY <1>1, <1>2, <1>3, NoSetupIsOne DEF NumbersInv
<1>6. FilesInv'
  BY <1>1, <1>2 DEF FilesInv, Derived, Confirmed, Written
<1> QED
  BY <1>4, <1>5, <1>6 DEF WizardInv

(* The wizard's invariant holds of every run.                               *)
LEMMA WizardStaysFit == WizardSpec => []WizardInv
<1>1. WizardInit => WizardInv
  BY WizardStartsFit
<1>2. WizardInv /\ [WizardNext]_wizardVars => WizardInv'
  <2>1. WizardInv /\ UNCHANGED wizardVars => WizardInv'
    <3> SUFFICES ASSUME WizardInv, UNCHANGED wizardVars PROVE WizardInv'
      OBVIOUS
    <3>1. WalkInv'
      BY DEF WizardInv, WalkInv, AnsweredSoFar, wizardVars
    <3>2. NumbersInv'
      BY DEF WizardInv, NumbersInv, wizardVars
    <3>3. FilesInv'
      BY DEF WizardInv, FilesInv, wizardVars
    <3> QED
      BY <3>1, <3>2, <3>3 DEF WizardInv
  <2> QED
    BY <2>1, AskingFits, DerivingFits, WritingFits, EndingFits DEF WizardNext
<1> QED
  BY <1>1, <1>2, PTL DEF WizardSpec

(* The type invariant of the wizard (docker/setup-wizard.py).               *)
THEOREM WizardTypeCorrect == WizardSpec => []WizardTypeOK
<1>1. WizardInv => WizardTypeOK
  <2> SUFFICES ASSUME WizardInv PROVE WizardTypeOK
    OBVIOUS
  <2>1. WalkInv /\ NumbersInv
    BY DEF WizardInv
  <2>2. /\ walk \in {<<>>, WalkOf(mode, setup)}
        /\ position \in 1..Len(Questions) + 1
        /\ ToSet(answered) \subseteq DOMAIN walk
    <3>1. CASE wizardStep \in {"asking", "walked"}
      <4>1. walk = WalkOf(mode, setup) /\ position \in 1..Len(walk) + 1 /\ AnsweredSoFar
        BY <2>1, <3>1 DEF WalkInv
      <4>2. Len(walk) \in 0..15 /\ DOMAIN walk = 1..Len(walk)
        BY <4>1, WalkIs
      <4>3. position \in 1..Len(Questions) + 1
        BY <4>1, <4>2, QuestionsAre, NoFurther
      <4>4. ASSUME NEW i \in 1..Len(answered) PROVE answered[i] \in 1..Len(walk)
        <5>1. answered[i] \in 1..15 /\ answered[i] < position
          BY <4>1, ElementOfSeq DEF AnsweredSoFar
        <5> QED
          BY <4>1, <4>2, <5>1, Below
      <4>5. DOMAIN answered = 1..Len(answered)
        BY <4>1, LenProperties DEF AnsweredSoFar
      <4> QED
        BY <4>1, <4>2, <4>3, <4>4, <4>5 DEF ToSet
    <3>2. CASE wizardStep \notin {"asking", "walked"}
      <4>1. walk = <<>> /\ position = 1 /\ answered = <<>>
        BY <2>1, <3>2 DEF WalkInv
      <4> QED
        BY <4>1, QuestionsAre DEF ToSet
    <3> QED
      BY <3>1, <3>2
  <2> QED
    BY <2>1, <2>2 DEF WizardTypeOK, NumbersInv
<1> QED
  BY <1>1, WizardStaysFit, PTL

(* A walk to the end, with any steps back, has asked exactly the relevant   *)
(* questions of its mode (setup-wizard.py, run_questions).                  *)
THEOREM RelevantAreAsked == WizardSpec => []EveryRelevantQuestionIsAsked
<1>1. WizardInv => EveryRelevantQuestionIsAsked
  <2> SUFFICES ASSUME WizardInv, wizardStep = "walked"
               PROVE  {walk[n] : n \in ToSet(answered)} =
                        {q \in ToSet(WalkOf(mode, setup)) : Relevant(q, setup)}
    BY DEF EveryRelevantQuestionIsAsked
  <2>1. /\ walk = WalkOf(mode, setup) /\ position = Len(walk) + 1 /\ AnsweredSoFar
    BY DEF WizardInv, WalkInv
  <2>2. /\ Len(walk) \in 0..15 /\ DOMAIN walk = 1..Len(walk)
        /\ \A n \in 1..Len(walk) : walk[n] = Questions[n]
    BY <2>1, WalkIs
  <2>3. ToSet(answered) = {n \in 1..15 : Among(n, answered)}
    <3>1. DOMAIN answered = 1..Len(answered) /\ \A i \in 1..Len(answered) : answered[i] \in 1..15
      BY <2>1, LenProperties, ElementOfSeq DEF AnsweredSoFar
    <3> QED
      BY <3>1 DEF ToSet, Among
  <2>4. \A n \in 1..Len(walk) : Among(n, answered) <=> Relevant(walk[n], setup)
    <3>1. position - 1 = Len(walk)
      BY <2>1, <2>2
    <3> QED
      BY <2>1, <2>2, <3>1 DEF AnsweredSoFar
  <2>5. ASSUME NEW n, Among(n, answered) PROVE n \in 1..Len(walk)
    <3>1. PICK i \in 1..Len(answered) : answered[i] = n
      BY <2>5 DEF Among
    <3>2. n \in 1..15 /\ n < position
      BY <2>1, <3>1, ElementOfSeq DEF AnsweredSoFar
    <3> QED
      BY <2>1, <2>2, <3>2
  <2>6. \A n \in 1..Len(walk) : n \in 1..15
    BY <2>2
  <2>7. ToSet(walk) = {walk[n] : n \in 1..Len(walk)}
    BY <2>2 DEF ToSet
  <2>8. ToSet(answered) = {n \in 1..Len(walk) : Relevant(walk[n], setup)}
    BY <2>3, <2>4, <2>5, <2>6
  <2> QED
    BY <2>1, <2>7, <2>8
<1> QED
  BY <1>1, WizardStaysFit, PTL

(* No password .env ever held is lost, however runs are interrupted, and a  *)
(* run that was not leaves a stack that can start (setup-wizard.py,         *)
(* backup_existing and write_files).                                        *)
THEOREM DeploymentStaysKept == WizardSpec => []DeploymentIsKept
<1>1. WizardInv => DeploymentIsKept
  BY DEF WizardInv, NumbersInv, FilesInv, DeploymentIsKept, NoCredentialIsLost,
         WrittenStackCanStart, Derived, Confirmed, Written
<1> QED
  BY <1>1, WizardStaysFit, PTL


-----------------------------------------------------------------------------
(* The stack (WizardStack).  Which credentials there are a point in.        *)
LEMMA ProviderCredentialsAre ==
    ProviderCredentials =
        {"authentik_secret_key", "authentik_pg_password", "authentik_client_id",
         "authentik_client_secret", "authentik_bootstrap_password",
         "authentik_enrollment_token"}
BY DEF ProviderCredentials, Credentials, ProviderAnswers

Always == {"redis_password", "purge_token", "purge_signing_key", "export_signing_key"}

(* When each credential has a point, answer by answer.                      *)
LEMMA PointOfCredentials ==
    ASSUME NEW s
    PROVE  /\ \A k \in Always : Relevant(k, s)
           /\ \A k \in ProviderCredentials : Relevant(k, s) <=> UsesAuthentik(s)
           /\ Relevant("releases_token", s) <=> s.releases_mode # "off"
           /\ Relevant("admin_proxy_secret", s) <=> s.admin_enabled
           /\ Relevant("audit_salt", s) <=> s.audit_log
           /\ Relevant("encryption_key", s) <=> s.encrypt_results
           /\ Relevant("smtp_password", s) <=> UsesAuthentik(s) /\ s.smtp_host /\ s.smtp_auth
<1> USE DEF ProviderAnswers, MailAnswers, TokenAnswers
<1>1. \A k \in Always : Relevant(k, s)
  BY DEF Relevant, Always
<1>2. \A k \in ProviderCredentials : Relevant(k, s) <=> UsesAuthentik(s)
  BY DEF Relevant, ProviderCredentials, Credentials
<1>3. Relevant("releases_token", s) <=> s.releases_mode # "off"
  BY DEF Relevant
<1>4. Relevant("admin_proxy_secret", s) <=> s.admin_enabled
  BY DEF Relevant
<1>5. Relevant("audit_salt", s) <=> s.audit_log
  BY DEF Relevant
<1>6. Relevant("encryption_key", s) <=> s.encrypt_results
  BY DEF Relevant
<1>7. Relevant("smtp_password", s) <=> UsesAuthentik(s) /\ s.smtp_host /\ s.smtp_auth
  BY DEF Relevant, MailRelevant
<1> QED
  BY <1>1, <1>2, <1>3, <1>4, <1>5, <1>6, <1>7

(* The credentials are those always needed, the provider's, and five more.  *)
LEMMA CredentialsAre ==
    Credentials = Always \cup ProviderCredentials
                    \cup {"releases_token", "admin_proxy_secret", "audit_salt",
                          "encryption_key", "smtp_password"}
BY ProviderCredentialsAre DEF Credentials, Always

(* What must exist has a point, and what is dropped need not exist.         *)
LEMMA NeededAre ==
    ASSUME NEW s
    PROVE  /\ Needed(s) \subseteq Credentials
           /\ Needed(s) \cap Dropped(s) = {}
           /\ \A k \in Needed(s) : Relevant(k, s)
<1>1. ASSUME NEW k \in Needed(s)
      PROVE  \/ k \in Always
             \/ k = "admin_proxy_secret" /\ s.admin_enabled
             \/ k = "audit_salt" /\ s.audit_log
             \/ k = "encryption_key" /\ s.encrypt_results
             \/ k \in ProviderCredentials /\ UsesAuthentik(s)
  BY DEF Needed, Given, Always
<1>2. ASSUME NEW k \in Dropped(s)
      PROVE  \/ k \in ProviderCredentials /\ ~UsesAuthentik(s)
             \/ k = "smtp_password"
  BY DEF Dropped, Given
<1>3. Needed(s) \subseteq Credentials
  BY <1>1, CredentialsAre
<1>4. \A k \in Needed(s) : Relevant(k, s)
  BY <1>1, PointOfCredentials
<1>5. Needed(s) \cap Dropped(s) = {}
  <2> SUFFICES ASSUME NEW k \in Needed(s), k \in Dropped(s) PROVE FALSE
    OBVIOUS
  <2>1. (k \in ProviderCredentials /\ ~UsesAuthentik(s)) \/ k = "smtp_password"
    BY <1>2
  <2> QED
    BY <1>1, <2>1, ProviderCredentialsAre DEF Always
<1> QED
  BY <1>3, <1>4, <1>5

(* A run holds only known credentials, and all that its answers need.       *)
LEMMA CredentialsOfARun ==
    ASSUME NEW s, KeysOf(s.typed) \subseteq Credentials, NEW credentials,
           KeysOf(credentials) \subseteq Credentials
    PROVE  /\ KeysOf(WithCredentials(s, credentials)) \subseteq Credentials
           /\ Needed(s) \subseteq KeysOf(WithCredentials(s, credentials))
<1> DEFINE new == [k \in Needed(s) |-> "random"]
           all == s.typed ++ credentials ++ new
<1>1. \A k : k \in DOMAIN all <=>
          k \in DOMAIN s.typed \/ k \in DOMAIN credentials \/ k \in Needed(s)
  BY NamesOfMerged
<1>2. WithCredentials(s, credentials) = Restrict(all, DOMAIN all \ Dropped(s))
  BY DEF WithCredentials, KeysOf
<1> HIDE DEF all
<1>3. DOMAIN WithCredentials(s, credentials) = DOMAIN all \ Dropped(s)
  BY <1>2 DEF Restrict
<1> QED
  BY <1>1, <1>3, NeededAre DEF KeysOf

(* What the wizard's answers are once what they imply was filled in.        *)
Filled(s) ==
    /\ DOMAIN s = AnswerNames
    /\ s.public_base_url # Nowhere
    /\ UsesAuthentik(s) => s.authentik_url # Nowhere
    /\ HostName(s.authentik_url) \notin Paths

(* Completed answers need what the answers did.                             *)
LEMMA FinalisedIs ==
    ASSUME NEW s \in StackAnswers
    PROVE  Filled(Finalised(s)) /\ Needed(Finalised(s)) = Needed(s)
<1> DEFINE t == Finalised(s)
           reached == IF s.public_base_url = Nowhere
                      THEN [s EXCEPT !.public_base_url = Loopback] ELSE s
<1>1. DOMAIN s = AnswerNames /\ HostName(s.authentik_url) \notin Paths
  BY StackAssumption
<1>2. /\ DOMAIN reached = AnswerNames /\ reached.public_base_url # Nowhere
      /\ \A a \in AnswerNames : a # "public_base_url" => reached[a] = s[a]
  BY <1>1 DEF AnswerNames, Loopback, Nowhere
<1>3. t = [reached EXCEPT
             !.authentik_url =
                 IF UsesAuthentik(s) /\ @ = Nowhere THEN Loopback ELSE @,
             !.smtp_host = @ /\ UsesAuthentik(s),
             !.reverse_proxy_hostname =
                 IF WritesProxy(s) THEN ProxyHostName(reached) ELSE @]
  BY DEF Finalised
<1> HIDE DEF t, reached
<1>4. /\ DOMAIN t = AnswerNames /\ t.public_base_url = reached.public_base_url
      /\ t.enable_mcp = reached.enable_mcp /\ t.admin_enabled = reached.admin_enabled
      /\ t.deploy_authentik = reached.deploy_authentik
      /\ t.audit_log = reached.audit_log /\ t.encrypt_results = reached.encrypt_results
      /\ t.authentik_url = IF UsesAuthentik(s) /\ reached.authentik_url = Nowhere
                           THEN Loopback ELSE reached.authentik_url
  <2>1. /\ DOMAIN t = AnswerNames
        /\ \A a \in AnswerNames :
              a \notin {"authentik_url", "smtp_host", "reverse_proxy_hostname"} =>
                 t[a] = reached[a]
    BY <1>2, <1>3
  <2>2. t.authentik_url = IF UsesAuthentik(s) /\ reached.authentik_url = Nowhere
                          THEN Loopback ELSE reached.authentik_url
    BY <1>2, <1>3 DEF AnswerNames
  <2> QED
    BY <2>1, <2>2 DEF AnswerNames
<1>5. /\ t.enable_mcp = s.enable_mcp /\ t.admin_enabled = s.admin_enabled
      /\ t.deploy_authentik = s.deploy_authentik
      /\ t.audit_log = s.audit_log /\ t.encrypt_results = s.encrypt_results
      /\ t.authentik_url = IF UsesAuthentik(s) /\ s.authentik_url = Nowhere
                           THEN Loopback ELSE s.authentik_url
  BY <1>2, <1>4 DEF AnswerNames
<1>6. UsesAuthentik(t) <=> UsesAuthentik(s)
  BY <1>5 DEF UsesAuthentik, WantsAProvider
<1>7. Loopback # Nowhere /\ HostName(Loopback) \notin Paths
  BY DEF Loopback, Nowhere, HostName, Paths
<1>8. Filled(t)
  BY <1>1, <1>2, <1>4, <1>5, <1>6, <1>7 DEF Filled
<1>9. Needed(t) = Needed(s)
  BY <1>5, <1>6 DEF Needed, Given
<1> QED
  BY <1>8, <1>9 DEF t


-----------------------------------------------------------------------------
(* Once written, .env holds what must exist, and what there is a point in.  *)
StackInv ==
    /\ stackStep \in {"nothing", "summary", "written", "up", "refused"}
    /\ KeysOf(dotenv) \subseteq Credentials
    /\ stackStep # "nothing" => Filled(answers)
    /\ stackStep = "summary" =>
          KeysOf(held) \subseteq Credentials /\ Needed(answers) \subseteq KeysOf(held)
    /\ stackStep \in {"written", "up", "refused"} =>
          /\ Needed(answers) \subseteq KeysOf(dotenv)
          /\ \A k \in KeysOf(dotenv) : Relevant(k, answers)

(* Writing the files of a run keeps the stack's invariant.                  *)
LEMMA WritingKeepsTheStack ==
    ASSUME StackInv, WriteStack
    PROVE  StackInv'
<1>1. /\ stackStep = "summary" /\ stackStep' = "written"
      /\ dotenv' = DotEnv(answers, held) /\ answers' = answers
  BY DEF WriteStack
<1>2. /\ Filled(answers) /\ KeysOf(held) \subseteq Credentials
      /\ Needed(answers) \subseteq KeysOf(held)
  BY <1>1 DEF StackInv
<1>3. KeysOf(dotenv') = {k \in KeysOf(held) : Relevant(k, answers)}
  BY <1>1 DEF DotEnv, Restrict, KeysOf
<1>4. Needed(answers) \subseteq KeysOf(dotenv')
  BY <1>2, <1>3, NeededAre
<1> QED
  BY <1>1, <1>2, <1>3, <1>4 DEF StackInv

(* So does switching the sign-in on in .env, later on.                      *)
LEMMA SwitchingKeepsTheStack ==
    ASSUME StackInv, SwitchSignInOn
    PROVE  StackInv'
<1>1. /\ stackStep = "up" /\ stackStep' = "written"
      /\ answers' = [answers EXCEPT !.mcp_auth_enabled = TRUE] /\ dotenv' = dotenv
  BY DEF SwitchSignInOn
<1>2. /\ Filled(answers) /\ KeysOf(dotenv) \subseteq Credentials
      /\ Needed(answers) \subseteq KeysOf(dotenv)
      /\ \A k \in KeysOf(dotenv) : Relevant(k, answers)
  BY <1>1 DEF StackInv
<1>3. /\ DOMAIN answers' = AnswerNames
      /\ \A a \in AnswerNames : a # "mcp_auth_enabled" => answers'[a] = answers[a]
  BY <1>1, <1>2 DEF Filled
<1>4. /\ answers'.public_base_url = answers.public_base_url
      /\ answers'.authentik_url = answers.authentik_url
      /\ answers'.enable_mcp = answers.enable_mcp
      /\ answers'.admin_enabled = answers.admin_enabled
      /\ answers'.deploy_authentik = answers.deploy_authentik
      /\ answers'.audit_log = answers.audit_log
      /\ answers'.encrypt_results = answers.encrypt_results
      /\ answers'.releases_mode = answers.releases_mode
      /\ answers'.smtp_host = answers.smtp_host
      /\ answers'.smtp_auth = answers.smtp_auth
  BY <1>3 DEF AnswerNames
<1>5. UsesAuthentik(answers') <=> UsesAuthentik(answers)
  BY <1>4 DEF UsesAuthentik, WantsAProvider
<1>6. Filled(answers')
  BY <1>2, <1>3, <1>4, <1>5 DEF Filled
<1>7. Needed(answers') = Needed(answers)
  BY <1>4, <1>5 DEF Needed, Given
<1>8. ASSUME NEW k \in KeysOf(dotenv) PROVE Relevant(k, answers')
  <2>1. k \in Credentials /\ Relevant(k, answers)
    BY <1>2
  <2>2. CASE k \in Always
    BY <2>2, PointOfCredentials
  <2>3. CASE k \in ProviderCredentials
    BY <1>5, <2>1, <2>3, PointOfCredentials
  <2>4. CASE k = "releases_token"
    BY <1>4, <2>1, <2>4, PointOfCredentials
  <2>5. CASE k = "admin_proxy_secret"
    BY <1>4, <2>1, <2>5, PointOfCredentials
  <2>6. CASE k = "audit_salt"
    BY <1>4, <2>1, <2>6, PointOfCredentials
  <2>7. CASE k = "encryption_key"
    BY <1>4, <2>1, <2>7, PointOfCredentials
  <2>8. CASE k = "smtp_password"
    BY <1>4, <1>5, <2>1, <2>8, PointOfCredentials
  <2> QED
    BY <2>1, <2>2, <2>3, <2>4, <2>5, <2>6, <2>7, <2>8, CredentialsAre
<1> QED
  BY <1>1, <1>2, <1>6, <1>7, <1>8 DEF StackInv

(* The stack's invariant holds after any number of runs.                    *)
LEMMA StackStaysWhole == StackSpec => []StackInv
<1>1. StackInit => StackInv
  BY DEF StackInit, StackInv, NoCredentials, KeysOf
<1>2. StackInv /\ [StackNext]_stackVars => StackInv'
  <2> SUFFICES ASSUME StackInv, [StackNext]_stackVars PROVE StackInv'
    OBVIOUS
  <2>1. CASE RunWizard
    <3>1. PICK s \in StackAnswers :
             answers' = Finalised(s) /\ held' = WithCredentials(s, dotenv)
      BY <2>1 DEF RunWizard
    <3>2. stackStep' = "summary" /\ dotenv' = dotenv /\ KeysOf(dotenv) \subseteq Credentials
      BY <2>1 DEF RunWizard, StackInv
    <3>3. Filled(answers') /\ Needed(answers') = Needed(s)
      BY <3>1, FinalisedIs
    <3>4. KeysOf(s.typed) \subseteq Credentials
      BY StackAssumption
    <3>5. KeysOf(held') \subseteq Credentials /\ Needed(s) \subseteq KeysOf(held')
      BY <3>1, <3>2, <3>4, CredentialsOfARun
    <3> QED
      BY <3>2, <3>3, <3>5 DEF StackInv
  <2>2. CASE WriteStack
    BY <2>2, WritingKeepsTheStack
  <2>3. CASE StartStack
    BY <2>3 DEF StartStack, StackInv
  <2>4. CASE SwitchSignInOn
    BY <2>4, SwitchingKeepsTheStack
  <2>5. CASE TakeDown
    BY <2>5 DEF TakeDown, StackInv
  <2>6. CASE UNCHANGED stackVars
    BY <2>6 DEF StackInv, stackVars
  <2> QED
    BY <2>1, <2>2, <2>3, <2>4, <2>5, <2>6 DEF StackNext
<1> QED
  BY <1>1, <1>2, PTL DEF StackSpec

-----------------------------------------------------------------------------
(* Credentials, volumes, proxy and start, one by one.                       *)
LEMMA CredentialsMeet ==
    ASSUME StackInv, stackStep \in {"written", "up", "refused"}
    PROVE  CredentialsMeetTheirReaders
<1>1. /\ KeysOf(dotenv) \subseteq Credentials
      /\ Needed(answers) \subseteq KeysOf(dotenv)
      /\ \A k \in KeysOf(dotenv) : Relevant(k, answers)
  BY DEF StackInv
<1> DEFINE web == Reads(answers).web
           worker == Reads(answers).worker
           redis == Reads(answers).redis
           provider == Reads(answers).provider
           proxy == Reads(answers).proxy
<1>2. ReadBySomebody(answers) = web \cup worker \cup redis \cup provider \cup proxy
  <2>1. DOMAIN Reads(answers) = {"web", "worker", "redis", "provider", "proxy"}
    BY DEF Reads
  <2> QED
    BY <2>1 DEF ReadBySomebody
<1>3. /\ web = Always \cup ReleaseReads(answers) \cup EncryptionReads(answers)
               \cup Given(answers.enable_mcp /\ UsesAuthentik(answers), {"authentik_client_id"})
               \cup Given(answers.admin_enabled, {"admin_proxy_secret"})
               \cup Given(answers.audit_log, {"audit_salt"})
      /\ worker = {"redis_password"} \cup ReleaseReads(answers) \cup EncryptionReads(answers)
      /\ redis = {"redis_password"}
      /\ provider = Given(UsesAuthentik(answers),
                          ProviderCredentials \cup Given(answers.smtp_host, {"smtp_password"}))
      /\ proxy = Given(ProxyForwardsAuth(answers), {"admin_proxy_secret"})
  BY DEF Reads, Always
<1> HIDE DEF web, worker, redis, provider, proxy
<1>4. ASSUME NEW k \in KeysOf(dotenv) PROVE k \in ReadBySomebody(answers)
  <2>1. k \in Credentials /\ Relevant(k, answers)
    BY <1>1
  <2>2. CASE k \in Always
    BY <1>2, <1>3, <2>2
  <2>3. CASE k \in ProviderCredentials
    BY <1>2, <1>3, <2>1, <2>3, PointOfCredentials DEF Given
  <2>4. CASE k = "releases_token"
    BY <1>2, <1>3, <2>1, <2>4, PointOfCredentials DEF Given, ReleaseReads
  <2>5. CASE k = "admin_proxy_secret"
    BY <1>2, <1>3, <2>1, <2>5, PointOfCredentials DEF Given
  <2>6. CASE k = "audit_salt"
    BY <1>2, <1>3, <2>1, <2>6, PointOfCredentials DEF Given
  <2>7. CASE k = "encryption_key"
    BY <1>2, <1>3, <2>1, <2>7, PointOfCredentials DEF Given, EncryptionReads
  <2>8. CASE k = "smtp_password"
    BY <1>2, <1>3, <2>1, <2>8, PointOfCredentials DEF Given
  <2> QED
    BY <2>1, <2>2, <2>3, <2>4, <2>5, <2>6, <2>7, <2>8, CredentialsAre
<1>5. ASSUME NEW k \in ReadBySomebody(answers) \ Optional PROVE k \in Needed(answers)
  <2>1. k # "releases_token" /\ k # "smtp_password"
    BY DEF Optional
  <2>2. "authentik_client_id" \in ProviderCredentials
    BY ProviderCredentialsAre
  <2>3. \/ k \in Always
        \/ k = "encryption_key" /\ answers.encrypt_results
        \/ k \in ProviderCredentials /\ UsesAuthentik(answers)
        \/ k = "admin_proxy_secret" /\ (answers.admin_enabled \/ ProxyForwardsAuth(answers))
        \/ k = "audit_salt" /\ answers.audit_log
    BY <1>2, <1>3, <2>1, <2>2 DEF Given, ReleaseReads, EncryptionReads, Always
  <2>4. ProxyForwardsAuth(answers) => answers.admin_enabled
    BY DEF ProxyForwardsAuth, GuardsTheAdminArea
  <2> QED
    BY <2>3, <2>4 DEF Needed, Given, Always
<1> QED
  BY <1>1, <1>4, <1>5 DEF CredentialsMeetTheirReaders

(* Every volume a container mounts is declared.                             *)
LEMMA VolumesMeet == VolumesAreDeclared
<1>1. "directory" \notin ProviderVolumes
  BY DEF ProviderVolumes
<1> QED
  BY <1>1 DEF VolumesAreDeclared, Mounted, Declared, Given

(* What the service refuses at startup was warned of, but for the addresses *)
(* in the clear and the short credentials that Unforetold names.            *)
LEMMA RefusalsAreForetold ==
    ASSUME StackInv
    PROVE  MostRefusalsAreForetold
<1> SUFFICES ASSUME stackStep = "refused", NEW r \in Refusals(answers, dotenv)
             PROVE  r \in Warnings(answers, dotenv) \cup Unforetold
  BY DEF MostRefusalsAreForetold
<1>1. /\ answers.public_base_url # Nowhere
      /\ UsesAuthentik(answers) => answers.authentik_url # Nowhere
      /\ Needed(answers) \subseteq KeysOf(dotenv)
  BY DEF StackInv, Filled
<1>2. r \in Reasons /\ Refusal(r, answers, dotenv)
  BY DEF Refusals
<1>3. CASE r \in Unforetold
  BY <1>3
<1>4. CASE r = "no issuer"
  <2>1. SignsIn(answers) /\ Issuer(answers) = Nowhere
    BY <1>2, <1>4 DEF Refusal
  <2>2. ~UsesAuthentik(answers) /\ answers.mcp_auth_issuer = Nowhere
    BY <1>1, <2>1 DEF Issuer
  <2>3. Warning("no issuer", answers, dotenv)
    BY <2>1, <2>2 DEF Warning
  <2> QED
    BY <1>2, <1>4, <2>3 DEF Warnings
<1>5. CASE r = "no resource"
  <2>1. Resource(answers) = Nowhere
    BY <1>2, <1>5 DEF Refusal
  <2> QED
    BY <1>1, <2>1 DEF Resource
<1>6. CASE r = "no audience"
  <2>1. SignsIn(answers) /\ ~HasAudience(answers, dotenv)
    BY <1>2, <1>6 DEF Refusal
  <2>2. UsesAuthentik(answers) => "authentik_client_id" \in Needed(answers)
    BY ProviderCredentialsAre DEF Needed, Given
  <2>3. ~UsesAuthentik(answers) /\ ~answers.mcp_auth_audience
    BY <1>1, <2>1, <2>2 DEF HasAudience
  <2>4. Warning("no audience", answers, dotenv)
    BY <2>1, <2>3 DEF Warning
  <2> QED
    BY <1>2, <1>6, <2>4 DEF Warnings
<1>7. CASE r = "no secret"
  <2>1. answers.admin_enabled /\ "admin_proxy_secret" \notin KeysOf(dotenv)
    BY <1>2, <1>7 DEF Refusal
  <2>2. "admin_proxy_secret" \in Needed(answers)
    BY <2>1 DEF Needed, Given
  <2> QED
    BY <1>1, <2>1, <2>2
<1>8. CASE r \in {"nobody named", "nothing to approve", "no name to approve", "no key"}
  <2>1. Warning(r, answers, dotenv)
    BY <1>2, <1>8 DEF Warning
  <2> QED
    BY <1>2, <2>1 DEF Warnings
<1> QED
  BY <1>2, <1>3, <1>4, <1>5, <1>6, <1>7, <1>8 DEF Reasons, Unforetold

(* The route a path takes, where no other has it.                           *)
LEMMA OwnRoute ==
    ASSUME NEW s, NEW r \in Routes(s), \A q \in Routes(s) : q.path = r.path => q = r
    PROVE  RouteOf(r.path, s) = r
<1> DEFINE own == {q \in Routes(s) : q.path = r.path}
<1>1. own = {r}
  OBVIOUS
<1>2. RouteOf(r.path, s) = IF own # {} THEN CHOOSE q \in own : TRUE ELSE CatchAll(s)
  BY DEF RouteOf
<1> QED
  BY <1>1, <1>2

(* A member of a pair, or of nothing, is one of the two.                    *)
LEMMA AtMostTwo ==
    ASSUME NEW a, NEW b, NEW r, NEW S, S \in {{a, b}, {}}, r \in S
    PROVE  r = a \/ r = b
OBVIOUS

(* A route is made of its path, its target and what it does.                *)
LEMMA RouteIs ==
    ASSUME NEW path, NEW to, NEW does
    PROVE  /\ Route(path, to, does).path = path
           /\ Route(path, to, does).to = to
           /\ Route(path, to, does).does = does
BY DEF Route

(* The area is routed through the outpost, or not at all.                   *)
LEMMA AdminRoutesAre ==
    ASSUME NEW s
    PROVE  /\ AdminRoutes(s) \in
                 {{Route("/admin", "web",
                         {"asks the outpost", "adds the secret", "streams"}),
                   Route("/outpost", "provider", {})}, {}}
           /\ AdminRoutes(s) # {} => ProxyForwardsAuth(s)
<1> DEFINE both == {Route("/admin", "web",
                          {"asks the outpost", "adds the secret", "streams"}),
                    Route("/outpost", "provider", {})}
<1>1. AdminRoutes(s) = IF ProxyForwardsAuth(s) THEN both ELSE {}
  BY DEF AdminRoutes, Given
<1> HIDE DEF both
<1>2. AdminRoutes(s) \in {both, {}} /\ (AdminRoutes(s) # {} => ProxyForwardsAuth(s))
  BY <1>1
<1> QED
  BY <1>2 DEF both

(* The routes a proxy may have, by where they lead; no two for one path.    *)
LEMMA RoutesAre ==
    ASSUME NEW s, HostName(s.authentik_url) \notin Paths
    PROVE  /\ \A r \in Routes(s) :
                 \/ r = CatchAll(s) /\ r.path = "/"
                 \/ r \in StreamRoutes(s) /\ r.path = "/mcp"
                 \/ r \in AdminRoutes(s) /\ r.path \in {"/admin", "/outpost"}
                 \/ r \in AuthentikSite(s) /\ r.path \notin Paths
           /\ \A q, r \in Routes(s) : q.path = r.path => q = r
<1>1. CatchAll(s).path = "/"
  BY DEF CatchAll, Route
<1>2. \A r \in StreamRoutes(s) :
         r.path = "/mcp" /\ r = Route("/mcp", "web", {"streams"})
  BY DEF StreamRoutes, Given, Route
<1>3. \A r \in AdminRoutes(s) :
         \/ /\ r.path = "/admin"
            /\ r = Route("/admin", "web",
                         {"asks the outpost", "adds the secret", "streams"})
         \/ r.path = "/outpost" /\ r = Route("/outpost", "provider", {})
  <2> DEFINE much == {"asks the outpost", "adds the secret", "streams"}
             nothing == {}
  <2> HIDE DEF much, nothing
  <2>1. \A r \in AdminRoutes(s) :
           r = Route("/admin", "web", much) \/ r = Route("/outpost", "provider", nothing)
    BY AtMostTwo, AdminRoutesAre DEF much, nothing
  <2>2. \A r \in AdminRoutes(s) :
           \/ r.path = "/admin" /\ r = Route("/admin", "web", much)
           \/ r.path = "/outpost" /\ r = Route("/outpost", "provider", nothing)
    BY <2>1, RouteIs
  <2> QED
    BY <2>2 DEF much, nothing
<1>4. \A r \in AuthentikSite(s) :
         r.path \notin Paths /\ r = Route(AuthentikProxyHostName(s), "provider", {})
  <2>1. CASE ~ProxyServesAuthentik(s)
    BY <2>1 DEF AuthentikSite, Given
  <2>2. CASE ProxyServesAuthentik(s)
    <3>1. AuthentikProxyHostName(s) # ""
      BY <2>2 DEF ProxyServesAuthentik
    <3>2. AuthentikProxyHostName(s) = HostName(s.authentik_url)
      BY <3>1 DEF AuthentikProxyHostName
    <3> QED
      BY <3>2 DEF AuthentikSite, Given, Route
  <2> QED
    BY <2>1, <2>2
<1>5. \A r \in Routes(s) :
         \/ r = CatchAll(s)
         \/ r \in StreamRoutes(s)
         \/ r \in AdminRoutes(s)
         \/ r \in AuthentikSite(s)
  BY DEF Routes, Given
<1>6. \A r \in Routes(s) :
         \/ r = CatchAll(s) /\ r.path = "/"
         \/ r \in StreamRoutes(s) /\ r.path = "/mcp"
         \/ r \in AdminRoutes(s) /\ r.path \in {"/admin", "/outpost"}
         \/ r \in AuthentikSite(s) /\ r.path \notin Paths
  BY <1>1, <1>2, <1>3, <1>4, <1>5
<1>7. ASSUME NEW q \in Routes(s), NEW r \in Routes(s), q.path = r.path
      PROVE  q = r
  <2>1. CASE r.path = "/"
    BY <1>6, <1>7, <2>1 DEF Paths
  <2>2. CASE r.path = "/mcp"
    <3>1. q \in StreamRoutes(s) /\ r \in StreamRoutes(s)
      BY <1>6, <1>7, <2>2 DEF Paths
    <3> QED
      BY <1>2, <3>1
  <2>3. CASE r.path \in {"/admin", "/outpost"}
    <3>1. q \in AdminRoutes(s) /\ r \in AdminRoutes(s)
      BY <1>6, <1>7, <2>3 DEF Paths
    <3> QED
      BY <1>3, <1>7, <3>1
  <2>4. CASE r.path \notin Paths
    <3>1. q \in AuthentikSite(s) /\ r \in AuthentikSite(s)
      BY <1>6, <1>7, <2>4 DEF Paths
    <3> QED
      BY <1>4, <3>1
  <2> QED
    BY <2>1, <2>2, <2>3, <2>4 DEF Paths
<1> QED
  BY <1>6, <1>7

(* No generated proxy lets a request into the operator area without the     *)
(* outpost or past the secret (setup-wizard.py, the proxies).               *)
LEMMA AreaStaysClosed ==
    ASSUME StackInv, stackStep # "nothing"
    PROVE  ProxyKeepsTheAreaClosed
<1> DEFINE s == answers
           leadsTo(path) == RouteOf(path, s)
           host == HostName(s.authentik_url)
<1>1. HostName(s.authentik_url) \notin Paths
  BY DEF StackInv, Filled
<1>2. ASSUME NEW r \in Routes(s) PROVE leadsTo(r.path) = r
  BY <1>1, RoutesAre, OwnRoute
<1>3. ASSUME ProxyForwardsAuth(s)
      PROVE  /\ leadsTo("/outpost").to = "provider"
             /\ "adds the secret" \in leadsTo("/admin").does
  <2> DEFINE admin == Route("/admin", "web",
                            {"asks the outpost", "adds the secret", "streams"})
             outpost == Route("/outpost", "provider", {})
  <2>1. WritesProxy(s)
    BY <1>3 DEF ProxyForwardsAuth, ForwardAuthProxies, WritesProxy
  <2>2. admin \in Routes(s) /\ outpost \in Routes(s)
    BY <1>3, <2>1 DEF Routes, AdminRoutes, Given
  <2>3. /\ admin.path = "/admin" /\ "adds the secret" \in admin.does
        /\ outpost.path = "/outpost" /\ outpost.to = "provider"
    BY DEF Route
  <2> HIDE DEF admin, outpost
  <2>4. leadsTo(admin.path) = admin /\ leadsTo(outpost.path) = outpost
    BY <1>2, <2>2
  <2> QED
    BY <2>3, <2>4
<1>4. ASSUME NEW r \in Routes(s), "adds the secret" \in r.does
      PROVE  ProxyForwardsAuth(s) /\ "asks the outpost" \in r.does
  <2>1. "adds the secret" \notin CatchAll(s).does
    BY DEF CatchAll, Route, Given
  <2>2. r \in StreamRoutes(s) \/ r \in AdminRoutes(s) \/ r \in AuthentikSite(s)
    BY <1>1, <1>4, <2>1, RoutesAre
  <2>3. r \notin StreamRoutes(s) /\ r \notin AuthentikSite(s)
    <3>1. ASSUME r \in StreamRoutes(s) PROVE r.does = {"streams"}
      BY <3>1, RouteIs DEF StreamRoutes, Given
    <3>2. ASSUME r \in AuthentikSite(s) PROVE "adds the secret" \notin r.does
      <4> DEFINE nothing == {}
      <4>1. r = Route(AuthentikProxyHostName(s), "provider", nothing)
        BY <3>2 DEF AuthentikSite, Given
      <4>2. "adds the secret" \notin nothing
        OBVIOUS
      <4> DEFINE site == AuthentikProxyHostName(s)
      <4> HIDE DEF nothing, site
      <4>3. r.does = nothing
        BY <4>1, RouteIs DEF site
      <4> QED
        BY <4>2, <4>3
    <3>3. "adds the secret" \notin {"streams"}
      OBVIOUS
    <3>4. r \notin StreamRoutes(s)
      BY <1>4, <3>1, <3>3
    <3> QED
      BY <1>4, <3>2, <3>4
  <2>4. r \in AdminRoutes(s)
    BY <2>2, <2>3
  <2> DEFINE much == {"asks the outpost", "adds the secret", "streams"}
             nothing == {}
  <2>5. "adds the secret" \notin nothing /\ "asks the outpost" \in much
    OBVIOUS
  <2> HIDE DEF much, nothing
  <2>6. ProxyForwardsAuth(s)
    BY <2>4, AdminRoutesAre
  <2>7. r = Route("/admin", "web", much) \/ r = Route("/outpost", "provider", nothing)
    BY <2>4, AtMostTwo, AdminRoutesAre DEF much, nothing
  <2>8. r.does = much \/ r.does = nothing
    BY <2>7, RouteIs
  <2> QED
    BY <1>4, <2>5, <2>6, <2>8
<1>5. ASSUME WritesProxy(s), s.enable_mcp PROVE "streams" \in leadsTo("/mcp").does
  <2>1. CASE s.reverse_proxy = "traefik"
    <3>1. StreamRoutes(s) = {} /\ "streams" \in CatchAll(s).does
      BY <2>1 DEF StreamRoutes, CatchAll, Route, Given
    <3>2. {r \in Routes(s) : r.path = "/mcp"} = {}
      BY <1>1, <3>1, RoutesAre DEF Paths
    <3> QED
      BY <3>1, <3>2 DEF RouteOf
  <2>2. CASE s.reverse_proxy # "traefik"
    <3> DEFINE stream == Route("/mcp", "web", {"streams"})
    <3>1. stream \in Routes(s)
      BY <1>5, <2>2 DEF Routes, StreamRoutes, Given
    <3>2. stream.path = "/mcp" /\ "streams" \in stream.does
      BY DEF Route
    <3> HIDE DEF stream
    <3> QED
      BY <1>2, <3>1, <3>2
  <2> QED
    BY <2>1, <2>2
<1>6. ASSUME WritesProxy(s), UsesAuthentik(s)
      PROVE  leadsTo(host).to = "provider" \/ WarnsOfTheSite(s)
  <2>1. CASE AuthentikProxyHostName(s) = ""
    BY <1>6, <2>1 DEF WarnsOfTheSite
  <2>2. CASE AuthentikProxyHostName(s) # ""
    <3> DEFINE site == Route(AuthentikProxyHostName(s), "provider", {})
    <3>1. AuthentikProxyHostName(s) = host
      BY <2>2 DEF AuthentikProxyHostName
    <3>2. site \in Routes(s)
      BY <1>6, <2>2 DEF Routes, AuthentikSite, ProxyServesAuthentik, Given
    <3>3. site.path = host /\ site.to = "provider"
      BY <3>1 DEF Route
    <3> HIDE DEF site
    <3> QED
      BY <1>2, <3>2, <3>3
  <2> QED
    BY <2>1, <2>2
<1>7. ASSUME WritesProxy(s), s.admin_enabled, ~ProxyForwardsAuth(s)
      PROVE  WarnsOfTheArea(s)
  BY <1>7 DEF WarnsOfTheArea
<1> HIDE DEF leadsTo
<1>8. /\ \A r \in Routes(s) :
           "adds the secret" \in r.does =>
               /\ "asks the outpost" \in r.does
               /\ leadsTo("/outpost").to = "provider"
      /\ WritesProxy(s) =>
           /\ s.enable_mcp => "streams" \in leadsTo("/mcp").does
           /\ s.admin_enabled =>
                  \/ "adds the secret" \in leadsTo("/admin").does
                  \/ WarnsOfTheArea(s)
           /\ UsesAuthentik(s) =>
                  leadsTo(host).to = "provider" \/ WarnsOfTheSite(s)
  BY <1>3, <1>4, <1>5, <1>6, <1>7
<1> QED
  BY <1>8 DEF ProxyKeepsTheAreaClosed, leadsTo

(* What the setup wizard writes fits together, whatever earlier runs left   *)
(* in .env: every credential a container reads is there and none that       *)
(* nobody reads, every mounted volume is declared, the proxy adds the       *)
(* secret only to what the outpost was asked about, and a start that is     *)
(* refused was foretold (setup-wizard.py, write_files, render_env_file,     *)
(* render_proxy_file, check_consistency; app.py, create_app).               *)
THEOREM StackStaysTogether == StackSpec => []StackHoldsTogether
<1>1. StackInv => StackHoldsTogether
  <2> SUFFICES ASSUME StackInv, stackStep \in {"written", "up", "refused"}
               PROVE  /\ CredentialsMeetTheirReaders
                      /\ VolumesAreDeclared
                      /\ ProxyKeepsTheAreaClosed
                      /\ MostRefusalsAreForetold
    BY DEF StackHoldsTogether
  <2> QED
    BY CredentialsMeet, VolumesMeet, AreaStaysClosed, RefusalsAreForetold
<1> QED
  BY <1>1, StackStaysWhole, PTL

=============================================================================
