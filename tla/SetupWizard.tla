------------------------------ MODULE SetupWizard ------------------------------
(***************************************************************************)
(* The Docker setup wizard (docker/setup-wizard.py): runs one after        *)
(* another against one deployment.  A run reads the credentials that       *)
(* exist, walks its questions, derives the rest, lets answers be changed   *)
(* at the summary, backs up what is there and writes file after file.  It  *)
(* may be interrupted anywhere.                                            *)
(*                                                                         *)
(* Of the questions are modelled those that decide what is asked later,    *)
(* what is derived and whether the stack can work.  The answers a run      *)
(* starts from (the notebook of the last run, a preset, --answers, flags)  *)
(* are any; the credentials in .env are represented by the password of the *)
(* provider's database, numbered in the order they are generated.          *)
(***************************************************************************)
EXTENDS SetupAnswers

CONSTANTS
    Answers,        \* what may be answered to each question
    MaxPasswords    \* bound: passwords generated

VARIABLES
    wizardStep,     \* what the run does next
    mode,           \* how much this run asks
    walk,           \* the questions of this run
    position,       \* the next question of it
    answered,       \* positions of the questions answered, to go back to
    setup,          \* the answers
    password,       \* the provider's password in the answers, 0 for none
    redirect,       \* authentik_redirect_uri, derived and never asked
    generated,      \* passwords generated so far
    env,            \* the password in .env, 0 for none
    notebook,       \* the redirect in the answers file
    backups,        \* passwords in backups of .env
    deployed        \* history: passwords .env has held

wizardVars == <<wizardStep, mode, walk, position, answered, setup, password,
                redirect, generated, env, notebook, backups, deployed>>
answersVars == <<setup, password, redirect, generated>>
filesVars == <<env, notebook, backups, deployed>>

Questions ==
    <<"public_base_url", "enable_mcp", "mcp_auth_enabled", "admin_enabled",
      "deploy_authentik", "authentik_accounts", "mcp_auth_issuer",
      "smtp_host", "smtp_auth", "smtp_password", "audit_log",
      "audit_storage", "audit_log_path", "redis_persistence",
      "redis_data_path">>

(* A quick setup asks the first of them.                                    *)
QuickQuestions == SubSeq(Questions, 1, 10)

(* Whether these three are answered is all that matters of them.            *)
OpenQuestions == {"authentik_accounts", "mcp_auth_issuer", "smtp_password"}

ASSUME WizardAssumption ==
    /\ DOMAIN Answers = ToSet(Questions) \ OpenQuestions
    /\ \A q \in DOMAIN Answers : Answers[q] # {}
    /\ Answers.deploy_authentik = BOOLEAN
    /\ FALSE \in Answers.smtp_host
    /\ MaxPasswords \in Nat

Setups ==
    [public_base_url   : Answers.public_base_url,
     enable_mcp        : Answers.enable_mcp,
     mcp_auth_enabled  : Answers.mcp_auth_enabled,
     admin_enabled     : Answers.admin_enabled,
     deploy_authentik  : Answers.deploy_authentik,
     smtp_host         : Answers.smtp_host,
     smtp_auth         : Answers.smtp_auth,
     audit_log         : Answers.audit_log,
     audit_storage     : Answers.audit_storage,
     audit_log_path    : Answers.audit_log_path,
     redis_persistence : Answers.redis_persistence,
     redis_data_path   : Answers.redis_data_path]

NoUrl == "none"
NoSetup == CHOOSE s \in Setups : TRUE     \* no run is under way

-----------------------------------------------------------------------------
(* What ask takes: Enter keeps the answer, another path must not conflict.  *)
Taken(q, s) ==
    IF q \in OpenQuestions THEN {s} ELSE
    {[s EXCEPT ![q] = a] : a \in
        {b \in Answers[q] :
            \/ b = s[q]
            \/ q \notin {"audit_log_path", "redis_data_path"}
            \/ ~StorageConflict([s EXCEPT ![q] = b])}}

(* Mutant: a section's questions are filtered once, before it starts.       *)
WalkOfRelevant(m, s) ==
    SelectSeq(IF m = "full" THEN Questions ELSE QuickQuestions,
              LAMBDA q : Relevant(q, s))

(* The plan of run_questions.                                               *)
WalkOf(m, s) == IF m = "full" THEN Questions ELSE QuickQuestions

-----------------------------------------------------------------------------
WizardTypeOK ==
    /\ wizardStep \in {"idle", "asking", "walked", "rested", "review", "backup",
                      "compose", "env", "credentials", "notebook", "done"}
    /\ mode \in {"quick", "full"}
    /\ walk \in {<<>>, WalkOf(mode, setup)}
    /\ position \in 1..Len(Questions) + 1
    /\ ToSet(answered) \subseteq DOMAIN walk
    /\ setup \in Setups
    /\ {redirect, notebook} \subseteq {NoUrl} \cup Answers.public_base_url
    /\ generated \in 0..MaxPasswords
    /\ {password, env} \subseteq 0..generated
    /\ deployed \cup backups \subseteq 1..generated

WizardInit ==
    /\ wizardStep = "idle"
    /\ mode = "quick"
    /\ walk = <<>>
    /\ position = 1
    /\ answered = <<>>
    /\ setup = NoSetup
    /\ password = 0
    /\ redirect = NoUrl
    /\ generated = 0
    /\ env = 0
    /\ notebook = NoUrl
    /\ backups = {}
    /\ deployed = {}

(* The walk is of no interest once its end was reached.                     *)
Forget ==
    /\ mode' = "quick"
    /\ walk' = <<>>
    /\ position' = 1
    /\ answered' = <<>>

(* main up to the first question: the answers found, then the credentials.  *)
StartRun ==
    /\ wizardStep = "idle"
    /\ wizardStep' = "asking"
    /\ setup' \in Setups
    /\ mode' \in {"quick", "full"}
    /\ walk' = WalkOf(mode', setup')
    /\ position' = 1
    /\ answered' = <<>>
    /\ password' = env
    /\ redirect' = notebook
    /\ UNCHANGED <<generated, filesVars>>

AtQuestion == wizardStep = "asking" /\ position <= Len(walk)

PassOver ==
    /\ AtQuestion
    /\ ~Relevant(walk[position], setup)
    /\ position' = position + 1
    /\ UNCHANGED <<wizardStep, mode, walk, answered, answersVars, filesVars>>

Answer ==
    /\ AtQuestion
    /\ Relevant(walk[position], setup)
    /\ \E s \in Taken(walk[position], setup) : setup' = Offer(setup, s)
    /\ answered' = Append(answered, position)
    /\ position' = position + 1
    /\ UNCHANGED <<wizardStep, mode, walk, password, redirect, generated, filesVars>>

(* "b": to the last question asked.                                         *)
GoBack ==
    /\ AtQuestion
    /\ Relevant(walk[position], setup)
    /\ answered # <<>>
    /\ position' = Last(answered)
    /\ answered' = Front(answered)
    /\ UNCHANGED <<wizardStep, mode, walk, answersVars, filesVars>>

TakeTheRest ==
    /\ AtQuestion
    /\ Relevant(walk[position], setup)
    /\ wizardStep' = "rested"
    /\ Forget
    /\ UNCHANGED <<answersVars, filesVars>>

EndWalk ==
    /\ wizardStep = "asking"
    /\ position > Len(walk)
    /\ wizardStep' = "walked"
    /\ UNCHANGED <<mode, walk, position, answered, answersVars, filesVars>>

(* _finalise: what the answers s imply.                                     *)
Finalise(s) ==
    IF UsesAuthentik(s)
    THEN /\ setup' = s
         /\ redirect' = IF redirect = NoUrl THEN s.public_base_url ELSE redirect
         /\ IF password = 0
            THEN /\ generated < MaxPasswords
                 /\ generated' = generated + 1
                 /\ password' = generated + 1
            ELSE UNCHANGED <<generated, password>>
    ELSE /\ setup' = [s EXCEPT !.smtp_host = FALSE]
         /\ password' = 0
         /\ UNCHANGED <<redirect, generated>>

Derive ==
    /\ wizardStep \in {"walked", "rested"}
    /\ wizardStep' = "review"
    /\ Finalise(setup)
    /\ Forget
    /\ UNCHANGED filesVars

(* review: a name re-asks that question, and what it implies follows.       *)
ChangeAnswer ==
    /\ wizardStep = "review"
    /\ \E n \in DOMAIN Questions :
          /\ Relevant(Questions[n], setup)
          /\ \E s \in Taken(Questions[n], setup) : Finalise(Offer(setup, s))
    /\ UNCHANGED <<wizardStep, mode, walk, position, answered, filesVars>>

Confirm ==
    /\ wizardStep = "review"
    /\ ~StorageConflict(setup)
    /\ wizardStep' = "backup"
    /\ UNCHANGED <<mode, walk, position, answered, answersVars, filesVars>>

(* "no", an overwrite not confirmed, an interruption, or the end: the files *)
(* stay as they are, the answers are forgotten.                             *)
EndRun ==
    /\ wizardStep # "idle"
    /\ wizardStep' = "idle"
    /\ Forget
    /\ setup' = NoSetup
    /\ password' = 0
    /\ redirect' = NoUrl
    /\ UNCHANGED <<generated, filesVars>>

-----------------------------------------------------------------------------
Writes(from, to) ==
    /\ wizardStep = from
    /\ wizardStep' = to
    /\ UNCHANGED <<mode, walk, position, answered, answersVars>>

(* Mutant: one backup, replaced by each run.                                *)
KeepLastBackup ==
    /\ Writes("backup", "compose")
    /\ backups' = {env} \ {0}
    /\ UNCHANGED <<env, notebook, deployed>>

(* backup_existing: a copy under a time of its own.                         *)
Backup ==
    /\ Writes("backup", "compose")
    /\ backups' = (backups \cup {env}) \ {0}
    /\ UNCHANGED <<env, notebook, deployed>>

(* write_files, file by file.  .env is truncated before it is written.      *)
WriteCompose == Writes("compose", "env") /\ UNCHANGED filesVars

TruncateEnv ==
    /\ Writes("env", "credentials")
    /\ env' = 0
    /\ UNCHANGED <<notebook, backups, deployed>>

WriteEnv ==
    /\ Writes("credentials", "notebook")
    /\ env' = IF UsesAuthentik(setup) THEN password ELSE 0
    /\ deployed' = (deployed \cup {env'}) \ {0}
    /\ UNCHANGED <<notebook, backups>>

WriteNotebook ==
    /\ Writes("notebook", "done")
    /\ notebook' = redirect
    /\ UNCHANGED <<env, backups, deployed>>

WizardNext ==
    \/ StartRun
    \/ PassOver
    \/ Answer
    \/ GoBack
    \/ TakeTheRest
    \/ EndWalk
    \/ Derive
    \/ ChangeAnswer
    \/ Confirm
    \/ EndRun
    \/ Backup
    \/ WriteCompose
    \/ TruncateEnv
    \/ WriteEnv
    \/ WriteNotebook

WizardSpec == WizardInit /\ [][WizardNext]_wizardVars

-----------------------------------------------------------------------------
(* A walk to the end, with any steps back, has asked exactly the questions  *)
(* of its mode that the answers it ended with make relevant: no answer      *)
(* brings a question into play that was passed over, and none is kept that  *)
(* a later answer made pointless (setup-wizard.py, run_questions).          *)
EveryRelevantQuestionIsAsked ==
    wizardStep = "walked" =>
        {walk[n] : n \in ToSet(answered)} =
            {q \in ToSet(WalkOf(mode, setup)) : Relevant(q, setup)}

(* No password .env ever held is lost: it is there or in a backup, also     *)
(* when runs are interrupted between any two files, or take the provider    *)
(* out of the stack and bring it back.                                      *)
NoCredentialIsLost == deployed \subseteq {env} \cup backups

(* A run that was not interrupted leaves a stack that can start: a password *)
(* exactly where a provider asks for it, and no shared directory.           *)
WrittenStackCanStart ==
    wizardStep = "done" =>
        /\ UsesAuthentik(setup) <=> env # 0
        /\ ~StorageConflict(setup)

(* A setup in use holds together with its files (setup-wizard.py, review,   *)
(* backup_existing, write_files).                                           *)
DeploymentIsKept == NoCredentialIsLost /\ WrittenStackCanStart

(* "Change what it is derived from and it follows" (setup-wizard.py, review,*)
(* of an answer that is derived): the address the provider sends a browser  *)
(* back to is the one the service is reached at.                            *)
DerivedFollows ==
    wizardStep = "done" /\ UsesAuthentik(setup) => redirect = setup.public_base_url

=============================================================================
