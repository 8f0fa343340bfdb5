---------------------------- MODULE MCSetupWizard ----------------------------
(* Two addresses, nobody asks for a sign-in on /mcp, and no storage.         *)
EXTENDS SetupWizard

YesNo == {TRUE, FALSE}

AddressAnswers ==
    [q \in ToSet(Questions) \ OpenQuestions |->
        CASE q = "public_base_url" -> {"https://old", "https://new"}
          [] q \in {"enable_mcp", "deploy_authentik"} -> YesNo
          [] q \in {"audit_storage", "redis_persistence"} -> {"volume"}
          [] q \in {"audit_log_path", "redis_data_path"} -> {<<q>>}
          [] OTHER -> {FALSE}]
=============================================================================
