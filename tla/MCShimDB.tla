------------------------------ MODULE MCShimDB ------------------------------
(* Every list of up to three certificates, good and bad ones.  Two lists fit *)
(* into what a word can count, three do not.                                 *)
EXTENDS ShimDB, SequencesExt

MCW == 256

C(form, cert, size, hasGuid, isPem) ==
    [form |-> form, cert |-> cert, size |-> size, guid |-> "guid of " \o cert,
     hasGuid |-> hasGuid, isPem |-> isPem]

MCCerts == {C("keydir", "one", 40, TRUE, TRUE), C("keydir", "two", 60, TRUE, TRUE),
            C("keydir", "three", 40, FALSE, TRUE), C("keydir", "bad", 40, TRUE, FALSE),
            C("guid", "one", 40, TRUE, TRUE), C("pem", "two", 60, TRUE, TRUE)}

MCJobs == [writer : {"bkcust", "custbk"}, certs : SeqOf(MCCerts, 3)]
=============================================================================
