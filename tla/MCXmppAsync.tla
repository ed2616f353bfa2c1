---------------------------- MODULE MCXmppAsync ----------------------------
(* XmppAsync with two services; messages of one or two sub-commands.       *)
EXTENDS XmppAsync

MCPort == {"sysmgr", "bboxsms"}
MCMessage == {<<Alias>>, <<"sysmgr">>, <<"sysmgr", "bboxsms">>}
=============================================================================
