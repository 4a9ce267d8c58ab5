---------------------------- MODULE MCChatServer ----------------------------
EXTENDS ChatServer

CONSTANTS alice, bob

\* One admin, two, and the full array with one name and with two.
MCAdminLists ==
  {<<alice>>, <<alice, bob>>, <<alice, alice, alice, alice, alice>>}
=============================================================================
