---------------------------- MODULE MCAssetCache ----------------------------
EXTENDS AssetCache
MCLevels == 0..2
=============================================================================
