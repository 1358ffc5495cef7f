CONSTANTS
    Classes = {"home", "field", "offline"}
    ClassPosters = {1, 2}
    MaxPosts = 3
CHECK_DEADLOCK FALSE
SPECIFICATION NetClassSpec
INVARIANT SettingIsRemembered
